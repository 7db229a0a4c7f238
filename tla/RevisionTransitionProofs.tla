----------------------- MODULE RevisionTransitionProofs -----------------------
(***************************************************************************)
(* The revision transition, for any tree of Gate8 files and any number of  *)
(* kills, power failures and edits, as long as kills and power failures    *)
(* are not mixed in one history: no authority changes before the archive   *)
(* is there, no output goes before the authority, nothing is lost that is  *)
(* not in the archive, and while nobody edits, the command accepts every   *)
(* repository that an interrupted run leaves.                              *)
(***************************************************************************)
EXTENDS RevisionTransition, TLAPS

Replacing == {"recheck", "stage", "replace", "sync_document"}
Removing == {"report", "sync_report", "rename", "sync_rename", "verify_tomb",
             "unlink", "sync_removal", "finish"}

(* After a kill nothing is known to be synced, but then the power holds.   *)
Apart == kills = 0 \/ losses = 0

Archived ==
    /\ Apart
    /\ disk.archived /\ kills = 0 => synced.archived \/ pc = "sync_archive"
    /\ pc = "sync_archive" => disk.archived
    /\ pc \in Replacing \cup Removing => disk.archived /\ (kills = 0 => synced.archived)
    /\ \/ disk.docs["roadmap"] = "pending" \/ synced.docs["roadmap"] = "pending"
       \/ destroyed # {}
       => disk.archived /\ (kills = 0 => synced.archived)

Missing(d) ==
    \/ d.report = "absent" \/ d.place # "live"
    \/ \E f \in GateFiles : d.files[f] = "absent"

Turned == disk.docs["roadmap"] # "prior" /\ (kills = 0 => synced.docs["roadmap"] # "prior")

(* The roadmap comes first.                                                *)
First ==
    /\ pc \in {"archive", "sync_archive", "recheck"} => document = "roadmap"
    /\ \/ pc \in {"stage", "replace"} /\ document # "roadmap"
       \/ pc = "sync_document"
       => disk.docs["roadmap"] # "prior"

Outputs ==
    /\ disk.docs["roadmap"] = "pending" /\ kills = 0 =>
          synced.docs["roadmap"] # "prior" \/ pc = "sync_document"
    /\ pc \in Removing => Turned
    /\ Missing(disk) \/ Missing(synced) => Turned

Preserved == \A gone \in destroyed : gone[2] = "prior"

IInv == TypeOK /\ Archived /\ First /\ Outputs /\ Preserved

(* A repository that holds only versions that are or were authoritative,   *)
(* the other documents behind the roadmap: what runs alone leave.          *)
Unedited(d) ==
    /\ \A n \in Documents : d.docs[n] # "edited"
    /\ d.report # "edited" /\ ~d.foreign
    /\ \A f \in GateFiles : d.files[f] # "edited"
    /\ d.docs["roadmap"] = "prior" => \A n \in Documents : d.docs[n] = "prior"

Undisturbed == edits = 0 => Unedited(disk) /\ Unedited(synced)

-----------------------------------------------------------------------------
(* Types.                                                                  *)

LEMMA DocumentsAre ==
    /\ Documents = {"roadmap", "decisions", "m2-plan", "m2-spec"}
    /\ \A i \in 1..4 : DocumentOrder[i] \in Documents
    /\ \A n \in Documents : Following(n) \in 2..5
  <1>1. /\ DocumentOrder[1] = "roadmap" /\ DocumentOrder[2] = "decisions"
        /\ DocumentOrder[3] = "m2-plan" /\ DocumentOrder[4] = "m2-spec"
    BY DEF DocumentOrder
  <1>2. Documents = {"roadmap", "decisions", "m2-plan", "m2-spec"}
    BY <1>1 DEF Documents
  <1>3. ASSUME NEW n \in Documents PROVE Following(n) \in 2..5
    <2>1. PICK i \in 1..4 : DocumentOrder[i] = n
      BY DEF Documents
    <2> DEFINE at == CHOOSE j \in 1..4 : DocumentOrder[j] = n
    <2>2. at \in 1..4
      BY <2>1
    <2>3. Following(n) = 1 + at
      BY Zenon DEF Following
    <2> HIDE DEF at
    <2> QED  BY <2>2, <2>3
  <1> QED  BY <1>1, <1>2, <1>3 DEF Documents

(* The next document is one that still has to be replaced.                 *)
LEMMA NextIs ==
    ASSUME NEW from \in Nat, from >= 1, NextDocument(disk, from)
    PROVE  /\ pc' \in {"report", "stage"} /\ document' \in Documents
           /\ pc' = "stage" => disk.docs[document'] # "pending"
  <1> DEFINE left == Outstanding(disk, from)
             first == CHOOSE i \in left : \A j \in left : i <= j
  <1>1. CASE left = {}
    BY <1>1, DocumentsAre DEF NextDocument
  <1>2. CASE left # {}
    <2>1. left \subseteq 1..4
      BY DEF Outstanding
    <2>2. \E i \in left : \A j \in left : i <= j
      <3> HIDE DEF left
      <3>1. CASE 1 \in left
        <4>1. \A j \in left : 1 <= j
          BY <2>1
        <4> QED  BY <3>1, <4>1
      <3>2. CASE 1 \notin left /\ 2 \in left
        BY <2>1, <3>2
      <3>3. CASE 1 \notin left /\ 2 \notin left /\ 3 \in left
        BY <2>1, <3>3
      <3>4. CASE 1 \notin left /\ 2 \notin left /\ 3 \notin left /\ 4 \in left
        BY <2>1, <3>4
      <3>5. 1 \in left \/ 2 \in left \/ 3 \in left \/ 4 \in left
        <4>1. PICK i \in left : TRUE
          BY <1>2
        <4>2. i = 1 \/ i = 2 \/ i = 3 \/ i = 4
          BY <2>1, <4>1
        <4> QED  BY <4>1, <4>2
      <3> QED  BY <3>1, <3>2, <3>3, <3>4, <3>5
    <2>3. first \in left
      BY <2>2
    <2>4. first \in 1..4 /\ disk.docs[DocumentOrder[first]] # "pending"
      BY <2>3 DEF Outstanding
    <2>5. pc' = "stage" /\ document' = DocumentOrder[first]
      BY <1>2 DEF NextDocument
    <2> QED  BY <2>4, <2>5, DocumentsAre
  <1> QED  BY <1>1, <1>2

USE DEF World, Goto

LEMMA TypeStep == TypeOK /\ [Next]_vars => TypeOK'
  <1> SUFFICES ASSUME TypeOK, [Next]_vars PROVE TypeOK'
    OBVIOUS
  <1> USE DEF TypeOK
  <1>1. CASE Start
    <2>1. CASE disk.docs["roadmap"] = "prior"
      BY <1>1, <2>1, DocumentsAre DEF Start, Steps
    <2>2. CASE disk.docs["roadmap"] # "prior"
      BY <1>1, <2>2, NextIs DEF Start, Steps
    <2> QED  BY <2>1, <2>2
  <1>2. CASE InstallArchive
    BY <1>2 DEF InstallArchive, Disk, Steps
  <1>3. CASE SyncArchive
    BY <1>3 DEF SyncArchive, Disk, Steps
  <1>4. CASE Recheck
    BY <1>4 DEF Recheck, VerifiedPrior, Steps
  <1>5. CASE StageDocument
    BY <1>5 DEF StageDocument, Disk, Steps
  <1>6. CASE ReplaceDocument
    <2>1. disk' \in Disk
      <3>1. disk'.docs = [disk.docs EXCEPT ![document] = "pending"]
        BY <1>6 DEF ReplaceDocument, Disk
      <3>2. disk'.docs \in [Documents -> Versions]
        BY <3>1 DEF Disk, Versions
      <3>3. disk' = [disk EXCEPT !.stages = @ \ {document}, !.docs = disk'.docs]
        BY <1>6, <3>1 DEF ReplaceDocument, Disk
      <3> QED  BY <3>2, <3>3 DEF Disk
    <2>2. destroyed' \subseteq (Documents \cup {"report"} \cup GateFiles) \X Versions
      BY <1>6 DEF ReplaceDocument, Versions
    <2> QED  BY <1>6, <2>1, <2>2 DEF ReplaceDocument, Steps
  <1>7. CASE SyncDocument
    <2>1. Following(document) \in 2..5
      BY DocumentsAre
    <2>2. NextDocument(disk, Following(document))
      BY <1>7 DEF SyncDocument
    <2>3. /\ pc' \in {"report", "stage"} /\ document' \in Documents
          /\ pc' = "stage" => disk.docs[document'] # "pending"
      BY <2>1, <2>2, NextIs
    <2>4. synced' \in Disk
      BY <1>7 DEF SyncDocument, Disk
    <2> QED  BY <1>7, <2>3, <2>4 DEF SyncDocument, Steps
  <1>8. CASE RemoveReport
    BY <1>8 DEF RemoveReport, VerifiedPending, Disk, Steps, Versions
  <1>9. CASE SyncReport
    BY <1>9 DEF SyncReport, Disk, Steps
  <1>10. CASE RenameGate8
    BY <1>10 DEF RenameGate8, Disk, Steps
  <1>11. CASE SyncRename
    BY <1>11 DEF SyncRename, Disk, Steps
  <1>12. CASE VerifyTomb \/ Finish
    BY <1>12 DEF VerifyTomb, Finish, Steps
  <1>13. CASE UnlinkFile
    BY <1>13 DEF UnlinkFile, Disk, Versions
  <1>14. CASE RemoveDirectories
    BY <1>14 DEF RemoveDirectories, Disk, Steps
  <1>15. CASE SyncRemoval
    BY <1>15 DEF SyncRemoval, Disk, Steps
  <1>16. CASE Refuse
    BY <1>16 DEF Refuse, Steps
  <1>17. CASE Kill
    BY <1>17, Bounds DEF Kill, Steps
  <1>18. CASE PowerLoss
    <2>1. disk' \in Disk
      BY <1>18 DEF PowerLoss, Disk
    <2> QED  BY <1>18, <2>1, Bounds DEF PowerLoss, Steps
  <1>19. CASE ClearStage
    BY <1>19 DEF ClearStage, Disk
  <1>20. CASE Edit
    <2>1. disk' \in Disk /\ synced' \in Disk
      <3>1. CASE EditDocument
        BY <3>1 DEF EditDocument, Disk, Versions
      <3>2. CASE EditReport
        BY <3>2 DEF EditReport, Disk
      <3>3. CASE EditGate8
        BY <3>3 DEF EditGate8, Disk
      <3>4. CASE AddToGate8
        BY <3>4 DEF AddToGate8, Disk
      <3> QED  BY <1>20, <3>1, <3>2, <3>3, <3>4 DEF Edit
    <2>2. \A n \in Documents : disk'.docs[n] = disk.docs[n] \/ disk'.docs[n] = "edited"
      BY <1>20 DEF Edit, EditDocument, EditReport, EditGate8, AddToGate8, Disk
    <2>3. edits' \in 0..MaxEdits
      BY <1>20, Bounds DEF Edit
    <2> QED  BY <1>20, <2>1, <2>2, <2>3 DEF Edit
  <1>21. CASE UNCHANGED vars
    BY <1>21 DEF vars
  <1> QED  BY <1>1, <1>2, <1>3, <1>4, <1>5, <1>6, <1>7, <1>8, <1>9, <1>10, <1>11, <1>12,
              <1>13, <1>14, <1>15, <1>16, <1>17, <1>18, <1>19, <1>20, <1>21
           DEF Next, Run, Outside

-----------------------------------------------------------------------------
(* The archive, and what rests on it.                                      *)

Firm == disk.archived /\ (kills = 0 => synced.archived)
Pending == disk.docs["roadmap"] = "pending" \/ synced.docs["roadmap"] = "pending"
             \/ destroyed # {}

LEMMA ArchivedStep ==
    ASSUME ~KillsAndLosses, TypeOK, Archived, [Next]_vars
    PROVE  Archived'
  <1> USE DEF TypeOK
  <1> USE DEF Replacing, Removing
  <1>a. /\ pc \in Replacing \cup Removing \/ Pending => Firm
        /\ disk.archived /\ kills = 0 => synced.archived \/ pc = "sync_archive"
        /\ pc = "sync_archive" => disk.archived
    BY DEF Archived, Firm, Pending
  <1>b. /\ Apart'
        /\ disk'.archived /\ kills' = 0 => synced'.archived \/ pc' = "sync_archive"
        /\ pc' = "sync_archive" => disk'.archived
        /\ pc' \in Replacing \cup Removing \/ Pending' => Firm'
        => Archived'
    BY DEF Archived, Firm, Pending
  <1>c. Apart /\ UNCHANGED <<kills, losses>> => Apart'
    BY DEF Apart
  <1>d. Firm /\ disk'.archived = disk.archived /\ synced'.archived = synced.archived
           /\ kills' = kills => Firm'
    BY DEF Firm
  <1>e. Firm' /\ Apart' /\ pc' # "sync_archive" => Archived'
    BY <1>b DEF Firm
  <1>f. Apart
    BY DEF Archived
  <1>1. CASE Start
    <2>1. UNCHANGED <<disk, synced, kills, losses, destroyed>>
      BY <1>1 DEF Start
    <2>2. CASE disk.docs["roadmap"] = "prior"
      <3>1. pc' = "archive" /\ pc = "idle"
        BY <1>1, <2>2 DEF Start
      <3>2. Pending' => Pending
        BY <2>1 DEF Pending
      <3> QED  BY <2>1, <3>1, <3>2, <1>a, <1>b, <1>c, <1>d, <1>f
    <2>3. CASE disk.docs["roadmap"] # "prior"
      <3>1. pc' \in {"report", "stage"}
        BY <1>1, <2>3, NextIs DEF Start
      <3>2. Pending
        BY <1>1, <2>3 DEF Start, Admitted, Pending
      <3> QED  BY <2>1, <3>1, <3>2, <1>a, <1>c, <1>d, <1>e, <1>f
    <2> QED  BY <2>2, <2>3
  <1>2. CASE InstallArchive
    <2>1. disk'.archived /\ UNCHANGED <<kills, losses, synced, destroyed>>
      BY <1>2 DEF InstallArchive, Disk
    <2>2. CASE disk.archived
      <3>1. pc' = "recheck" /\ (kills = 0 => synced.archived)
        BY <1>2, <2>2, <1>a DEF InstallArchive
      <3> QED  BY <2>1, <3>1, <1>c, <1>e, <1>f DEF Firm
    <2>3. CASE ~disk.archived
      <3>1. pc' = "sync_archive" /\ disk'.docs = disk.docs
        BY <1>2, <2>3 DEF InstallArchive, Disk
      <3>2. ~Pending
        BY <2>3, <1>a DEF Firm
      <3>3. ~Pending'
        BY <2>1, <3>1, <3>2 DEF Pending
      <3> QED  BY <2>1, <3>1, <3>3, <1>b, <1>c, <1>f
    <2> QED  BY <2>2, <2>3
  <1>3. CASE SyncArchive
    <2>1. Firm' /\ pc' = "recheck" /\ Apart'
      BY <1>3, <1>a, <1>c, <1>f DEF SyncArchive, Firm, Disk
    <2> QED  BY <2>1, <1>e
  <1>4. CASE \/ Recheck \/ StageDocument \/ ReplaceDocument \/ SyncDocument
             \/ RemoveReport \/ SyncReport \/ RenameGate8 \/ SyncRename \/ VerifyTomb
             \/ UnlinkFile \/ RemoveDirectories \/ SyncRemoval \/ Finish
             \/ (Refuse /\ pc \in Replacing \cup Removing)
    <2>1. /\ pc \in Replacing \cup Removing
          /\ UNCHANGED <<kills, losses>>
      BY <1>4 DEF Recheck, StageDocument, ReplaceDocument, SyncDocument, RemoveReport,
           SyncReport, RenameGate8, SyncRename, VerifyTomb, UnlinkFile, RemoveDirectories,
           SyncRemoval, Finish, Refuse
    <2>2. disk'.archived = disk.archived /\ synced'.archived = synced.archived
      BY <1>4 DEF Recheck, StageDocument, ReplaceDocument, SyncDocument, RemoveReport,
           SyncReport, RenameGate8, SyncRename, VerifyTomb, UnlinkFile, RemoveDirectories,
           SyncRemoval, Finish, Refuse, Disk
    <2>3. pc' # "sync_archive"
      <3>1. CASE SyncDocument
        BY <3>1, NextIs, DocumentsAre DEF SyncDocument
      <3>2. CASE RenameGate8
        <4>1. disk.place \in {"live", "tomb", "gone"}
          BY DEF Disk
        <4> QED  BY <3>2, <4>1 DEF RenameGate8
      <3> QED  BY <1>4, <3>1, <3>2 DEF Recheck, StageDocument, ReplaceDocument, RemoveReport,
           SyncReport, SyncRename, VerifyTomb, UnlinkFile, RemoveDirectories,
           SyncRemoval, Finish, Refuse
    <2> QED  BY <2>1, <2>2, <2>3, <1>a, <1>c, <1>d, <1>e, <1>f
  <1>5. Refuse => pc \in Replacing \cup Removing
    BY DEF Refuse
  <1>6. CASE Kill
    <2>1. /\ UNCHANGED <<disk, synced, losses, destroyed>> /\ pc' = "idle"
          /\ kills' = kills + 1 /\ losses = 0 /\ kills \in Nat
      BY <1>6, Bounds DEF Kill
    <2>2. Pending' => Pending
      BY <2>1 DEF Pending
    <2>3. Firm => Firm'
      BY <2>1 DEF Firm
    <2> QED  BY <2>1, <2>2, <2>3, <1>a, <1>b DEF Apart
  <1>7. CASE PowerLoss
    <2>1. kills = 0 /\ kills' = kills /\ pc' = "idle" /\ synced' = disk' /\ destroyed' = destroyed
      BY <1>7, Bounds DEF PowerLoss
    <2>2. PICK history, docs, reports, artifacts \in {disk, synced} :
             disk'.archived = history.archived /\ disk'.docs = docs.docs
      BY <1>7 DEF PowerLoss
    <2>3. Pending' => Pending
      BY <2>1, <2>2 DEF Pending
    <2>4. Firm => Firm'
      BY <2>1, <2>2 DEF Firm
    <2> QED  BY <2>1, <2>3, <2>4, <1>a, <1>b DEF Apart
  <1>8. CASE ClearStage \/ Edit \/ UNCHANGED vars
    <2>1. /\ disk'.archived = disk.archived /\ synced'.archived = synced.archived
          /\ UNCHANGED <<kills, losses, pc, destroyed>>
      BY <1>8 DEF ClearStage, Edit, EditDocument, EditReport, EditGate8, AddToGate8, vars, Disk
    <2>2. \A n \in {"roadmap"} : /\ disk'.docs[n] \in {disk.docs[n], "edited"}
                                 /\ synced'.docs[n] \in {synced.docs[n], "edited"}
      BY <1>8, DocumentsAre DEF ClearStage, Edit, EditDocument, EditReport, EditGate8,
                                AddToGate8, vars, Disk
    <2>3. Pending' => Pending
      BY <2>1, <2>2 DEF Pending
    <2> QED  BY <2>1, <2>3, <1>a, <1>b, <1>c, <1>d, <1>f
  <1> QED  BY <1>1, <1>2, <1>3, <1>4, <1>5, <1>6, <1>7, <1>8 DEF Next, Run, Outside

-----------------------------------------------------------------------------
(* The roadmap is the first document of a run and never turns back.        *)

LEMMA FirstStep ==
    ASSUME ~KillsAndLosses, TypeOK, First, [Next]_vars
    PROVE  First'
  <1> USE DEF TypeOK
  <1>f. "roadmap" \in Documents
    BY DocumentsAre
  <1>1. CASE Start
    <2>1. CASE disk.docs["roadmap"] = "prior"
      BY <1>1, <2>1 DEF Start, First
    <2>2. CASE disk.docs["roadmap"] # "prior"
      BY <1>1, <2>2, NextIs DEF Start, First
    <2> QED  BY <2>1, <2>2
  <1>2. CASE InstallArchive \/ SyncArchive \/ Recheck
    BY <1>2 DEF InstallArchive, SyncArchive, Recheck, First, Disk
  <1>3. CASE StageDocument
    BY <1>3 DEF StageDocument, First, Disk
  <1>4. CASE ReplaceDocument
    <2>1. disk'.docs = [disk.docs EXCEPT ![document] = "pending"] /\ pc' = "sync_document"
      BY <1>4 DEF ReplaceDocument, Disk
    <2>2. disk'.docs["roadmap"] # "prior"
      BY <1>4, <2>1, <1>f DEF ReplaceDocument, First, Disk
    <2> QED  BY <2>1, <2>2 DEF First
  <1>5. CASE SyncDocument
    <2>1. Following(document) \in 2..5 /\ NextDocument(disk, Following(document))
      BY <1>5, DocumentsAre DEF SyncDocument
    <2>2. pc' \in {"report", "stage"} /\ disk' = disk
      BY <1>5, <2>1, NextIs DEF SyncDocument
    <2> QED  BY <1>5, <2>2 DEF SyncDocument, First
  <1>6. CASE RenameGate8
    <2>1. disk.place \in {"live", "tomb", "gone"}
      BY DEF Disk
    <2> QED  BY <1>6, <2>1 DEF RenameGate8, First
  <1>7. CASE \/ RemoveReport \/ SyncReport \/ SyncRename \/ VerifyTomb
             \/ UnlinkFile \/ RemoveDirectories \/ SyncRemoval \/ Finish \/ Refuse
             \/ Kill \/ PowerLoss
    BY <1>7 DEF RemoveReport, SyncReport, SyncRename, VerifyTomb, UnlinkFile,
                RemoveDirectories, SyncRemoval, Finish, Refuse, Kill, PowerLoss, First
  <1>8. CASE ClearStage \/ Edit \/ UNCHANGED vars
    <2>1. UNCHANGED <<pc, document>>
      BY <1>8 DEF ClearStage, Edit, vars
    <2>2. disk'.docs["roadmap"] \in {disk.docs["roadmap"], "edited"}
      BY <1>8, <1>f DEF ClearStage, Edit, EditDocument, EditReport, EditGate8, AddToGate8,
                        vars, Disk
    <2> QED  BY <2>1, <2>2 DEF First
  <1> QED  BY <1>1, <1>2, <1>3, <1>4, <1>5, <1>6, <1>7, <1>8 DEF Next, Run, Outside

-----------------------------------------------------------------------------
(* Outputs go only after the authority.                                    *)

LEMMA OutputsStep ==
    ASSUME ~KillsAndLosses, TypeOK, First, Archived, Outputs, [Next]_vars
    PROVE  Outputs'
  <1> USE DEF TypeOK, Removing
  <1> DEFINE road(d) == d.docs["roadmap"]
  <1>a. /\ road(disk) = "pending" /\ kills = 0 => road(synced) # "prior" \/ pc = "sync_document"
        /\ pc \in Removing \/ Missing(disk) \/ Missing(synced) => Turned
    BY DEF Outputs
  <1>b. /\ road(disk)' = "pending" /\ kills' = 0 =>
               road(synced)' # "prior" \/ pc' = "sync_document"
        /\ pc' \in Removing \/ Missing(disk)' \/ Missing(synced)' => Turned'
        => Outputs'
    BY DEF Outputs
  <1>c. Turned' => Outputs'
    BY <1>b DEF Turned
  <1>d. Turned /\ UNCHANGED <<disk, synced, kills>> => Turned'
    BY DEF Turned
  <1>e. /\ disk' = disk => (Missing(disk)' <=> Missing(disk))
        /\ synced' = synced => (Missing(synced)' <=> Missing(synced))
    BY DEF Missing
  <1>f. "roadmap" \in Documents
    BY DocumentsAre
  <1>1. CASE Start
    <2>1. UNCHANGED <<disk, synced, kills>>
      BY <1>1 DEF Start
    <2>2. CASE road(disk) = "prior"
      BY <1>1, <2>1, <2>2, <1>a, <1>b, <1>d, <1>e DEF Start
    <2>3. CASE road(disk) # "prior"
      <3>1. Turned
        BY <1>1, <2>3, <1>a DEF Start, Admitted, Turned
      <3> QED  BY <2>1, <3>1, <1>c, <1>d
    <2> QED  BY <2>2, <2>3
  <1>2. CASE InstallArchive \/ SyncArchive \/ StageDocument
    <2>1. /\ pc # "sync_document" /\ pc' \notin Removing /\ kills' = kills
          /\ disk'.docs = disk.docs /\ synced'.docs = synced.docs
      BY <1>2 DEF InstallArchive, SyncArchive, StageDocument, Disk
    <2>2. (Missing(disk)' => Missing(disk)) /\ (Missing(synced)' => Missing(synced))
      BY <1>2 DEF InstallArchive, SyncArchive, StageDocument, Disk, Missing
    <2> QED  BY <2>1, <2>2, <1>a, <1>b DEF Turned
  <1>3. CASE Recheck
    BY <1>3, <1>a, <1>b, <1>d, <1>e DEF Recheck
  <1>4. CASE ReplaceDocument
    <2>1. /\ pc' = "sync_document" /\ synced' = synced /\ kills' = kills
      BY <1>4 DEF ReplaceDocument
    <2>2. disk'.docs = [disk.docs EXCEPT ![document] = "pending"]
      BY <1>4 DEF ReplaceDocument, Disk
    <2>3. road(disk)' \in {road(disk), "pending"}
      BY <2>2, <1>f DEF Disk
    <2>4. Missing(disk)' => Missing(disk)
      BY <1>4 DEF ReplaceDocument, Disk, Missing
    <2> QED  BY <2>1, <2>3, <2>4, <1>a, <1>b, <1>e DEF Turned
  <1>5. CASE SyncDocument
    <2>1. synced'.docs = disk.docs /\ disk' = disk /\ kills' = kills
      BY <1>5 DEF SyncDocument, Disk
    <2>2. Missing(synced)' => Missing(synced)
      BY <1>5 DEF SyncDocument, Disk, Missing
    <2>3. road(disk) # "prior"
      BY <1>5 DEF SyncDocument, First
    <2> QED  BY <2>1, <2>3, <1>c DEF Turned
  <1>6. CASE \/ RemoveReport \/ SyncReport \/ RenameGate8 \/ SyncRename \/ VerifyTomb
             \/ UnlinkFile \/ RemoveDirectories \/ SyncRemoval \/ Finish
    <2>1. pc \in Removing /\ kills' = kills
      BY <1>6 DEF RemoveReport, SyncReport, RenameGate8, SyncRename, VerifyTomb,
                  UnlinkFile, RemoveDirectories, SyncRemoval, Finish
    <2>2. disk'.docs = disk.docs /\ synced'.docs = synced.docs
      BY <1>6 DEF RemoveReport, SyncReport, RenameGate8, SyncRename, VerifyTomb,
                  UnlinkFile, RemoveDirectories, SyncRemoval, Finish, Disk
    <2> QED  BY <2>1, <2>2, <1>a, <1>c DEF Turned
  <1>7. CASE Refuse \/ Kill
    <2>1. /\ UNCHANGED <<disk, synced>> /\ pc' = "idle"
          /\ kills' = kills \/ (kills' = kills + 1 /\ kills \in Nat)
          /\ pc # "sync_document" \/ kills' # 0
      BY <1>7, Bounds DEF Refuse, Kill
    <2>2. Turned => Turned'
      BY <2>1 DEF Turned
    <2>3. kills' = 0 => kills = 0
      BY <2>1
    <2> QED  BY <2>1, <2>2, <2>3, <1>a, <1>b, <1>e
  <1>8. CASE PowerLoss
    <2>1. kills = 0 /\ kills' = kills /\ pc' = "idle" /\ synced' = disk'
      BY <1>8, Bounds DEF PowerLoss
    <2>2. PICK docs, reports, artifacts \in {disk, synced} :
             /\ disk'.docs = docs.docs /\ disk'.report = reports.report
             /\ disk'.place = artifacts.place
             /\ \A f \in GateFiles : disk'.files[f] \in {disk.files[f], synced.files[f]}
      BY <1>8 DEF PowerLoss
    <2>3. Missing(disk)' => Missing(disk) \/ Missing(synced)
      BY <2>2 DEF Missing
    <2>4. Turned => Turned'
      BY <2>1, <2>2 DEF Turned
    <2>5. Missing(synced)' <=> Missing(disk)'
      BY <2>1 DEF Missing
    <2> QED  BY <2>1, <2>3, <2>4, <2>5, <1>a, <1>b
  <1>9. CASE ClearStage \/ Edit \/ UNCHANGED vars
    <2>1. UNCHANGED <<kills, pc>>
      BY <1>9 DEF ClearStage, Edit, vars
    <2>2. \/ road(disk)' = road(disk) /\ road(synced)' = road(synced)
          \/ road(disk)' = "edited" /\ road(synced)' = "edited"
      <3>1. CASE EditDocument
        BY <3>1, <1>f DEF EditDocument, Disk
      <3> QED  BY <1>9, <3>1 DEF ClearStage, Edit, EditReport, EditGate8, AddToGate8, vars, Disk
    <2>3. (Missing(disk)' => Missing(disk)) /\ (Missing(synced)' => Missing(synced))
      <3>1. CASE ClearStage
        BY <3>1 DEF ClearStage, Missing, Disk
      <3>2. CASE EditDocument
        BY <3>2 DEF EditDocument, Missing, Disk
      <3>3. CASE EditReport
        BY <3>3 DEF EditReport, Missing, Disk
      <3>4. CASE EditGate8
        BY <3>4 DEF EditGate8, Missing, Disk
      <3>5. CASE AddToGate8
        BY <3>5 DEF AddToGate8, Missing, Disk
      <3>6. CASE UNCHANGED vars
        BY <3>6 DEF vars, Missing
      <3> QED  BY <1>9, <3>1, <3>2, <3>3, <3>4, <3>5, <3>6 DEF Edit
    <2>4. Turned => Turned'
      BY <2>1, <2>2 DEF Turned
    <2> QED  BY <2>1, <2>2, <2>3, <2>4, <1>a, <1>b
  <1> QED  BY <1>1, <1>2, <1>3, <1>4, <1>5, <1>6, <1>7, <1>8, <1>9 DEF Next, Run, Outside

-----------------------------------------------------------------------------
(* What is destroyed is in the archive.                                    *)

LEMMA PreservedStep ==
    ASSUME TypeOK, Preserved, [Next]_vars
    PROVE  Preserved'
  <1> USE DEF TypeOK
  <1>1. CASE ReplaceDocument
    BY <1>1 DEF ReplaceDocument, Preserved
  <1>2. CASE RemoveReport
    <2>1. disk.report \in {"prior", "absent"}
      BY <1>2 DEF RemoveReport, VerifiedPending, Disk
    <2> QED  BY <1>2, <2>1 DEF RemoveReport, Preserved
  <1>3. CASE UnlinkFile
    BY <1>3 DEF UnlinkFile, Preserved
  <1>4. ~(ReplaceDocument \/ RemoveReport \/ UnlinkFile) => UNCHANGED destroyed
    BY DEF Next, Run, Outside, Start, InstallArchive, SyncArchive, Recheck, StageDocument,
           SyncDocument, SyncReport, RenameGate8, SyncRename, VerifyTomb, RemoveDirectories,
           SyncRemoval, Finish, Refuse, Kill, PowerLoss, ClearStage, Edit, vars
  <1> QED  BY <1>1, <1>2, <1>3, <1>4 DEF Preserved

-----------------------------------------------------------------------------
(* Runs, kills and power failures leave no version of their own making.    *)

LEMMA UndisturbedStep ==
    ASSUME TypeOK, First, Undisturbed, [Next]_vars
    PROVE  Undisturbed'
  <1> USE DEF TypeOK
  <1>a. SUFFICES ASSUME edits' = 0, ~Edit
                 PROVE  Unedited(disk)' /\ Unedited(synced)'
    <2>1. Edit => edits' # 0
      BY Bounds DEF Edit
    <2> QED  BY <2>1 DEF Undisturbed
  <1>b. edits = 0
    BY <1>a DEF Next, Run, Outside, Start, InstallArchive, SyncArchive, Recheck, StageDocument,
           ReplaceDocument, SyncDocument, RemoveReport, SyncReport, RenameGate8, SyncRename,
           VerifyTomb, UnlinkFile, RemoveDirectories, SyncRemoval, Finish, Refuse, Kill,
           PowerLoss, ClearStage, vars
  <1>c. Unedited(disk) /\ Unedited(synced)
    BY <1>b DEF Undisturbed
  <1>f. "roadmap" \in Documents
    BY DocumentsAre
  <1>1. CASE \/ Start \/ Recheck \/ VerifyTomb \/ Finish \/ Refuse \/ Kill \/ UNCHANGED vars
    <2>1. UNCHANGED <<disk, synced>>
      BY <1>1 DEF Start, Recheck, VerifyTomb, Finish, Refuse, Kill, vars
    <2> QED  BY <2>1, <1>c DEF Unedited
  <1>2. CASE InstallArchive \/ SyncArchive \/ StageDocument \/ ClearStage
    <2>1. /\ disk'.docs = disk.docs /\ disk'.report = disk.report
          /\ disk'.files = disk.files /\ disk'.foreign = disk.foreign
      BY <1>2 DEF InstallArchive, SyncArchive, StageDocument, ClearStage, Disk
    <2>2. /\ synced'.docs = synced.docs /\ synced'.report = synced.report
          /\ synced'.files = synced.files /\ synced'.foreign = synced.foreign
      BY <1>2 DEF InstallArchive, SyncArchive, StageDocument, ClearStage, Disk
    <2> QED  BY <2>1, <2>2, <1>c DEF Unedited
  <1>3. CASE ReplaceDocument
    <2>1. /\ disk'.docs = [disk.docs EXCEPT ![document] = "pending"]
          /\ disk'.report = disk.report /\ disk'.files = disk.files
          /\ disk'.foreign = disk.foreign /\ synced' = synced
      BY <1>3 DEF ReplaceDocument, Disk
    <2>2. disk'.docs["roadmap"] # "prior"
      BY <1>3, <2>1, <1>f DEF ReplaceDocument, First, Disk
    <2>3. \A n \in Documents : disk'.docs[n] # "edited"
      BY <2>1, <1>c DEF Unedited, Disk
    <2> QED  BY <2>1, <2>2, <2>3, <1>c DEF Unedited
  <1>4. CASE SyncDocument
    <2>1. /\ synced'.docs = disk.docs /\ synced'.report = synced.report
          /\ synced'.files = synced.files /\ synced'.foreign = synced.foreign /\ disk' = disk
      BY <1>4 DEF SyncDocument, Disk
    <2> QED  BY <2>1, <1>c DEF Unedited
  <1>5. CASE RemoveReport \/ RenameGate8 \/ RemoveDirectories
    <2>1. /\ disk'.docs = disk.docs /\ disk'.report \in {disk.report, "absent"}
          /\ disk'.files = disk.files /\ disk'.foreign = disk.foreign /\ synced' = synced
      BY <1>5 DEF RemoveReport, RenameGate8, RemoveDirectories, Disk
    <2> QED  BY <2>1, <1>c DEF Unedited
  <1>6. CASE SyncReport \/ SyncRename \/ SyncRemoval
    <2>1. /\ synced'.docs = synced.docs /\ synced'.report \in {disk.report, synced.report}
          /\ synced'.files \in {disk.files, synced.files}
          /\ synced'.foreign = synced.foreign /\ disk' = disk
      BY <1>6 DEF SyncReport, SyncRename, SyncRemoval, Disk
    <2> QED  BY <2>1, <1>c DEF Unedited
  <1>7. CASE UnlinkFile
    <2>1. PICK f \in GateFiles : disk' = [disk EXCEPT !.files[f] = "absent"]
      BY <1>7 DEF UnlinkFile
    <2>2. /\ disk'.docs = disk.docs /\ disk'.report = disk.report
          /\ disk'.files = [disk.files EXCEPT ![f] = "absent"]
          /\ disk'.foreign = disk.foreign /\ synced' = synced
      BY <1>7, <2>1 DEF UnlinkFile, Disk
    <2>3. \A g \in GateFiles : disk'.files[g] # "edited"
      BY <2>2, <1>c DEF Unedited, Disk
    <2> QED  BY <2>2, <2>3, <1>c DEF Unedited
  <1>8. CASE PowerLoss
    <2>1. PICK docs, reports \in {disk, synced} :
             /\ disk'.docs = docs.docs /\ disk'.report = reports.report
             /\ disk'.foreign = disk.foreign
             /\ \A f \in GateFiles : disk'.files[f] \in {disk.files[f], synced.files[f]}
      BY <1>8 DEF PowerLoss
    <2>2. synced' = disk'
      BY <1>8 DEF PowerLoss
    <2>3. Unedited(disk)'
      BY <2>1, <1>c DEF Unedited
    <2> QED  BY <2>2, <2>3 DEF Unedited
  <1> QED  BY <1>a, <1>1, <1>2, <1>3, <1>4, <1>5, <1>6, <1>7, <1>8 DEF Next, Run, Outside

-----------------------------------------------------------------------------
LEMMA Inductive ==
    ASSUME ~KillsAndLosses
    PROVE  /\ Init => IInv
           /\ IInv /\ [Next]_vars => IInv'
  <1>1. Init => IInv
    <2> SUFFICES ASSUME Init PROVE IInv
      OBVIOUS
    <2>1. Original \in Disk
      BY DEF Original, Disk, Versions
    <2>2. "roadmap" \in Documents
      BY DocumentsAre
    <2>3. TypeOK
      BY <2>1, <2>2, Bounds DEF Init, TypeOK, Steps
    <2>4. Archived /\ First /\ Outputs /\ Preserved
      BY <2>2 DEF Init, Original, Archived, First, Outputs, Preserved, Apart, Replacing,
                  Removing, Missing
    <2> QED  BY <2>3, <2>4 DEF IInv
  <1>2. IInv /\ [Next]_vars => IInv'
    BY TypeStep, ArchivedStep, FirstStep, OutputsStep, PreservedStep DEF IInv
  <1> QED  BY <1>1, <1>2

(* What holds in every state that runs, edits and either kills or power    *)
(* failures can reach.                                                     *)
THEOREM Invariant ==
    ASSUME ~KillsAndLosses
    PROVE  Spec => []IInv
  BY Inductive, PTL DEF Spec

(* No pending roadmap is ever read beside a missing archive.               *)
THEOREM ArchiveComesFirst ==
    ASSUME ~KillsAndLosses
    PROVE  Spec => []ArchiveBeforeAuthority
  <1>1. IInv => ArchiveBeforeAuthority
    BY DEF IInv, Archived, ArchiveBeforeAuthority
  <1> QED  BY <1>1, Invariant, PTL

(* A roadmap that still claims the old result has that result complete.    *)
THEOREM OutputsGoLast ==
    ASSUME ~KillsAndLosses
    PROVE  Spec => []OutputsUnderAuthority
  <1>1. IInv => OutputsUnderAuthority
    BY DEF IInv, Outputs, Missing, Turned, OutputsUnderAuthority
  <1> QED  BY <1>1, Invariant, PTL

(* Nothing is deleted or overwritten that is not in the archive.           *)
THEOREM DestroysOnlyArchived ==
    ASSUME ~KillsAndLosses
    PROVE  Spec => []OnlyArchivedDestroyed
  <1>1. IInv => OnlyArchivedDestroyed
    BY DEF IInv, Archived, Preserved, OnlyArchivedDestroyed
  <1> QED  BY <1>1, Invariant, PTL

(* While nobody edits, the command accepts whatever an interrupted run     *)
(* left, once the stage file is cleared: before the roadmap changed        *)
(* everything is as it was, afterwards the archive is there and nothing    *)
(* remains that it does not know.                                          *)
THEOREM AlwaysResumable ==
    ASSUME ~KillsAndLosses
    PROVE  Spec => []Resumable
  <1>1. Init => Undisturbed
    BY DocumentsAre DEF Init, Original, Undisturbed, Unedited
  <1>2. IInv /\ Undisturbed /\ [Next]_vars => Undisturbed'
    BY UndisturbedStep DEF IInv
  <1>3. ASSUME IInv, Undisturbed PROVE Resumable
    <2> SUFFICES ASSUME edits = 0, disk.stages = {} PROVE Admitted(disk)
      BY DEF Resumable
    <2>1. Unedited(disk) /\ disk \in Disk
      BY <1>3 DEF Undisturbed, IInv, TypeOK
    <2>2. CASE disk.docs["roadmap"] = "prior"
      <3>1. ~Missing(disk)
        BY <1>3, <2>2 DEF IInv, Outputs, Turned
      <3>2. /\ disk.report = "prior" /\ disk.place = "live"
            /\ \A f \in GateFiles : disk.files[f] = "prior"
        BY <2>1, <3>1 DEF Missing, Unedited, Disk
      <3> QED  BY <2>1, <2>2, <3>2 DEF Admitted, VerifiedPrior, Unedited
    <2>3. CASE disk.docs["roadmap"] = "pending"
      <3>1. disk.archived
        BY <1>3, <2>3 DEF IInv, Archived
      <3> QED  BY <2>1, <2>3, <3>1 DEF Admitted, VerifiedPending, Unedited
    <2>4. disk.docs["roadmap"] \in {"prior", "pending"}
      BY <2>1, DocumentsAre DEF Unedited, Disk, Versions
    <2> QED  BY <2>2, <2>3, <2>4
  <1> QED  BY <1>1, <1>2, <1>3, Invariant, PTL DEF Spec
=============================================================================
