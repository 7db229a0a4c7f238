--------------------------- MODULE StagePublication ---------------------------
(***************************************************************************)
(* Publishing an admitted stage (tools/m2/verify_gate8_v2.py               *)
(* publish_stage_v2, mode "generate"): the candidate tree, the Gate8 tree  *)
(* and the report are renamed into the repository one after the other, the *)
(* roadmap that gives them authority is replaced last, and any exception   *)
(* takes back what this transaction installed.  Every call may fail, the   *)
(* process may be signalled or killed, and the repository may be edited    *)
(* while it runs.                                                          *)
(***************************************************************************)
EXTENDS Naturals, Sequences

CONSTANTS MaxFaults, MaxKills, MaxEdits      \* bounds on what happens from outside

ASSUME Bounds == MaxFaults \in Nat /\ MaxKills \in Nat /\ MaxEdits \in Nat

VARIABLES place,      \* what is at each destination
          roadmap,    \* docs/roadmap.md
          source,     \* TRUE while the frozen source is unchanged
          pc,         \* the next step of the transaction
          todo,       \* the kinds still to install, or to take back
          owned,      \* the kinds this transaction renamed into place
          installed,  \* roadmap_installed
          cancelled,  \* a deferred SIGTERM or SIGINT has arrived
          faults, kills, edits,
          removed     \* history: what rollbacks deleted

disk == <<place, roadmap>>
memory == <<owned, installed>>
outside == <<source, cancelled, faults, kills, edits>>
vars == <<disk, pc, todo, memory, outside, removed>>

InstallOrder == <<"candidate", "gate8", "report">>
Kinds == {"candidate", "gate8", "report"}

(* ours: the renamed stage; edited: the same inode, other bytes; same:     *)
(* another inode with the same bytes; partial: an unfinished removal.      *)
Places == {"absent", "ours", "edited", "same", "other", "partial"}
Intact == {"ours", "same"}
OurInode == {"ours", "edited", "partial"}

(* noted: edited within the mutable status, outside the normative hash;    *)
(* rewritten: edited where the hash of the frozen source sees it.          *)
Roadmaps == {"before", "after", "noted", "rewritten"}

Ended == {"done", "failed", "stuck", "killed"}
Running == {"precondition", "stage", "rename", "sync", "verify", "status",
            "sync_status", "restore", "undo", "removing", "cleanup", "cleanup_failed"}

Goto(step) == pc' = step

(* The checkpoint: no signal so far, and the source projection, which      *)
(* covers the normative part of the roadmap, is the frozen one.            *)
Frozen == ~cancelled /\ source /\ roadmap # "rewritten"

Clear == roadmap = "before" /\ place["gate8"] = "absent" /\ place["report"] = "absent"

(* An existing candidate is kept only if it is the one that was staged.    *)
CandidateFits == place["candidate"] \in Intact \cup {"absent"}

-----------------------------------------------------------------------------
Init == /\ place \in [Kinds -> Places]
        /\ place["candidate"] \in {"absent", "same", "other"}
        /\ place["gate8"] = "absent" /\ place["report"] = "absent"
        /\ roadmap = "before" /\ source = TRUE
        /\ pc = "precondition" /\ todo = InstallOrder
        /\ owned = {} /\ installed = FALSE /\ cancelled = FALSE
        /\ faults = 0 /\ kills = 0 /\ edits = 0
        /\ removed = {}

(* The first look: nothing is made yet, so a refusal only raises.  A       *)
(* candidate that is there is reused, and takes no part in what follows.   *)
Precondition ==
    /\ pc = "precondition"
    /\ IF Frozen /\ Clear /\ CandidateFits THEN Goto("stage") ELSE Goto("failed")
    /\ todo' = IF place["candidate"] = "absent" THEN InstallOrder ELSE Tail(InstallOrder)
    /\ UNCHANGED <<disk, memory, outside, removed>>

(* The rollback: what this transaction installed, the last one first.      *)
Mine(k) == IF k \in owned THEN <<k>> ELSE <<>>
Takeback == Mine("report") \o Mine("gate8") \o Mine("candidate")

Unwind ==
    /\ Goto(IF installed THEN "restore" ELSE "undo")
    /\ todo' = Takeback

(* The private copies are written, and everything is looked at again: a    *)
(* candidate that was reused must still be the staged one.                 *)
Reused == Head(todo) # "candidate"

Stage ==
    /\ pc = "stage"
    /\ IF Frozen /\ Clear /\ (Reused => place["candidate"] \in Intact)
       THEN Goto("rename") /\ UNCHANGED todo
       ELSE Unwind
    /\ UNCHANGED <<disk, memory, outside, removed>>

MutantRename ==                                    \* does not record what it installed
    /\ pc = "rename"
    /\ LET k == Head(todo)
       IN  /\ place[k] = "absent"
           /\ place' = [place EXCEPT ![k] = "ours"]
    /\ Goto("sync")
    /\ UNCHANGED <<roadmap, todo, memory, outside, removed>>

(* A rename that never replaces; the destination may have appeared.        *)
Rename ==
    /\ pc = "rename"
    /\ LET k == Head(todo)
       IN  /\ place[k] = "absent"
           /\ place' = [place EXCEPT ![k] = "ours"]
           /\ owned' = owned \cup {k}
    /\ Goto("sync")
    /\ UNCHANGED <<roadmap, todo, installed, outside, removed>>

RenameRefused ==
    /\ pc = "rename"
    /\ place[Head(todo)] # "absent"
    /\ Unwind
    /\ UNCHANGED <<disk, memory, outside, removed>>

Sync ==
    /\ pc = "sync"
    /\ IF Frozen
       THEN /\ todo' = Tail(todo)
            /\ Goto(IF Tail(todo) = <<>> THEN "verify" ELSE "rename")
       ELSE Unwind
    /\ UNCHANGED <<disk, memory, outside, removed>>

(* Everything that was installed, and the roadmap, before the status; then *)
(* one more checkpoint, which reads the whole source, is still to come.    *)
Verify ==
    /\ pc = "verify"
    /\ IF (\A k \in Kinds : place[k] \in Intact) /\ roadmap = "before"
       THEN Goto("status") /\ UNCHANGED todo
       ELSE Unwind
    /\ UNCHANGED <<disk, memory, outside, removed>>

(* The checkpoint, and the replacement of whatever roadmap is there.       *)
InstallStatus ==
    /\ pc = "status"
    /\ Frozen
    /\ roadmap' = "after"
    /\ installed' = TRUE
    /\ Goto("sync_status")
    /\ UNCHANGED <<place, todo, owned, outside, removed>>

StatusRefused ==
    /\ pc = "status"
    /\ ~Frozen
    /\ Unwind
    /\ UNCHANGED <<disk, memory, outside, removed>>

SyncStatus ==
    /\ pc = "sync_status"
    /\ IF roadmap = "after" /\ Frozen THEN Goto("cleanup") /\ UNCHANGED todo ELSE Unwind
    /\ UNCHANGED <<disk, memory, outside, removed>>

-----------------------------------------------------------------------------
MutantRestore ==                                   \* puts nothing back
    /\ pc = "restore"
    /\ Goto("undo")
    /\ UNCHANGED <<disk, todo, memory, outside, removed>>

(* Authority goes first; a roadmap someone else changed stops the rollback.*)
Restore ==
    /\ pc = "restore"
    /\ IF roadmap = "after"
       THEN /\ roadmap' = "before"
            /\ Goto("undo")
       ELSE Goto("stuck") /\ UNCHANGED roadmap
    /\ UNCHANGED <<place, todo, memory, outside, removed>>

MutantUndo ==                                      \* only the inode is looked at
    /\ pc = "undo" /\ todo # <<>>
    /\ LET k == Head(todo)
       IN  IF place[k] \in OurInode
           THEN /\ removed' = removed \cup {place[k]}
                /\ place' = [place EXCEPT ![k] = IF k = "report" THEN "absent" ELSE "partial"]
                /\ Goto("removing")
           ELSE Goto("stuck") /\ UNCHANGED <<place, removed>>
    /\ UNCHANGED <<roadmap, todo, memory, outside>>

(* What is not the renamed inode with the staged bytes is left alone, and  *)
(* so is everything after it.  A tree goes file by file.                   *)
Undo ==
    /\ pc = "undo" /\ todo # <<>>
    /\ LET k == Head(todo)
       IN  IF place[k] = "ours"
           THEN /\ removed' = removed \cup {place[k]}
                /\ place' = [place EXCEPT ![k] = IF k = "report" THEN "absent" ELSE "partial"]
                /\ Goto("removing")
           ELSE Goto("stuck") /\ UNCHANGED <<place, removed>>
    /\ UNCHANGED <<roadmap, todo, memory, outside>>

Removed ==
    /\ pc = "removing"
    /\ place' = [place EXCEPT ![Head(todo)] = "absent"]
    /\ todo' = Tail(todo)
    /\ Goto("undo")
    /\ UNCHANGED <<roadmap, memory, outside, removed>>

Unwound ==
    /\ pc = "undo" /\ todo = <<>>
    /\ Goto("cleanup_failed")
    /\ UNCHANGED <<disk, todo, memory, outside, removed>>

(* The private directory is removed whatever happened.                     *)
Cleanup ==
    /\ \/ pc = "cleanup" /\ Goto("done")
       \/ pc = "cleanup_failed" /\ Goto("failed")
    /\ UNCHANGED <<disk, todo, memory, outside, removed>>

(* A call fails.  Going forward that starts the rollback, before or after  *)
(* the call had its effect; within the rollback it ends it.                *)
Fault ==
    /\ faults < MaxFaults
    /\ faults' = faults + 1
    /\ \/ pc = "precondition" /\ Goto("failed") /\ UNCHANGED todo
       \/ pc \in {"stage", "rename", "sync", "verify", "status", "sync_status"} /\ Unwind
       \/ pc \in {"restore", "undo", "removing"} /\ Goto("stuck") /\ UNCHANGED todo
       \/ pc \in {"cleanup", "cleanup_failed"} /\ Goto("failed") /\ UNCHANGED todo
    /\ UNCHANGED <<disk, memory, source, cancelled, kills, edits, removed>>

Publish == \/ Precondition \/ Stage \/ Rename \/ RenameRefused \/ Sync \/ Verify
           \/ InstallStatus \/ StatusRefused \/ SyncStatus
           \/ Restore \/ Undo \/ Removed \/ Unwound \/ Cleanup \/ Fault

-----------------------------------------------------------------------------
(* admit_transition_v2: what the next command takes the repository for.    *)
Admission ==
    LET report == place["report"] # "absent"
        gate8 == place["gate8"] # "absent"
        claimed == /\ roadmap = "after" /\ place["report"] \in Intact
                   /\ place["gate8"] # "partial"
    IN  CASE report /\ gate8 /\ claimed                -> "ready"
          [] ~report /\ ~gate8 /\ roadmap = "before"    -> "pending"
          [] OTHER                                      -> "refused"

(* bootstrap again, over what an earlier transaction left: its stage is    *)
(* regenerated byte for byte, but an inode of that run is not its own.  (An*)
(* edited roadmap would give another stage, and is left out.)              *)
Rerun ==
    /\ pc \in Ended /\ Admission = "pending" /\ source
    /\ pc' = "precondition" /\ todo' = InstallOrder
    /\ place' = [k \in Kinds |-> CASE place[k] = "ours" -> "same"
                                   [] place[k] \in {"edited", "partial"} -> "other"
                                   [] OTHER -> place[k]]
    /\ owned' = {} /\ installed' = FALSE /\ cancelled' = FALSE
    /\ UNCHANGED <<roadmap, source, faults, kills, edits, removed>>

Cancel ==
    /\ pc \in Running /\ ~cancelled
    /\ cancelled' = TRUE
    /\ UNCHANGED <<disk, pc, todo, memory, source, faults, kills, edits, removed>>

Kill ==
    /\ pc \in Running /\ kills < MaxKills
    /\ kills' = kills + 1
    /\ Goto("killed")
    /\ UNCHANGED <<disk, todo, memory, source, cancelled, faults, edits, removed>>

EditPlace ==
    \E k \in Kinds :
       /\ ~(pc = "removing" /\ k = Head(todo))
       /\ place' = [place EXCEPT ![k] = IF @ = "ours" THEN "edited" ELSE "other"]
       /\ UNCHANGED <<roadmap, source>>

EditRoadmap ==
    \E written \in {"noted", "rewritten"} :
       roadmap' = written /\ UNCHANGED <<place, source>>

EditSource == source' = FALSE /\ UNCHANGED disk

Edit ==
    /\ edits < MaxEdits
    /\ edits' = edits + 1
    /\ EditPlace \/ EditRoadmap \/ EditSource
    /\ UNCHANGED <<pc, todo, memory, cancelled, faults, kills, removed>>

Outside == Rerun \/ Cancel \/ Kill \/ Edit

Next == Publish \/ Outside

Spec == Init /\ [][Next]_vars

-----------------------------------------------------------------------------
TypeOK ==
    /\ place \in [Kinds -> Places] /\ roadmap \in Roadmaps /\ source \in BOOLEAN
    /\ pc \in Running \cup Ended
    /\ todo \in Seq(Kinds) /\ owned \subseteq Kinds
    /\ pc \in {"rename", "sync", "removing"} => todo # <<>>
    /\ installed \in BOOLEAN /\ cancelled \in BOOLEAN
    /\ faults \in 0..MaxFaults /\ kills \in 0..MaxKills /\ edits \in 0..MaxEdits
    /\ removed \subseteq Places

Whole == roadmap = "after" /\ \A k \in Kinds : place[k] \in Intact

(* Whenever the roadmap claims a ready candidate, the candidate, the Gate8 *)
(* tree and the report behind the claim are complete: at every instant of  *)
(* a publication, of its rollback, and after a kill.                       *)
AuthorityLast == edits = 0 /\ roadmap = "after" => Whole

PutBack == Clear /\ place["candidate"] \notin OurInode

(* A publication that ends by itself either published everything or put    *)
(* back what it found: the prior roadmap, none of its outputs, and the     *)
(* candidate that was reused.  Only a failing rollback may leave a part.   *)
AllOrNothing ==
    edits = 0 => /\ pc = "done" => Whole
                 /\ pc = "failed" => Whole \/ PutBack

(* A rollback deletes only what this transaction put there and nobody has  *)
(* touched since.                                                          *)
OnlyOwnRemoved == removed \subseteq {"ours"}

=============================================================================
