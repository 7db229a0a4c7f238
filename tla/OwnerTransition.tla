---------------------------- MODULE OwnerTransition ----------------------------
(***************************************************************************)
(* The five R3 owner files and the five bundles that move them from one    *)
(* version to the next (m2_policy.py, apply_r3 ...): every bundle is staged *)
(* privately, the owners it replaces are backed up, the files are renamed  *)
(* into place one by one, and the promotion manifest, the only one that    *)
(* gives authority, goes last.  An exception takes the renames back.       *)
(* Any call may fail, the process may be killed, the power may fail before *)
(* a rename is durable, and another process may edit an owner meanwhile.   *)
(***************************************************************************)
EXTENDS Integers, Sequences

CONSTANTS MaxRuns, MaxFaults, MaxKills, MaxEdits    \* bounds on what happens

ASSUME Bounds == /\ MaxRuns \in Nat /\ MaxFaults \in Nat
                 /\ MaxKills \in Nat /\ MaxEdits \in Nat

Files == {"profile", "damage", "route", "limits", "promotion"}
Bundles == 1..5        \* promotion, mapping, damage schema, witness, convergence

(* A file is told apart by the bundle that wrote its bytes: 0 is the       *)
(* blocked original, -1 no file at all, -2 bytes that no bundle knows.     *)
Absent == -1
Drift == -2
Versions == {Absent, Drift} \cup 0..5

Blocked == [f \in Files |-> IF f \in {"route", "limits"} THEN Absent ELSE 0]
Final(k) == [f \in Files |-> IF f \in {"profile", "route"} THEN 1 ELSE k]

VARIABLES owner,      \* the owner files under spec/
          disk,       \* per file, what a power loss may bring back
          candidate,  \* the canonical candidate exists
          pc, bundle, dry,
          found,      \* the owners as the run first read them
          n,          \* how many files the run has renamed into place
          runs, faults, kills, edits,
          late,       \* history: files edited since the last look before the renames
          lost,       \* history: earlier edits that a rename into place wrote over
          trust       \* history: "firm", "loose" in a rollback, "torn" by a power loss

spec == <<owner, disk, candidate>>
memory == <<bundle, dry, found, n>>
outside == <<runs, faults, kills, edits>>
history == <<late, lost, trust>>
vars == <<spec, pc, memory, outside, history>>

Ended == {"idle", "applied", "already", "clean", "failed", "stuck", "killed"}
Running == {"check", "stage", "recheck", "backup", "look", "replace", "sync",
            "observe", "cleanup", "rollback", "sync_back", "cleanup_failed", "cleanup_dry"}

Goto(step) == pc' = step

MutantOrder(k) == IF k = 1 THEN <<"promotion", "route", "limits", "profile", "damage">>
                           ELSE <<"promotion", "damage", "limits">>

(* The files a bundle replaces, its authority last.                        *)
Order(k) == IF k = 1 THEN <<"route", "limits", "profile", "damage", "promotion">>
                     ELSE <<"damage", "limits", "promotion">>

(* What a bundle may start from: the first one from the blocked owners,    *)
(* with or without the two files it generates, a later one from the bundle *)
(* before it, its damage policy already clarified by hand.                 *)
Precursor(k, o) ==
    IF k = 1
    THEN /\ \A f \in {"profile", "damage", "promotion"} : o[f] = 0
         /\ \A f \in {"route", "limits"} : o[f] \in {Absent, 1}
    ELSE o = [Final(k - 1) EXCEPT !["damage"] = k]

Rechecks == bundle >= 4           \* the two latest bundles look again before they write

-----------------------------------------------------------------------------
Init == /\ owner \in {Blocked} \cup {Final(k) : k \in Bundles}
        /\ disk = [f \in Files |-> {owner[f]}]
        /\ candidate \in BOOLEAN
        /\ pc = "idle" /\ bundle = 1 /\ dry = FALSE /\ found = owner /\ n = 0
        /\ runs = 0 /\ faults = 0 /\ kills = 0 /\ edits = 0
        /\ late = {} /\ lost = {} /\ trust = "firm"

Begin ==
    /\ pc \in Ended /\ runs < MaxRuns
    /\ runs' = runs + 1
    /\ bundle' \in Bundles /\ dry' \in BOOLEAN
    /\ found' = owner /\ n' = 0 /\ late' = {}
    /\ Goto("check")
    /\ UNCHANGED <<spec, faults, kills, edits, lost, trust>>

(* A bundle that is in place already is accepted as it is; the three       *)
(* latest bundles ask first that there be no candidate.                    *)
Already == owner = Final(bundle) /\ (bundle >= 3 => ~candidate)

Check ==
    /\ pc = "check"
    /\ found' = owner /\ late' = {}
    /\ Goto(IF Already THEN "already"
            ELSE IF Precursor(bundle, owner) /\ ~candidate THEN "stage" ELSE "failed")
    /\ UNCHANGED <<spec, bundle, dry, n, outside, lost, trust>>

(* The outputs are written, synced and read back in a private directory.   *)
Stage ==
    /\ pc = "stage"
    /\ Goto(IF Rechecks THEN "recheck" ELSE IF dry THEN "cleanup_dry" ELSE "backup")
    /\ UNCHANGED <<spec, memory, outside, history>>

MutantRecheck ==                                   \* only looks for the candidate
    /\ pc \in {"recheck", "look"}
    /\ late' = {}
    /\ Goto(IF candidate THEN "cleanup_failed"
            ELSE IF pc = "look" THEN "replace"
            ELSE IF dry THEN "cleanup_dry" ELSE "backup")
    /\ UNCHANGED <<spec, memory, outside, lost, trust>>

Recheck ==
    /\ pc \in {"recheck", "look"}
    /\ late' = {}
    /\ Goto(IF ~(Precursor(bundle, owner) /\ ~candidate) THEN "cleanup_failed"
            ELSE IF pc = "look" THEN "replace"
            ELSE IF dry THEN "cleanup_dry" ELSE "backup")
    /\ UNCHANGED <<spec, memory, outside, lost, trust>>

Backup ==
    /\ pc = "backup"
    /\ Goto(IF Rechecks THEN "look" ELSE "replace")
    /\ UNCHANGED <<spec, memory, outside, history>>

(* A rename over the destination: what is there now is not looked at.      *)
Put(f, version) ==
    /\ owner' = [owner EXCEPT ![f] = version]
    /\ disk' = [disk EXCEPT ![f] = @ \cup {version}]

Replace ==
    /\ pc = "replace"
    /\ LET f == Order(bundle)[n + 1]
       IN  /\ Put(f, Final(bundle)[f])
           /\ lost' = IF owner[f] # found[f] /\ f \notin late THEN lost \cup {f} ELSE lost
    /\ n' = n + 1
    /\ Goto(IF n + 1 < Len(Order(bundle)) - 1 THEN "replace" ELSE "sync")
    /\ UNCHANGED <<candidate, bundle, dry, found, outside, late, trust>>

Settle == disk' = [f \in Files |-> {owner[f]}]

(* The directory is synced before the authority is renamed, and after.     *)
Sync ==
    /\ pc = "sync"
    /\ Settle
    /\ Goto(IF n = Len(Order(bundle)) THEN "observe" ELSE "replace")
    /\ trust' = IF trust = "loose" THEN "firm" ELSE trust
    /\ UNCHANGED <<owner, candidate, memory, outside, late, lost>>

Unwind == Goto("rollback") /\ trust' = IF trust = "firm" THEN "loose" ELSE trust

Observe ==
    /\ pc = "observe"
    /\ IF Already THEN Goto("cleanup") /\ UNCHANGED trust ELSE Unwind
    /\ UNCHANGED <<spec, memory, outside, late, lost>>

MutantRollback ==                                  \* leaves a file that was not there
    /\ pc = "rollback"
    /\ IF n = 0
       THEN Goto("sync_back") /\ UNCHANGED <<owner, disk, n>>
       ELSE LET f == Order(bundle)[n]
            IN  /\ IF found[f] = Absent THEN UNCHANGED <<owner, disk>> ELSE Put(f, found[f])
                /\ n' = n - 1
                /\ UNCHANGED pc
    /\ UNCHANGED <<candidate, bundle, dry, found, outside, history>>

(* The renames are taken back in reverse, the authority first; a file that *)
(* was not there is removed again.                                         *)
Rollback ==
    /\ pc = "rollback"
    /\ IF n = 0
       THEN Goto("sync_back") /\ UNCHANGED <<owner, disk, n>>
       ELSE LET f == Order(bundle)[n]
            IN  Put(f, found[f]) /\ n' = n - 1 /\ UNCHANGED pc
    /\ UNCHANGED <<candidate, bundle, dry, found, outside, history>>

SyncBack ==
    /\ pc = "sync_back"
    /\ Settle
    /\ trust' = IF trust = "loose" THEN "firm" ELSE trust
    /\ Goto("cleanup_failed")
    /\ UNCHANGED <<owner, candidate, memory, outside, late, lost>>

(* The private directory is removed whatever happened.                     *)
Cleanup ==
    /\ \/ pc = "cleanup" /\ Goto("applied")
       \/ pc = "cleanup_failed" /\ Goto("failed")
       \/ pc = "cleanup_dry" /\ Goto("clean")
    /\ UNCHANGED <<spec, memory, outside, history>>

(* A call fails.  Only the renames, their syncs and the look at the result *)
(* are taken back, and a rollback that fails stops where it is.            *)
Fault ==
    /\ faults < MaxFaults
    /\ faults' = faults + 1
    /\ \/ pc = "check" /\ Goto("failed") /\ UNCHANGED trust
       \/ /\ pc \in {"stage", "recheck", "backup", "look"}
          /\ Goto("cleanup_failed") /\ UNCHANGED trust
       \/ pc \in {"replace", "sync", "observe"} /\ Unwind
       \/ pc \in {"rollback", "sync_back"} /\ Goto("stuck") /\ UNCHANGED trust
       \/ /\ pc \in {"cleanup", "cleanup_failed", "cleanup_dry"}
          /\ Goto("failed") /\ UNCHANGED trust
    /\ UNCHANGED <<spec, memory, runs, kills, edits, late, lost>>

Apply == \/ Check \/ Stage \/ Recheck \/ Backup \/ Replace \/ Sync \/ Observe
         \/ Rollback \/ SyncBack \/ Cleanup \/ Fault

-----------------------------------------------------------------------------
Kill ==                                   \* an interrupt is not an Exception either
    /\ pc \in Running /\ kills < MaxKills
    /\ kills' = kills + 1
    /\ Goto("killed")
    /\ UNCHANGED <<spec, memory, runs, faults, edits, history>>

(* Every rename since the last sync is kept or lost by itself.             *)
PowerLoss ==
    /\ kills < MaxKills
    /\ kills' = kills + 1
    /\ owner' \in [Files -> UNION {disk[f] : f \in Files}]
    /\ \A f \in Files : owner'[f] \in disk[f]
    /\ disk' = [f \in Files |-> {owner'[f]}]
    /\ trust' = IF trust = "loose" THEN "torn" ELSE trust
    /\ Goto("killed")
    /\ UNCHANGED <<candidate, memory, runs, faults, edits, late, lost>>

(* Between two bundles the damage policy is clarified by hand; by then the *)
(* system has written back whatever the last run left unsynced.            *)
Author ==
    /\ pc \in Ended
    /\ \E k \in Bundles :
          /\ k < 5 /\ owner = Final(k)
          /\ owner' = [owner EXCEPT !["damage"] = k + 1]
          /\ disk' = [f \in Files |-> {owner'[f]}]
    /\ Goto("idle")
    /\ trust' = IF trust = "loose" THEN "firm" ELSE trust
    /\ UNCHANGED <<candidate, memory, outside, late, lost>>

Edit ==
    /\ edits < MaxEdits
    /\ edits' = edits + 1
    /\ \/ \E f \in Files : Put(f, Drift) /\ late' = late \cup {f} /\ UNCHANGED candidate
       \/ candidate' = ~candidate /\ UNCHANGED <<owner, disk, late>>
    /\ UNCHANGED <<pc, memory, runs, faults, kills, lost, trust>>

Outside == Begin \/ Kill \/ PowerLoss \/ Author \/ Edit

Next == Apply \/ Outside

Spec == Init /\ [][Next]_vars

-----------------------------------------------------------------------------
TypeOK ==
    /\ owner \in [Files -> Versions] /\ found \in [Files -> Versions]
    /\ disk \in [Files -> SUBSET Versions]
    /\ candidate \in BOOLEAN /\ dry \in BOOLEAN
    /\ pc \in Running \cup Ended /\ bundle \in Bundles /\ n \in 0..5
    /\ runs \in Nat /\ faults \in Nat /\ kills \in Nat /\ edits \in Nat
    /\ late \subseteq Files /\ lost \subseteq Files
    /\ trust \in {"firm", "loose", "torn"}

(* A promotion of version v stands on files of version v, or on the ones   *)
(* the next bundle is about to promote: it is never ahead of them.         *)
Backed(o) ==
    o["promotion"] >= 1 =>
        /\ o["profile"] = 1 /\ o["route"] = 1
        /\ o["damage"] \in {o["promotion"], o["promotion"] + 1}
        /\ o["limits"] \in {o["promotion"], o["promotion"] + 1}

(* Status authority is replaced last and given up first: no failure, kill  *)
(* or power loss leaves a promotion ahead of the owners it vouches for.    *)
(* (A power loss within a rollback is the exception: its renames are only  *)
(* synced together.)                                                       *)
AuthorityLast == edits = 0 /\ trust # "torn" => Backed(owner)

(* A run that ends by itself has installed its whole bundle for good, or   *)
(* left the owners as it found them; a dry run never touches them.  Left   *)
(* out is a run whose rollback itself failed ("stuck"): it stops half way. *)
CleanEnd ==
    edits = 0 =>
        /\ pc = "applied" => owner = Final(bundle) /\ \A f \in Files : disk[f] = {owner[f]}
        /\ pc = "failed" => owner = found \/ (~dry /\ owner = Final(bundle))
        /\ pc \in {"clean", "already"} => owner = found

(* No rename into place overwrites what another process wrote before the   *)
(* run's last look that precedes its renames.  (A rollback is not held to  *)
(* it: it puts back what was first read, also over an edit that the look   *)
(* at the result has just seen.)                                           *)
EditsKept == lost = {}
=============================================================================
