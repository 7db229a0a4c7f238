------------------------ MODULE StagePublicationProofs ------------------------
(***************************************************************************)
(* The publication of a stage, for any number of failing calls, kills and  *)
(* edits: the roadmap never claims what is not there, a publication that   *)
(* ends by itself is all or nothing, and a rollback takes back nothing but *)
(* its own untouched outputs.                                              *)
(***************************************************************************)
EXTENDS StagePublication, SequenceTheorems, TLAPS

(* What a rollback still has to take back, and that it has it once.        *)
Left == {todo[i] : i \in 1..Len(todo)}
Once == \A i, j \in 1..Len(todo) : todo[i] = todo[j] => i = j

Before == {"precondition", "stage", "rename", "sync", "verify", "status"}
After == {"sync_status", "restore", "cleanup"}
Undoing == {"undo", "removing", "cleanup_failed"}

Ours == {k \in Kinds : place[k] \in OurInode}
Gone(k) == place[k] = "absent"

Steps ==
    /\ pc = "stage" => todo # <<>>
    /\ pc \in {"restore", "undo", "removing"} => Once
    /\ pc = "cleanup_failed" => todo = <<>>

(* What the repository is while nobody else edits it.                      *)
Authority ==
    edits = 0 =>
        /\ roadmap \in {"before", "after"}
        /\ roadmap = "after" => Whole
        /\ pc \in Before \cup Undoing => roadmap = "before"
        /\ pc \in After \cup {"done"} => roadmap = "after"
        /\ pc \in Before => ~installed
        /\ pc = "sync_status" => installed
        /\ pc = "status" => \A k \in Kinds : place[k] \in Intact

Holdings ==
    edits = 0 =>
        /\ pc \in Before \cup {"sync_status"} =>
              /\ Ours = owned
              /\ \A k \in {"gate8", "report"} \ owned : Gone(k)
        /\ pc = "precondition" => owned = {}
        /\ pc \in {"restore"} \cup Undoing =>
              /\ Ours \subseteq Left
              /\ \A k \in {"gate8", "report"} \ Left : Gone(k)
        /\ pc = "failed" => Whole \/ PutBack

IInv == TypeOK /\ Steps /\ Authority /\ Holdings /\ OnlyOwnRemoved

-----------------------------------------------------------------------------
(* The list of a rollback.                                                 *)

(* It has every kind this transaction installed, once, and nothing else.   *)
LEMMA TakebackIs ==
    ASSUME owned \subseteq Kinds
    PROVE  /\ Takeback \in Seq(Kinds)
           /\ {Takeback[i] : i \in 1..Len(Takeback)} = owned
           /\ \A i, j \in 1..Len(Takeback) : Takeback[i] = Takeback[j] => i = j
  <1> DEFINE r == Mine("report") \o Mine("gate8")
             c == Mine("candidate")
  <1>1. \A k \in Kinds : Mine(k) \in Seq(Kinds)
    BY DEF Mine
  <1>2. r \in Seq(Kinds) /\ c \in Seq(Kinds) /\ r \o c \in Seq(Kinds)
    BY <1>1 DEF Kinds
  <1>3. /\ Len(c) = (IF "candidate" \in owned THEN 1 ELSE 0)
        /\ "candidate" \in owned => c[1] = "candidate"
    BY DEF Mine
  <1>4. /\ Len(r) = (IF "report" \in owned THEN 1 ELSE 0)
                      + (IF "gate8" \in owned THEN 1 ELSE 0)
        /\ "report" \in owned => r[1] = "report"
        /\ "report" \in owned /\ "gate8" \in owned => r[2] = "gate8"
        /\ "report" \notin owned /\ "gate8" \in owned => r[1] = "gate8"
    <2>1. CASE "report" \in owned /\ "gate8" \in owned
      BY <2>1 DEF Mine
    <2>2. CASE "report" \in owned /\ "gate8" \notin owned
      BY <2>2 DEF Mine
    <2>3. CASE "report" \notin owned /\ "gate8" \in owned
      BY <2>3 DEF Mine
    <2>4. CASE "report" \notin owned /\ "gate8" \notin owned
      BY <2>4 DEF Mine
    <2> QED  BY <2>1, <2>2, <2>3, <2>4
  <1>5. /\ Len(r \o c) = Len(r) + Len(c)
        /\ \A i \in 1..Len(r \o c) : (r \o c)[i] = IF i <= Len(r) THEN r[i] ELSE c[i - Len(r)]
    BY <1>2, ConcatProperties
  <1>6. Takeback = r \o c
    BY DEF Takeback
  <1> HIDE DEF r, c
  <1>7. \A i \in 1..Len(r) : r[i] \in owned \ {"candidate"}
    BY <1>4
  <1>8. \A i \in 1..Len(Takeback) :
           \/ i \in 1..Len(r) /\ Takeback[i] = r[i]
           \/ i = Len(r) + 1 /\ Takeback[i] = "candidate" /\ "candidate" \in owned
    BY <1>3, <1>4, <1>5, <1>6
  <1>9. \A k \in owned : \E i \in 1..Len(Takeback) : Takeback[i] = k
    <2>1. CASE "candidate" \in owned
      <3>1. Takeback[Len(r) + 1] = "candidate" /\ Len(r) + 1 \in 1..Len(Takeback)
        BY <2>1, <1>3, <1>4, <1>5, <1>6
      <3>2. \A i \in 1..Len(r) : i \in 1..Len(Takeback) /\ Takeback[i] = r[i]
        BY <1>3, <1>4, <1>5, <1>6
      <3> QED  BY <3>1, <3>2, <1>4 DEF Kinds
    <2>2. CASE "candidate" \notin owned
      <3>2. \A i \in 1..Len(r) : i \in 1..Len(Takeback) /\ Takeback[i] = r[i]
        BY <1>3, <1>4, <1>5, <1>6
      <3> QED  BY <2>2, <3>2, <1>4 DEF Kinds
    <2> QED  BY <2>1, <2>2
  <1>10. \A i, j \in 1..Len(r) : r[i] = r[j] => i = j
    BY <1>4
  <1>11. \A i, j \in 1..Len(Takeback) : Takeback[i] = Takeback[j] => i = j
    BY <1>7, <1>8, <1>10
  <1>12. \A i \in 1..Len(Takeback) : Takeback[i] \in owned
    BY <1>7, <1>8
  <1>13. {Takeback[i] : i \in 1..Len(Takeback)} = owned
    <2> DEFINE I == 1..Len(Takeback)
    <2> HIDE DEF I
    <2>1. {Takeback[i] : i \in I} = owned
      BY <1>9, <1>12, Zenon DEF I
    <2> QED  BY <2>1 DEF I
  <1> QED  BY <1>2, <1>6, <1>11, <1>13

-----------------------------------------------------------------------------
USE DEF disk, memory, outside, Goto

LEMMA Types == TypeOK /\ Steps /\ [Next]_vars => TypeOK'
  <1> SUFFICES ASSUME TypeOK, Steps, [Next]_vars PROVE TypeOK'
    OBVIOUS
  <1>a. Takeback \in Seq(Kinds)
    BY TakebackIs DEF TypeOK
  <1>b. todo # <<>> => Tail(todo) \in Seq(Kinds)
    BY HeadTailProperties DEF TypeOK
  <1>c. InstallOrder \in Seq(Kinds) /\ Tail(InstallOrder) \in Seq(Kinds)
    BY DEF InstallOrder, Kinds
  <1>1. CASE Precondition
    BY <1>1, <1>c DEF Precondition, TypeOK, Running, Ended
  <1>2. CASE Stage
    BY <1>2, <1>a DEF Stage, Unwind, TypeOK, Running, Ended, Steps
  <1>3. CASE Rename
    BY <1>3 DEF Rename, TypeOK, Running, Places
  <1>4. CASE RenameRefused
    BY <1>4, <1>a DEF RenameRefused, Unwind, TypeOK, Running
  <1>5. CASE Sync
    BY <1>5, <1>a, <1>b DEF Sync, Unwind, TypeOK, Running
  <1>6. CASE Verify
    BY <1>6, <1>a DEF Verify, Unwind, TypeOK, Running
  <1>7. CASE InstallStatus
    BY <1>7 DEF InstallStatus, TypeOK, Running, Roadmaps
  <1>8. CASE StatusRefused
    BY <1>8, <1>a DEF StatusRefused, Unwind, TypeOK, Running
  <1>9. CASE SyncStatus
    BY <1>9, <1>a DEF SyncStatus, Unwind, TypeOK, Running
  <1>10. CASE Restore
    BY <1>10 DEF Restore, TypeOK, Running, Ended, Roadmaps
  <1>11. CASE Undo
    BY <1>11 DEF Undo, TypeOK, Running, Ended, Places
  <1>12. CASE Removed
    BY <1>12, <1>b DEF Removed, TypeOK, Running, Places
  <1>13. CASE Unwound
    BY <1>13 DEF Unwound, TypeOK, Running
  <1>14. CASE Cleanup
    BY <1>14 DEF Cleanup, TypeOK, Ended
  <1>15. CASE Fault
    BY <1>15, <1>a, Bounds DEF Fault, Unwind, TypeOK, Running, Ended
  <1>16. CASE Rerun
    BY <1>16, <1>c DEF Rerun, TypeOK, Running, Places
  <1>17. CASE Cancel
    BY <1>17 DEF Cancel, TypeOK
  <1>18. CASE Kill
    BY <1>18, Bounds DEF Kill, TypeOK, Ended
  <1>19. CASE Edit
    <2>1. place' \in [Kinds -> Places] /\ roadmap' \in Roadmaps /\ source' \in BOOLEAN
      <3>1. CASE EditPlace
        BY <3>1 DEF EditPlace, TypeOK, Places
      <3>2. CASE EditRoadmap
        BY <3>2 DEF EditRoadmap, TypeOK, Roadmaps
      <3>3. CASE EditSource
        BY <3>3 DEF EditSource, TypeOK
      <3> QED  BY <1>19, <3>1, <3>2, <3>3 DEF Edit
    <2>2. edits' \in 0..MaxEdits
      BY <1>19, Bounds DEF Edit, TypeOK
    <2> QED  BY <1>19, <2>1, <2>2 DEF Edit, TypeOK
  <1>20. CASE UNCHANGED vars
    BY <1>20 DEF vars, TypeOK
  <1> QED  BY <1>1, <1>2, <1>3, <1>4, <1>5, <1>6, <1>7, <1>8, <1>9, <1>10, <1>11, <1>12,
              <1>13, <1>14, <1>15, <1>16, <1>17, <1>18, <1>19, <1>20
           DEF Next, Publish, Outside

LEMMA StepsStep == TypeOK /\ Steps /\ [Next]_vars => Steps'
  <1> SUFFICES ASSUME TypeOK, Steps, [Next]_vars PROVE Steps'
    OBVIOUS
  <1> DEFINE Single(s) == \A i, j \in 1..Len(s) : s[i] = s[j] => i = j
  <1>a. Single(Takeback)
    BY TakebackIs DEF TypeOK
  <1>b. todo # <<>> /\ Single(todo) => Single(Tail(todo))
    <2> SUFFICES ASSUME todo # <<>>, Single(todo) PROVE Single(Tail(todo))
      OBVIOUS
    <2>1. /\ Len(Tail(todo)) = Len(todo) - 1
          /\ \A i \in 1..Len(Tail(todo)) : Tail(todo)[i] = todo[i + 1]
      BY HeadTailProperties DEF TypeOK
    <2>2. Len(todo) \in Nat
      BY DEF TypeOK
    <2> QED  BY <2>1, <2>2
  <1>c. Once <=> Single(todo)
    BY DEF Once
  <1>d. Once' <=> Single(todo')
    BY DEF Once
  <1> HIDE DEF Single
  <1>e. Unwind /\ pc' # "stage" /\ pc' # "cleanup_failed" => Steps'
    BY <1>a, <1>d DEF Unwind, Steps
  <1>1. CASE Precondition
    BY <1>1 DEF Precondition, Steps, InstallOrder
  <1>2. CASE Stage
    BY <1>2, <1>e DEF Stage, Unwind, Steps
  <1>3. CASE RenameRefused \/ StatusRefused
    BY <1>3, <1>e DEF RenameRefused, StatusRefused, Unwind
  <1>4. CASE Sync
    BY <1>4, <1>e DEF Sync, Unwind, Steps
  <1>5. CASE Verify
    BY <1>5, <1>e DEF Verify, Unwind, Steps
  <1>6. CASE SyncStatus
    BY <1>6, <1>e DEF SyncStatus, Unwind, Steps
  <1>7. CASE Restore \/ Undo
    BY <1>7, <1>c, <1>d DEF Restore, Undo, Steps
  <1>8. CASE Removed
    BY <1>8, <1>b, <1>c, <1>d DEF Removed, Steps, TypeOK
  <1>9. CASE Unwound
    BY <1>9 DEF Unwound, Steps
  <1>10. CASE Fault
    BY <1>10, <1>e DEF Fault, Unwind, Steps
  <1>11. CASE Rename \/ InstallStatus \/ Cleanup \/ Rerun \/ Kill
    BY <1>11 DEF Rename, InstallStatus, Cleanup, Rerun, Kill, Steps
  <1>12. CASE Cancel \/ Edit \/ UNCHANGED vars
    BY <1>12, <1>c, <1>d DEF Cancel, Edit, vars, Steps
  <1> QED  BY <1>1, <1>2, <1>3, <1>4, <1>5, <1>6, <1>7, <1>8, <1>9, <1>10, <1>11, <1>12
           DEF Next, Publish, Outside

-----------------------------------------------------------------------------
(* Nobody edits: what the roadmap says.                                    *)

LEMMA AuthorityStep == TypeOK /\ Authority /\ [Next]_vars => Authority'
  <1> SUFFICES ASSUME TypeOK, Authority, [Next]_vars, edits' = 0 PROVE Authority'
    BY DEF Authority
  <1>a. edits = 0
    BY Bounds DEF TypeOK, Next, Publish, Outside, Edit, Precondition, Stage, Rename,
          RenameRefused, Sync, Verify, InstallStatus, StatusRefused, SyncStatus, Restore,
          Undo, Removed, Unwound, Cleanup, Fault, Rerun, Cancel, Kill, vars
  <1> USE <1>a DEF Authority, Before, After, Undoing
  <1>b. Whole /\ UNCHANGED disk => Whole'
    BY DEF Whole
  <1>1. CASE Precondition
    BY <1>1, <1>b DEF Precondition
  <1>2. CASE Stage
    BY <1>2, <1>b DEF Stage, Unwind
  <1>3. CASE Rename
    BY <1>3 DEF Rename
  <1>4. CASE RenameRefused \/ StatusRefused
    BY <1>4, <1>b DEF RenameRefused, StatusRefused, Unwind
  <1>5. CASE Sync
    BY <1>5, <1>b DEF Sync, Unwind
  <1>6. CASE Verify
    BY <1>6, <1>b DEF Verify, Unwind
  <1>7. CASE InstallStatus
    BY <1>7 DEF InstallStatus, Whole
  <1>8. CASE SyncStatus
    BY <1>8, <1>b DEF SyncStatus, Unwind
  <1>9. CASE Restore
    BY <1>9, <1>b DEF Restore
  <1>10. CASE Undo \/ Removed
    BY <1>10 DEF Undo, Removed
  <1>11. CASE Unwound \/ Cleanup
    BY <1>11, <1>b DEF Unwound, Cleanup
  <1>12. CASE Fault
    BY <1>12, <1>b DEF Fault, Unwind
  <1>13. CASE Rerun
    BY <1>13 DEF Rerun, Admission
  <1>14. CASE Cancel \/ Kill \/ UNCHANGED vars
    BY <1>14, <1>b DEF Cancel, Kill, vars
  <1>15. ~Edit
    BY <1>a DEF Edit
  <1> QED  BY <1>1, <1>2, <1>3, <1>4, <1>5, <1>6, <1>7, <1>8, <1>9, <1>10, <1>11, <1>12,
              <1>13, <1>14, <1>15 DEF Next, Publish, Outside

-----------------------------------------------------------------------------
(* Nobody edits: what is this transaction's, and what it gives back.       *)

LEMMA HoldingsStep ==
    TypeOK /\ Steps /\ Authority /\ Holdings /\ [Next]_vars => Holdings'
  <1> SUFFICES ASSUME TypeOK, Steps, Authority, Holdings, [Next]_vars, edits' = 0
               PROVE  Holdings'
    BY DEF Holdings
  <1>a. edits = 0
    BY Bounds DEF TypeOK, Next, Publish, Outside, Edit, Precondition, Stage, Rename,
          RenameRefused, Sync, Verify, InstallStatus, StatusRefused, SyncStatus, Restore,
          Undo, Removed, Unwound, Cleanup, Fault, Rerun, Cancel, Kill, vars
  <1> DEFINE Held == /\ Ours = owned
                     /\ \A k \in {"gate8", "report"} \ owned : Gone(k)
             Owed == /\ Ours \subseteq Left
                     /\ \A k \in {"gate8", "report"} \ Left : Gone(k)
  <1>h. /\ pc \in Before \cup {"sync_status"} => Held
        /\ pc \in {"restore"} \cup Undoing => Owed
        /\ pc = "precondition" => owned = {}
        /\ pc = "failed" => Whole \/ PutBack
    BY <1>a DEF Holdings
  <1>g. Holdings' <=> /\ pc' \in Before \cup {"sync_status"} => Held'
                      /\ pc' = "precondition" => owned' = {}
                      /\ pc' \in {"restore"} \cup Undoing => Owed'
                      /\ pc' = "failed" => (Whole \/ PutBack)'
    BY DEF Holdings
  <1>b. /\ UNCHANGED disk => (Whole' <=> Whole) /\ (PutBack' <=> PutBack)
        /\ UNCHANGED <<disk, owned>> => (Held' <=> Held)
        /\ UNCHANGED <<disk, todo>> => (Owed' <=> Owed)
    BY DEF Whole, PutBack, Clear, Ours, Gone, Left
  <1>c. UNCHANGED disk /\ Held /\ Unwind => Owed' /\ pc' \in {"restore", "undo"}
    <2> SUFFICES ASSUME UNCHANGED disk, Held, Unwind PROVE Owed'
      BY DEF Unwind
    <2>1. Left' = owned
      BY TakebackIs DEF TypeOK, Left, Unwind
    <2> QED  BY <2>1 DEF Ours, Gone
  <1>d. /\ Held /\ owned = {} /\ roadmap = "before" => PutBack
        /\ Owed /\ todo = <<>> /\ roadmap = "before" => PutBack
    BY DEF PutBack, Clear, Gone, Ours, Left, Kinds
  <1>e. UNCHANGED <<disk, owned>> /\ Held /\ pc' \in (Before \ {"precondition"}) \cup {"sync_status"}
           => Holdings'
    BY <1>b, <1>g DEF Before, Undoing
  <1>f. UNCHANGED disk /\ Held /\ Unwind => Holdings'
    BY <1>c, <1>g DEF Before, Undoing
  <1>i. pc' \in Ended \ {"failed"} => Holdings'
    BY <1>g DEF Before, Undoing, Ended
  <1> HIDE DEF Held, Owed
  <1>1. CASE Precondition
    <2>1. Held /\ owned = {} /\ roadmap = "before"
      BY <1>1, <1>a, <1>h DEF Precondition, Authority, Before
    <2>2. pc' \in {"stage", "failed"} /\ UNCHANGED <<disk, owned>>
      BY <1>1 DEF Precondition
    <2>3. pc' = "failed" => Holdings'
      BY <2>1, <2>2, <1>b, <1>d, <1>g DEF Before, Undoing
    <2> QED  BY <2>1, <2>2, <2>3, <1>e DEF Before
  <1>2. CASE Stage \/ RenameRefused \/ Sync \/ Verify \/ StatusRefused
    <2>1. Held /\ UNCHANGED <<disk, owned>>
      BY <1>2, <1>h DEF Stage, RenameRefused, Sync, Verify, StatusRefused, Before
    <2>2. Unwind \/ pc' \in (Before \ {"precondition"})
      BY <1>2 DEF Stage, RenameRefused, Sync, Verify, StatusRefused, Before
    <2> QED  BY <2>1, <2>2, <1>e, <1>f
  <1>3. CASE Rename
    <2>1. Held /\ todo # <<>> /\ Head(todo) \in Kinds
      BY <1>3, <1>h, HeadTailProperties DEF Rename, Before, TypeOK
    <2>2. Held' /\ pc' = "sync"
      BY <1>3, <2>1 DEF Rename, Held, Ours, Gone, OurInode, TypeOK
    <2> QED  BY <2>2, <1>g DEF Before, Undoing
  <1>4. CASE InstallStatus
    <2>1. Held' /\ pc' = "sync_status"
      BY <1>4, <1>h DEF InstallStatus, Before, Held, Ours, Gone
    <2> QED  BY <2>1, <1>g DEF Before, Undoing
  <1>5. CASE SyncStatus
    <2>1. Held /\ UNCHANGED <<disk, owned>>
      BY <1>5, <1>h DEF SyncStatus
    <2>2. CASE Unwind
      BY <2>1, <2>2, <1>f
    <2>3. CASE pc' = "cleanup"
      BY <2>3, <1>g DEF Before, Undoing
    <2> QED  BY <1>5, <2>2, <2>3 DEF SyncStatus
  <1>6. CASE Restore
    <2>1. Owed' \/ pc' = "stuck"
      BY <1>6, <1>h DEF Restore, Owed, Ours, Left, Gone
    <2> QED  BY <1>6, <2>1, <1>g, <1>i DEF Restore, Before, Undoing, Ended
  <1>7. CASE Undo
    <2>1. Owed /\ Head(todo) \in Left /\ Head(todo) \in Kinds
      BY <1>7, <1>h, HeadTailProperties DEF Undo, Undoing, TypeOK, Left
    <2>2. CASE pc' = "removing"
      <3>1. Left' = Left
        BY <1>7 DEF Undo, Left
      <3>2. /\ Ours' \subseteq Ours \cup {Head(todo)}
            /\ \A k \in Kinds \ {Head(todo)} : place'[k] = place[k]
        BY <1>7, <2>1, <2>2 DEF Undo, Ours, TypeOK
      <3>3. Owed'
        BY <2>1, <3>1, <3>2 DEF Owed, Gone, Kinds
      <3> QED  BY <2>2, <3>3, <1>g DEF Before, Undoing
    <2>3. CASE pc' = "stuck"
      BY <2>3, <1>i DEF Ended
    <2> QED  BY <1>7, <2>2, <2>3 DEF Undo
  <1>8. CASE Removed
    <2>1. Owed /\ Once /\ todo # <<>> /\ pc' = "undo"
      BY <1>8, <1>h DEF Removed, Undoing, Steps, TypeOK
    <2>2. Left' = Left \ {Head(todo)}
      <3>1. /\ todo' = Tail(todo) /\ Len(todo) \in Nat \ {0}
            /\ Head(todo) = todo[1]
        BY <1>8, <2>1 DEF Removed, TypeOK
      <3>2. /\ Len(todo') = Len(todo) - 1
            /\ \A i \in 1..Len(todo') : todo'[i] = todo[i + 1]
        BY <3>1, <2>1, HeadTailProperties DEF TypeOK
      <3>3. \A x \in Left : x # Head(todo) => x \in Left'
        <4> SUFFICES ASSUME NEW i \in 1..Len(todo), todo[i] # Head(todo)
                     PROVE  todo[i] \in Left'
          BY DEF Left
        <4>1. i - 1 \in 1..Len(todo') /\ todo'[i - 1] = todo[i]
          BY <3>1, <3>2
        <4> QED  BY <4>1 DEF Left
      <3>4. \A x \in Left' : x \in Left /\ x # Head(todo)
        <4> SUFFICES ASSUME NEW i \in 1..Len(todo')
                     PROVE  todo'[i] \in Left /\ todo'[i] # Head(todo)
          BY DEF Left
        <4>1. i + 1 \in 1..Len(todo) /\ 1 \in 1..Len(todo) /\ i + 1 # 1
          BY <3>1, <3>2
        <4>2. todo'[i] = todo[i + 1] /\ todo[i + 1] # todo[1]
          BY <2>1, <3>2, <4>1 DEF Once
        <4> QED  BY <3>1, <4>1, <4>2 DEF Left
      <3> QED  BY <3>3, <3>4
    <2>3. /\ place'[Head(todo)] = "absent"
          /\ \A k \in Kinds \ {Head(todo)} : place'[k] = place[k]
      <3>1. Head(todo) \in Kinds
        BY <2>1, HeadTailProperties DEF TypeOK
      <3> QED  BY <1>8, <3>1 DEF Removed, TypeOK
    <2>4. Ours' \subseteq Ours \ {Head(todo)}
      BY <2>3 DEF Ours, OurInode
    <2>5. Owed'
      BY <2>1, <2>2, <2>3, <2>4 DEF Owed, Gone, Kinds
    <2> QED  BY <2>1, <2>5, <1>g DEF Before, Undoing
  <1>9. CASE Unwound
    <2>1. Owed' /\ pc' = "cleanup_failed"
      BY <1>9, <1>h, <1>b DEF Unwound, Undoing
    <2> QED  BY <2>1, <1>g DEF Before, Undoing
  <1>10. CASE Cleanup \/ (Fault /\ pc \in {"cleanup", "cleanup_failed"})
    <2>1. UNCHANGED disk /\ pc' \in {"done", "failed"}
      BY <1>10 DEF Cleanup, Fault, Unwind
    <2>2. Whole \/ PutBack
      BY <1>10, <1>a, <1>h, <1>d DEF Cleanup, Fault, Authority, After, Undoing, Steps
    <2> QED  BY <2>1, <2>2, <1>b, <1>g DEF Before, Undoing
  <1>11. CASE Fault /\ pc \notin {"cleanup", "cleanup_failed"}
    <2>1. CASE pc = "precondition"
      <3>1. PutBack /\ UNCHANGED disk /\ pc' = "failed"
        BY <1>11, <2>1, <1>a, <1>h, <1>d DEF Fault, Unwind, Authority, Before
      <3> QED  BY <3>1, <1>b, <1>g DEF Before, Undoing
    <2>2. CASE pc \in {"stage", "rename", "sync", "verify", "status", "sync_status"}
      <3>1. Held /\ UNCHANGED disk /\ Unwind
        BY <1>11, <2>2, <1>h DEF Fault, Before
      <3> QED  BY <3>1, <1>f
    <2>3. CASE pc \in {"restore", "undo", "removing"}
      BY <1>11, <2>3, <1>i DEF Fault, Unwind, Ended
    <2> QED  BY <1>11, <2>1, <2>2, <2>3 DEF Fault
  <1>12. CASE Rerun
    <2>1. /\ roadmap = "before" /\ Gone("gate8") /\ Gone("report")
          /\ place' = [k \in Kinds |-> CASE place[k] = "ours" -> "same"
                                        [] place[k] \in {"edited", "partial"} -> "other"
                                        [] OTHER -> place[k]]
      <3>1. Admission = "pending"
        BY <1>12 DEF Rerun
      <3>2. roadmap = "before" /\ Gone("gate8") /\ Gone("report")
        BY <3>1 DEF Admission, Gone
      <3> QED  BY <1>12, <3>2 DEF Rerun
    <2>2. Ours' = {}
      BY <2>1 DEF Ours, OurInode
    <2>3. Gone("gate8")' /\ Gone("report")'
      BY <2>1 DEF Gone, Kinds
    <2>4. Held' /\ owned' = {} /\ pc' = "precondition"
      BY <1>12, <2>2, <2>3 DEF Rerun, Held
    <2> QED  BY <2>4, <1>g DEF Before, Undoing
  <1>13. CASE Cancel \/ UNCHANGED vars
    <2>1. UNCHANGED <<disk, pc, todo, owned>>
      BY <1>13 DEF Cancel, vars
    <2> QED  BY <2>1, <1>b, <1>g, <1>h
  <1>14. CASE Kill
    BY <1>14, <1>i DEF Kill, Ended
  <1>15. ~Edit
    BY <1>a DEF Edit
  <1> QED  BY <1>1, <1>2, <1>3, <1>4, <1>5, <1>6, <1>7, <1>8, <1>9, <1>10, <1>11, <1>12,
              <1>13, <1>14, <1>15 DEF Next, Publish, Outside

-----------------------------------------------------------------------------
(* Only its own.                                                           *)

LEMMA OnlyOwnStep == OnlyOwnRemoved /\ [Next]_vars => OnlyOwnRemoved'
  <1> SUFFICES ASSUME OnlyOwnRemoved, [Next]_vars PROVE OnlyOwnRemoved'
    OBVIOUS
  <1>1. CASE Undo
    BY <1>1 DEF Undo, OnlyOwnRemoved
  <1>2. ~Undo => UNCHANGED removed
    BY DEF Next, Publish, Outside, Edit, Precondition, Stage, Rename, RenameRefused, Sync,
           Verify, InstallStatus, StatusRefused, SyncStatus, Restore, Removed, Unwound,
           Cleanup, Fault, Rerun, Cancel, Kill, vars
  <1> QED  BY <1>1, <1>2 DEF OnlyOwnRemoved

LEMMA Inductive ==
    /\ Init => IInv
    /\ IInv /\ [Next]_vars => IInv'
  <1>1. Init => IInv
    <2> SUFFICES ASSUME Init PROVE IInv
      OBVIOUS
    <2>1. TypeOK
      <3>1. InstallOrder \in Seq(Kinds) /\ pc \in Running
        BY DEF Init, InstallOrder, Kinds, Running
      <3>2. source \in BOOLEAN /\ installed \in BOOLEAN /\ cancelled \in BOOLEAN
        BY Zenon DEF Init
      <3>3. faults \in 0..MaxFaults /\ kills \in 0..MaxKills /\ edits \in 0..MaxEdits
        BY Bounds DEF Init
      <3> QED  BY <3>1, <3>2, <3>3 DEF Init, TypeOK, Roadmaps
    <2>2. Steps /\ Authority /\ OnlyOwnRemoved
      BY DEF Init, Steps, Authority, OnlyOwnRemoved, Before, After, Undoing
    <2>3. Holdings
      BY DEF Init, Holdings, Before, Undoing, Ours, OurInode, Gone, Kinds
    <2> QED  BY <2>1, <2>2, <2>3 DEF IInv
  <1>2. IInv /\ [Next]_vars => IInv'
    BY Types, StepsStep, AuthorityStep, HoldingsStep, OnlyOwnStep DEF IInv
  <1> QED  BY <1>1, <1>2

(* What holds in every state publications and reruns can reach: the types, *)
(* what is left to take back, and whose each output is.                    *)
THEOREM Invariant == Spec => []IInv
  BY Inductive, PTL DEF Spec

(* The roadmap, which alone gives authority, never claims a candidate, a   *)
(* Gate8 tree or a report that is not complete, whatever call fails and    *)
(* whenever the process is killed.                                         *)
THEOREM AuthorityStaysLast == Spec => []AuthorityLast
  <1>1. IInv => AuthorityLast
    BY DEF IInv, Authority, AuthorityLast
  <1> QED  BY <1>1, Invariant, PTL

(* A publication that ends by itself has published everything, or put back *)
(* what it found.                                                          *)
THEOREM PublishesAllOrNothing == Spec => []AllOrNothing
  <1>1. IInv => AllOrNothing
    BY DEF IInv, Authority, Holdings, AllOrNothing, After
  <1> QED  BY <1>1, Invariant, PTL

(* A rollback deletes nothing but an untouched output of its own.          *)
THEOREM RemovesOnlyItsOwn == Spec => []OnlyOwnRemoved
  <1>1. IInv => OnlyOwnRemoved
    BY DEF IInv
  <1> QED  BY <1>1, Invariant, PTL
=============================================================================
