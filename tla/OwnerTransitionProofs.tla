------------------------ MODULE OwnerTransitionProofs ------------------------
(***************************************************************************)
(* The owner transactions, for any number of runs, failing calls, kills,   *)
(* power failures and edits: the promotion never vouches for owners that   *)
(* are not there, a run that ends by itself is all or nothing unless its   *)
(* rollback failed, and edits made before its last look survive its        *)
(* renames.                                                                *)
(***************************************************************************)
EXTENDS OwnerTransition, TLAPS

Looking == {"stage", "recheck", "backup", "look"}
Writing == {"replace", "sync", "observe"}
Taking == {"rollback", "sync_back"}             \* the renames back

(* How many renames bundle k makes, and which of them is that of file f;   *)
(* 9 when it has none.                                                     *)
Renames(k) == IF k = 1 THEN 5 ELSE 3
Place(k, f) ==
    IF k = 1
    THEN CASE f = "route" -> 1 [] f = "limits" -> 2 [] f = "profile" -> 3
           [] f = "damage" -> 4 [] f = "promotion" -> 5
    ELSE CASE f = "damage" -> 1 [] f = "limits" -> 2 [] f = "promotion" -> 3
           [] f = "profile" -> 9 [] f = "route" -> 9

(* What file f holds after the first n renames, unless someone edited it.  *)
Mid(f) == IF n >= Place(bundle, f) THEN Final(bundle)[f] ELSE found[f]

Settled == \A f \in Files : disk[f] = {owner[f]}

(* Whatever a power failure makes of the unsynced renames, the promotion   *)
(* it leaves is backed.                                                    *)
SafeDisk ==
    \A q \in disk["promotion"] :
        /\ q <= owner["promotion"]
        /\ q >= 1 =>
            /\ disk["profile"] = {1} /\ disk["route"] = {1}
            /\ disk["damage"] \subseteq {q, q + 1}
            /\ disk["limits"] \subseteq {q, q + 1}

Shape ==
    /\ edits = 0 => late = {}
    /\ \A f \in Files : owner[f] \in disk[f]
    /\ pc \in Looking \cup {"check", "sync_back"} => n = 0
    /\ pc = "check" => \A f \in Files \ late : owner[f] = found[f]
    /\ pc \in Looking \cup Writing \cup Taking =>
        /\ Precursor(bundle, found)
        /\ \A f \in Files \ late : owner[f] = Mid(f)
        /\ n <= Renames(bundle)
    /\ pc \in {"recheck", "look"} => Rechecks
    /\ pc = "replace" => n < Renames(bundle)
    /\ pc = "sync" => n >= Renames(bundle) - 1
    /\ pc = "observe" => n = Renames(bundle)
    /\ pc \in {"backup", "look"} \cup Writing \cup Taking => ~dry

Endings ==
    edits = 0 =>
        /\ pc = "replace" /\ n = Renames(bundle) - 1 => Settled
        /\ pc = "observe" => Settled
        /\ pc \in {"cleanup", "applied"} => owner = Final(bundle) /\ Settled /\ ~dry
        /\ pc \in {"cleanup_failed", "cleanup_dry", "clean", "already"} => owner = found
        /\ pc = "failed" => owner = found \/ (~dry /\ owner = Final(bundle))

Authority ==
    edits = 0 /\ trust # "torn" =>
        /\ Backed(owner)
        /\ trust = "firm" => SafeDisk
        /\ pc \in Taking => trust # "firm"

IInv == TypeOK /\ Shape /\ EditsKept /\ Endings /\ Authority

-----------------------------------------------------------------------------
(* The tables.                                                             *)

(* The order of a bundle's renames and the places of its files agree.      *)
LEMMA OrderIs ==
    ASSUME NEW k \in Bundles
    PROVE  /\ Len(Order(k)) = Renames(k)
           /\ \A i \in 1..Renames(k) : Order(k)[i] \in Files /\ Place(k, Order(k)[i]) = i
  <1>1. CASE k = 1
    <2>1. Order(k) = <<"route", "limits", "profile", "damage", "promotion">>
      BY <1>1 DEF Order
    <2>2. /\ Len(Order(k)) = 5
          /\ Order(k)[1] = "route" /\ Order(k)[2] = "limits" /\ Order(k)[3] = "profile"
          /\ Order(k)[4] = "damage" /\ Order(k)[5] = "promotion"
      BY <2>1
    <2>3. ASSUME NEW i \in 1..5
          PROVE  Order(k)[i] \in Files /\ Place(k, Order(k)[i]) = i
      <3>1. i = 1 \/ i = 2 \/ i = 3 \/ i = 4 \/ i = 5
        OBVIOUS
      <3> QED  BY <1>1, <2>2, <3>1 DEF Place, Files
    <2> QED  BY <1>1, <2>2, <2>3 DEF Renames
  <1>2. CASE k # 1
    <2>1. Order(k) = <<"damage", "limits", "promotion">>
      BY <1>2 DEF Order
    <2>2. /\ Len(Order(k)) = 3
          /\ Order(k)[1] = "damage" /\ Order(k)[2] = "limits" /\ Order(k)[3] = "promotion"
      BY <2>1
    <2>3. ASSUME NEW i \in 1..3
          PROVE  Order(k)[i] \in Files /\ Place(k, Order(k)[i]) = i
      <3>1. i = 1 \/ i = 2 \/ i = 3
        OBVIOUS
      <3> QED  BY <1>2, <2>2, <3>1 DEF Place, Files
    <2> QED  BY <1>2, <2>2, <2>3 DEF Renames
  <1> QED  BY <1>1, <1>2

(* A file has one place, and none when the bundle does not replace it.     *)
LEMMA PlaceIs ==
    ASSUME NEW k \in Bundles, NEW f \in Files
    PROVE  /\ Place(k, f) \in 1..9
           /\ Place(k, f) > Renames(k) => Place(k, f) = 9 /\ k # 1
           /\ \A i \in 1..Renames(k) : Place(k, f) = i => Order(k)[i] = f
  BY DEF Place, Renames, Order, Files

LEMMA FinalIs ==
    ASSUME NEW k \in Bundles
    PROVE  /\ Final(k) \in [Files -> Versions]
           /\ Final(k)["profile"] = 1 /\ Final(k)["route"] = 1
           /\ \A f \in {"damage", "limits", "promotion"} : Final(k)[f] = k
  BY DEF Final, Bundles, Versions, Files

(* What a bundle may start from.  From the second on it is one state.      *)
LEMMA PrecursorIs ==
    ASSUME NEW k \in Bundles, NEW o \in [Files -> Versions], Precursor(k, o)
    PROVE  /\ k = 1 => /\ o["promotion"] = 0 /\ o["profile"] = 0 /\ o["damage"] = 0
                       /\ o["route"] \in {-1, 1} /\ o["limits"] \in {-1, 1}
           /\ k # 1 => /\ o["promotion"] = k - 1 /\ o["limits"] = k - 1 /\ o["damage"] = k
                       /\ o["profile"] = 1 /\ o["route"] = 1
  <1>1. CASE k = 1
    BY <1>1 DEF Precursor, Absent
  <1>2. CASE k # 1
    <2>1. k - 1 \in Bundles
      BY <1>2 DEF Bundles
    <2>2. o = [Final(k - 1) EXCEPT !["damage"] = k]
      BY <1>2 DEF Precursor
    <2>3. Final(k - 1) \in [Files -> Versions] /\ "damage" \in Files
      BY <2>1, FinalIs DEF Files
    <2>4. o["damage"] = k /\ \A f \in Files : f # "damage" => o[f] = Final(k - 1)[f]
      BY <2>2, <2>3
    <2> QED  BY <1>2, <2>1, <2>4, FinalIs DEF Files
  <1> QED  BY <1>1, <1>2

LEMMA PrecursorUnique ==
    ASSUME NEW k \in Bundles, k # 1,
           NEW o \in [Files -> Versions], Precursor(k, o),
           NEW p \in [Files -> Versions], Precursor(k, p)
    PROVE  o = p
  BY DEF Precursor

-----------------------------------------------------------------------------
(* Types.                                                                  *)

USE DEF spec, memory, outside, history, Goto

LEMMA InitTyped == Init => TypeOK
  <1> SUFFICES ASSUME Init PROVE TypeOK
    OBVIOUS
  <1>1. owner \in [Files -> Versions]
    BY FinalIs DEF Init, Blocked, Versions, Absent, Drift, Files
  <1>2. disk \in [Files -> SUBSET Versions]
    BY <1>1 DEF Init
  <1>3. /\ found = owner /\ pc = "idle" /\ bundle = 1 /\ n = 0 /\ trust = "firm"
        /\ dry = FALSE /\ candidate \in BOOLEAN /\ late = {} /\ lost = {}
        /\ runs = 0 /\ faults = 0 /\ kills = 0 /\ edits = 0
    BY DEF Init
  <1>4. candidate \in BOOLEAN /\ dry \in BOOLEAN
    BY <1>3, Zenon
  <1>5. pc \in Running \cup Ended /\ bundle \in Bundles /\ n \in 0..5
    BY <1>3 DEF Ended, Bundles
  <1> QED  BY <1>1, <1>2, <1>3, <1>4, <1>5 DEF TypeOK

LEMMA TypeStep == TypeOK /\ Shape /\ [Next]_vars => TypeOK'
  <1> SUFFICES ASSUME TypeOK, Shape, [Next]_vars PROVE TypeOK'
    OBVIOUS
  <1> DEFINE Steps == Running \cup Ended
  <1>a. /\ Running \subseteq Steps /\ Ended \subseteq Steps
        /\ Len(Order(bundle)) = Renames(bundle)
        /\ n \in 0..5 /\ bundle \in Bundles /\ Renames(bundle) \in {3, 5}
    BY OrderIs DEF TypeOK, Renames
  <1>1. CASE Begin
    BY <1>1 DEF Begin, TypeOK, Running
  <1>2. CASE Check
    BY <1>2 DEF Check, TypeOK, Running, Ended
  <1>3. CASE Stage
    BY <1>3 DEF Stage, TypeOK, Running, Ended
  <1>4. CASE Recheck
    BY <1>4 DEF Recheck, TypeOK, Running, Ended
  <1>5. CASE Backup
    BY <1>5 DEF Backup, TypeOK, Running, Ended
  <1>6. CASE Replace
    <2> DEFINE f == Order(bundle)[n + 1]
    <2>1. n < Renames(bundle)
      BY <1>6 DEF Replace, Shape
    <2>2. f \in Files /\ Final(bundle)[f] \in Versions /\ n + 1 \in 0..5
      BY <2>1, <1>a, OrderIs, FinalIs
    <2>3. owner' \in [Files -> Versions] /\ disk' \in [Files -> SUBSET Versions]
      BY <1>6, <2>2 DEF Replace, Put, TypeOK
    <2>4. lost' \subseteq Files /\ n' = n + 1 /\ pc' \in {"replace", "sync"}
      BY <1>6, <2>2 DEF Replace, TypeOK
    <2> QED  BY <1>6, <2>2, <2>3, <2>4 DEF Replace, TypeOK, Running
  <1>7. CASE Sync
    BY <1>7, <1>a DEF Sync, Settle, TypeOK, Running, Ended
  <1>8. CASE Observe
    BY <1>8 DEF Observe, Unwind, TypeOK, Running, Ended
  <1>9. CASE Rollback
    BY <1>9, <1>a, OrderIs DEF Rollback, Put, TypeOK, Running, Ended
  <1>10. CASE SyncBack
    BY <1>10 DEF SyncBack, Settle, TypeOK, Running, Ended
  <1>11. CASE Cleanup
    BY <1>11 DEF Cleanup, TypeOK, Running, Ended
  <1>12. CASE Fault
    BY <1>12 DEF Fault, Unwind, TypeOK, Running, Ended
  <1>13. CASE Kill
    BY <1>13 DEF Kill, TypeOK, Running, Ended
  <1>14. CASE PowerLoss
    <2>1. owner' \in [Files -> Versions] /\ disk' \in [Files -> SUBSET Versions]
      <3>1. owner' \in [Files -> UNION {disk[f] : f \in Files}]
        BY <1>14 DEF PowerLoss
      <3>2. \A f \in Files : owner'[f] \in Versions
        BY <1>14 DEF PowerLoss, TypeOK
      <3>3. owner' \in [Files -> Versions]
        BY <3>1, <3>2
      <3> QED  BY <1>14, <3>3 DEF PowerLoss
    <2>2. kills' \in Nat /\ pc' = "killed" /\ trust' \in {"firm", "loose", "torn"}
      BY <1>14 DEF PowerLoss, TypeOK
    <2> QED  BY <1>14, <2>1, <2>2 DEF PowerLoss, TypeOK, Ended
  <1>15. CASE Author
    <2>1. owner' \in [Files -> Versions]
      <3>1. PICK k \in Bundles : k < 5 /\ owner' = [owner EXCEPT !["damage"] = k + 1]
        BY <1>15 DEF Author
      <3>2. k + 1 \in Versions
        BY <3>1 DEF Versions, Bundles
      <3> QED  BY <3>1, <3>2 DEF TypeOK
    <2>2. disk' \in [Files -> SUBSET Versions]
      BY <1>15, <2>1 DEF Author
    <2>3. pc' = "idle" /\ trust' \in {"firm", "loose", "torn"}
      BY <1>15 DEF Author, TypeOK
    <2> QED  BY <1>15, <2>1, <2>2, <2>3 DEF Author, TypeOK, Ended
  <1>16. CASE Edit
    <2>1. Drift \in Versions
      BY DEF Versions
    <2>2. CASE \E f \in Files : Put(f, Drift) /\ late' = late \cup {f} /\ UNCHANGED candidate
      BY <1>16, <2>1, <2>2 DEF Edit, Put, TypeOK
    <2>3. CASE candidate' = ~candidate /\ UNCHANGED <<owner, disk, late>>
      BY <1>16, <2>3 DEF Edit, TypeOK
    <2> QED  BY <1>16, <2>2, <2>3 DEF Edit
  <1>17. CASE UNCHANGED vars
    BY <1>17 DEF vars, TypeOK
  <1> QED  BY <1>1, <1>2, <1>3, <1>4, <1>5, <1>6, <1>7, <1>8, <1>9, <1>10, <1>11,
              <1>12, <1>13, <1>14, <1>15, <1>16, <1>17 DEF Next, Apply, Outside

-----------------------------------------------------------------------------
(* What a run knows of the owners as it goes, and that it overwrites no    *)
(* edit made before its last look.                                         *)

LEMMA ShapeStep == TypeOK /\ Shape /\ EditsKept /\ [Next]_vars => Shape' /\ EditsKept'
  <1> SUFFICES ASSUME TypeOK, Shape, EditsKept, [Next]_vars
               PROVE  Shape' /\ EditsKept'
    OBVIOUS
  <1> USE DEF Looking, Writing, Taking
  <1>a. /\ bundle \in Bundles /\ n \in 0..5 /\ Len(Order(bundle)) = Renames(bundle)
        /\ Renames(bundle) \in {3, 5}
        /\ \A f \in Files : Place(bundle, f) \in 1..9
    BY OrderIs, PlaceIs DEF TypeOK, Renames
  <1>1. CASE Begin
    BY <1>1 DEF Begin, TypeOK, Shape, EditsKept
  <1>2. CASE Check
    BY <1>2, <1>a DEF Check, TypeOK, Shape, EditsKept, Mid
  <1>3. CASE Stage
    BY <1>3 DEF Stage, Shape, EditsKept, Mid, Rechecks
  <1>4. CASE Recheck
    <2>1. CASE Precursor(bundle, owner)
      <3>1. bundle # 1
        BY <1>4, <1>a DEF Recheck, Shape, Rechecks
      <3>2. owner = found
        BY <1>4, <2>1, <3>1, <1>a, PrecursorUnique DEF Recheck, Shape, TypeOK
      <3> QED  BY <1>4, <2>1, <3>2, <1>a DEF Recheck, Shape, EditsKept, Mid, Rechecks
    <2>2. CASE ~Precursor(bundle, owner)
      BY <1>4, <2>2 DEF Recheck, Shape, EditsKept
    <2> QED  BY <2>1, <2>2
  <1>5. CASE Backup
    BY <1>5, <1>a DEF Backup, Shape, EditsKept, Mid, Rechecks
  <1>6. CASE Replace
    <2> DEFINE g == Order(bundle)[n + 1]
    <2>1. /\ n < Renames(bundle) /\ Precursor(bundle, found) /\ ~dry
          /\ \A f \in Files \ late : owner[f] = Mid(f)
      BY <1>6 DEF Replace, Shape
    <2>2. /\ g \in Files /\ Place(bundle, g) = n + 1
          /\ \A f \in Files : Place(bundle, f) = n + 1 => f = g
      BY <2>1, <1>a, OrderIs, PlaceIs
    <2>3. /\ owner' = [owner EXCEPT ![g] = Final(bundle)[g]]
          /\ disk' = [disk EXCEPT ![g] = @ \cup {Final(bundle)[g]}]
          /\ n' = n + 1 /\ UNCHANGED <<bundle, found, late, edits, dry>>
          /\ pc' = IF n + 1 < Renames(bundle) - 1 THEN "replace" ELSE "sync"
      BY <1>6, <1>a DEF Replace, Put
    <2> HIDE DEF g
    <2>4. \A f \in Files \ late : owner'[f] = Mid(f)'
      BY <2>1, <2>2, <2>3, <1>a DEF Mid, TypeOK
    <2>5. \A f \in Files : owner'[f] \in disk'[f]
      BY <2>2, <2>3 DEF TypeOK, Shape
    <2>6. Shape'
      BY <2>1, <2>3, <2>4, <2>5, <1>a DEF Shape
    <2>7. g \notin late => owner[g] = found[g]
      BY <2>1, <2>2, <1>a DEF Mid
    <2> QED  BY <1>6, <2>6, <2>7 DEF Replace, EditsKept, g
  <1>7. CASE Sync
    BY <1>7, <1>a DEF Sync, Settle, Shape, EditsKept, Mid
  <1>8. CASE Observe
    BY <1>8, <1>a DEF Observe, Unwind, Shape, EditsKept, Mid
  <1>9. CASE Rollback
    <2>1. CASE n = 0
      BY <1>9, <2>1, <1>a DEF Rollback, Shape, EditsKept, Mid
    <2>2. CASE n # 0
      <3> DEFINE g == Order(bundle)[n]
      <3>1. /\ n <= Renames(bundle) /\ Precursor(bundle, found) /\ ~dry
            /\ \A f \in Files \ late : owner[f] = Mid(f)
        BY <1>9 DEF Rollback, Shape
      <3>2. /\ g \in Files /\ Place(bundle, g) = n
            /\ \A f \in Files : Place(bundle, f) = n => f = g
        BY <2>2, <3>1, <1>a, OrderIs, PlaceIs
      <3>3. /\ owner' = [owner EXCEPT ![g] = found[g]]
            /\ disk' = [disk EXCEPT ![g] = @ \cup {found[g]}]
            /\ n' = n - 1 /\ pc' = "rollback" /\ UNCHANGED <<bundle, found, late, edits, dry, lost>>
        BY <1>9, <2>2 DEF Rollback, Put
      <3> HIDE DEF g
      <3>4. \A f \in Files \ late : owner'[f] = Mid(f)'
        BY <3>1, <3>2, <3>3, <1>a DEF Mid, TypeOK
      <3>5. \A f \in Files : owner'[f] \in disk'[f]
        BY <3>2, <3>3 DEF TypeOK, Shape
      <3> QED  BY <3>1, <3>3, <3>4, <3>5, <1>a DEF Shape, EditsKept
    <2> QED  BY <2>1, <2>2
  <1>10. CASE SyncBack
    BY <1>10 DEF SyncBack, Settle, Shape, EditsKept, Mid
  <1>11. CASE Cleanup
    BY <1>11 DEF Cleanup, Shape, EditsKept
  <1>12. CASE Fault
    BY <1>12, <1>a DEF Fault, Unwind, Shape, EditsKept, Mid
  <1>13. CASE Kill
    BY <1>13 DEF Kill, Shape, EditsKept
  <1>14. CASE PowerLoss
    BY <1>14 DEF PowerLoss, Shape, EditsKept
  <1>15. CASE Author
    BY <1>15 DEF Author, Shape, EditsKept
  <1>16. CASE Edit
    <2>1. edits' # 0 /\ UNCHANGED <<pc, bundle, found, n, dry, lost>>
      BY <1>16 DEF Edit, TypeOK
    <2>2. CASE \E f \in Files : Put(f, Drift) /\ late' = late \cup {f} /\ UNCHANGED candidate
      <3>1. PICK f \in Files : Put(f, Drift) /\ late' = late \cup {f}
        BY <2>2
      <3>2. \A h \in Files : h # f => owner'[h] = owner[h] /\ disk'[h] = disk[h]
        BY <3>1 DEF Put, TypeOK
      <3>3. \A h \in Files : owner'[h] \in disk'[h]
        BY <3>1 DEF Put, TypeOK, Shape
      <3>4. \A h \in Files \ late' : h \in Files \ late /\ h # f /\ Mid(h)' = Mid(h)
        BY <2>1, <3>1 DEF Mid
      <3> QED  BY <2>1, <3>2, <3>3, <3>4 DEF Shape, EditsKept, Rechecks
    <2>3. CASE UNCHANGED <<owner, disk, late>>
      BY <2>1, <2>3 DEF Shape, EditsKept, Mid, Rechecks
    <2> QED  BY <1>16, <2>2, <2>3 DEF Edit
  <1>17. CASE UNCHANGED vars
    BY <1>17 DEF vars, Shape, EditsKept, Mid, Rechecks
  <1> QED  BY <1>1, <1>2, <1>3, <1>4, <1>5, <1>6, <1>7, <1>8, <1>9, <1>10, <1>11,
              <1>12, <1>13, <1>14, <1>15, <1>16, <1>17 DEF Next, Apply, Outside

-----------------------------------------------------------------------------
(* How runs end when nobody edits the owners.                              *)

LEMMA EndingsStep == TypeOK /\ Shape /\ Endings /\ [Next]_vars => Endings'
  <1> SUFFICES ASSUME TypeOK, Shape, Endings, [Next]_vars, edits' = 0
               PROVE  Endings'
    BY DEF Endings
  <1>a. /\ bundle \in Bundles /\ n \in 0..5 /\ Len(Order(bundle)) = Renames(bundle)
        /\ Renames(bundle) \in {3, 5}
    BY OrderIs DEF TypeOK, Renames
  <1>b. edits = 0
    BY DEF Next, Apply, Outside, Begin, Check, Stage, Recheck, Backup, Replace, Sync, Observe,
           Rollback, SyncBack, Cleanup, Fault, Kill, PowerLoss, Author, Edit, vars, TypeOK
  <1>c. pc \in Looking \cup {"check", "sync_back"} => owner = found
    <2> SUFFICES ASSUME pc \in Looking \cup {"check", "sync_back"} PROVE owner = found
      OBVIOUS
    <2>1. \A f \in Files : owner[f] = found[f]
      BY <1>a, <1>b, PlaceIs DEF Shape, Mid, Looking, Taking
    <2> QED  BY <2>1 DEF TypeOK
  <1>1. CASE Begin
    BY <1>1 DEF Begin, Endings
  <1>2. CASE Check
    BY <1>2 DEF Check, Endings
  <1>3. CASE Stage
    BY <1>3, <1>c DEF Stage, Endings, Looking
  <1>4. CASE Recheck
    <2>1. n = 0 /\ owner = found
      BY <1>4, <1>c DEF Recheck, Shape, Looking
    <2>2. /\ pc' \in {"cleanup_failed", "replace", "cleanup_dry", "backup"}
          /\ UNCHANGED <<owner, found, bundle, n>>
      BY <1>4 DEF Recheck
    <2>3. 0 # Renames(bundle) - 1
      BY <1>a
    <2> QED  BY <2>1, <2>2, <2>3 DEF Endings
  <1>5. CASE Backup
    <2>1. n = 0
      BY <1>5 DEF Backup, Shape, Looking
    <2>2. pc' \in {"look", "replace"} /\ n' = 0 /\ bundle' = bundle
      BY <1>5, <2>1 DEF Backup
    <2>3. 0 # Renames(bundle) - 1
      BY <1>a
    <2> QED  BY <2>2, <2>3 DEF Endings
  <1>6. CASE Replace
    <2>1. CASE n + 1 < Renames(bundle) - 1
      BY <1>6, <2>1, <1>a DEF Replace, Endings
    <2>2. CASE ~(n + 1 < Renames(bundle) - 1)
      BY <1>6, <2>2, <1>a DEF Replace, Endings
    <2> QED  BY <2>1, <2>2
  <1>7. CASE Sync
    BY <1>7, <1>a DEF Sync, Settle, Settled, Endings
  <1>8. CASE Observe
    BY <1>8, <1>b DEF Observe, Unwind, Already, Endings, Settled, Shape, Writing
  <1>9. CASE Rollback
    BY <1>9 DEF Rollback, Endings
  <1>10. CASE SyncBack
    BY <1>10, <1>c DEF SyncBack, Endings
  <1>11. CASE Cleanup
    BY <1>11, <1>b DEF Cleanup, Endings, Settled
  <1>12. CASE Fault
    BY <1>12, <1>b, <1>c DEF Fault, Unwind, Endings, Looking
  <1>13. CASE Kill
    BY <1>13 DEF Kill, Endings
  <1>14. CASE PowerLoss
    BY <1>14 DEF PowerLoss, Endings
  <1>15. CASE Author
    BY <1>15 DEF Author, Endings
  <1>16. CASE Edit
    BY <1>16, <1>b DEF Edit
  <1>17. CASE UNCHANGED vars
    BY <1>17 DEF vars, Endings, Settled
  <1> QED  BY <1>1, <1>2, <1>3, <1>4, <1>5, <1>6, <1>7, <1>8, <1>9, <1>10, <1>11,
              <1>12, <1>13, <1>14, <1>15, <1>16, <1>17 DEF Next, Apply, Outside

-----------------------------------------------------------------------------
(* The authority.                                                          *)

(* What is synced and backed is safe from a power failure.                 *)
LEMMA SettledIsSafe == TypeOK /\ Settled /\ Backed(owner) => SafeDisk
  BY DEF TypeOK, Settled, Backed, SafeDisk, Files, Versions, Absent, Drift

LEMMA SafeIsBacked ==
    ASSUME NEW o \in [Files -> Versions], SafeDisk, \A f \in Files : o[f] \in disk[f]
    PROVE  Backed(o)
  BY DEF Backed, SafeDisk, Files

(* Between any two renames of a bundle, on the way there and back.         *)
LEMMA MidIsBacked ==
    TypeOK /\ Precursor(bundle, found) /\ (\A f \in Files : owner[f] = Mid(f)) => Backed(owner)
  <1> SUFFICES ASSUME TypeOK, Precursor(bundle, found), \A f \in Files : owner[f] = Mid(f)
               PROVE  Backed(owner)
    OBVIOUS
  <1>a. bundle \in Bundles /\ n \in 0..5 /\ found \in [Files -> Versions]
    BY DEF TypeOK
  <1>1. CASE bundle = 1
    BY <1>1, <1>a, FinalIs, PrecursorIs DEF Mid, Place, Backed, Files
  <1>2. CASE bundle # 1
    BY <1>2, <1>a, FinalIs, PrecursorIs DEF Mid, Place, Backed, Files, Bundles
  <1> QED  BY <1>1, <1>2

LEMMA AuthorityStep ==
    TypeOK /\ Shape /\ Endings /\ Authority /\ [Next]_vars /\ TypeOK' /\ Shape' => Authority'
  <1> SUFFICES ASSUME TypeOK, Shape, Endings, Authority, [Next]_vars, TypeOK', Shape',
                      edits' = 0, trust' # "torn"
               PROVE  Authority'
    BY DEF Authority
  <1>a. /\ bundle \in Bundles /\ n \in 0..5 /\ Len(Order(bundle)) = Renames(bundle)
        /\ Renames(bundle) \in {3, 5}
    BY OrderIs DEF TypeOK, Renames
  <1>b. edits = 0 /\ trust # "torn"
    BY DEF Next, Apply, Outside, Begin, Check, Stage, Recheck, Backup, Replace, Sync, Observe,
           Unwind, Rollback, SyncBack, Cleanup, Fault, Kill, PowerLoss, Author, Edit, vars, TypeOK
  <1>c. Backed(owner) /\ (trust = "firm" => SafeDisk) /\ (pc \in Taking => trust # "firm")
    BY <1>b DEF Authority
  <1>d. pc \in Writing \cup Taking =>
            Precursor(bundle, found) /\ \A f \in Files : owner[f] = Mid(f)
    BY <1>b DEF Shape
  <1>e. pc' \in Writing \cup Taking =>
            Precursor(bundle, found)' /\ (\A f \in Files : owner[f] = Mid(f))'
    BY DEF Shape
  <1>f. pc' \in Writing \cup Taking => Backed(owner)'
    BY <1>e, MidIsBacked, PTL
  <1>1. CASE Begin
    BY <1>1, <1>c DEF Begin, Authority, SafeDisk, Backed, Taking
  <1>2. CASE Check
    BY <1>2, <1>c DEF Check, Authority, SafeDisk, Backed, Taking
  <1>3. CASE Stage
    BY <1>3, <1>c DEF Stage, Authority, SafeDisk, Backed, Taking
  <1>4. CASE Recheck
    BY <1>4, <1>c DEF Recheck, Authority, SafeDisk, Backed, Taking
  <1>5. CASE Backup
    BY <1>5, <1>c DEF Backup, Authority, SafeDisk, Backed, Taking
  <1>6. CASE Replace
    <2> DEFINE g == Order(bundle)[n + 1]
               k == bundle
    <2>1. /\ pc = "replace" /\ n < Renames(k) /\ Precursor(k, found)
          /\ \A f \in Files : owner[f] = Mid(f)
      BY <1>6, <1>d DEF Replace, Shape, Writing
    <2>2. g \in Files /\ Place(k, g) = n + 1
      BY <2>1, <1>a, OrderIs
    <2>3. /\ owner' = [owner EXCEPT ![g] = Final(k)[g]]
          /\ disk' = [disk EXCEPT ![g] = @ \cup {Final(k)[g]}]
          /\ pc' \in Writing /\ UNCHANGED trust
      BY <1>6 DEF Replace, Put, Writing
    <2> HIDE DEF g
    <2>4. ASSUME trust = "firm", n + 1 < Renames(k) PROVE SafeDisk'
      <3>1. SafeDisk /\ \A f \in Files : owner[f] \in disk[f]
        BY <2>4, <1>c DEF Shape
      <3>2. /\ g # "promotion" /\ UNCHANGED <<owner["promotion"], disk["promotion"]>>
            /\ disk["promotion"] \subseteq Versions
        BY <2>2, <2>3, <2>4, <1>a DEF Place, Renames, Files, TypeOK
      <3>3. owner["promotion"] = found["promotion"]
        BY <2>1, <2>4, <1>a DEF Mid, Place, Renames, Files
      <3>4. CASE k = 1
        <4>1. owner["promotion"] = 0
          BY <3>3, <3>4, <2>1, PrecursorIs DEF TypeOK
        <4>2. \A q \in disk["promotion"] : q <= 0 /\ ~(q >= 1)
          BY <4>1, <3>1, <3>2 DEF SafeDisk, Versions, Absent, Drift
        <4> QED  BY <4>1, <4>2, <3>2 DEF SafeDisk
      <3>5. CASE k # 1
        <4>1. /\ g \in {"damage", "limits"} /\ Final(k)[g] = k
              /\ owner["promotion"] = k - 1 /\ owner["damage"] = k
          BY <3>3, <3>5, <2>1, <2>2, <2>4, <1>a, FinalIs, PrecursorIs
             DEF Mid, Place, Renames, Files, TypeOK
        <4>2. ASSUME NEW q \in disk["promotion"], q >= 1 PROVE k \in {q, q + 1}
          BY <4>1, <4>2, <3>1 DEF SafeDisk, Files
        <4>3. \A f \in Files : disk'[f] = IF f = g THEN disk[f] \cup {k} ELSE disk[f]
          BY <4>1, <2>2, <2>3 DEF TypeOK
        <4>4. ASSUME NEW q \in disk["promotion"], q >= 1
              PROVE  /\ disk'["profile"] = {1} /\ disk'["route"] = {1}
                     /\ disk'["damage"] \subseteq {q, q + 1}
                     /\ disk'["limits"] \subseteq {q, q + 1}
          BY <4>1, <4>2, <4>3, <4>4, <3>1 DEF SafeDisk, Files
        <4> QED  BY <4>4, <3>1, <3>2 DEF SafeDisk
      <3> QED  BY <3>4, <3>5
    <2>5. ASSUME trust = "firm", n + 1 = Renames(k) PROVE SafeDisk'
      <3>1. Settled
        BY <2>1, <2>5, <1>a, <1>b DEF Endings
      <3>2. g = "promotion" /\ Final(k)[g] = k
        BY <2>2, <2>5, <1>a, FinalIs DEF Place, Renames, Files
      <3>3. /\ disk'["promotion"] = {owner["promotion"], k} /\ owner'["promotion"] = k
            /\ \A f \in Files : f # "promotion" => disk'[f] = {owner[f]}
        BY <3>1, <3>2, <2>3 DEF Settled, TypeOK, Files
      <3>4. /\ owner["profile"] = 1 /\ owner["route"] = 1
            /\ owner["damage"] = k /\ owner["limits"] = k /\ owner["promotion"] = k - 1
        BY <2>1, <2>5, <1>a, FinalIs, PrecursorIs DEF Mid, Place, Renames, Files, TypeOK
      <3> QED  BY <3>3, <3>4, <1>a DEF SafeDisk, Files, Bundles
    <2>6. pc' \notin Taking
      BY <2>3 DEF Writing, Taking
    <2> QED  BY <2>1, <2>3, <2>4, <2>5, <2>6, <1>a, <1>f DEF Authority
  <1>7. CASE Sync
    <2>1. Settled' /\ pc' \notin Taking
      BY <1>7 DEF Sync, Settle, Settled, Taking
    <2>2. Backed(owner)'
      BY <1>7, <1>c DEF Sync, Backed
    <2>3. SafeDisk'
      BY <2>1, <2>2, SettledIsSafe, PTL
    <2> QED  BY <2>1, <2>2, <2>3 DEF Authority
  <1>8. CASE Observe
    BY <1>8, <1>c DEF Observe, Unwind, Authority, SafeDisk, Backed, Taking
  <1>9. CASE Rollback
    <2>1. trust # "firm" /\ UNCHANGED trust
      BY <1>9, <1>c DEF Rollback, Taking
    <2>2. CASE n = 0
      BY <1>9, <1>c, <2>1, <2>2 DEF Rollback, Authority, Backed
    <2>3. CASE n # 0
      <3>1. pc' = "rollback"
        BY <1>9, <2>3 DEF Rollback
      <3>2. Backed(owner)'
        BY <3>1, <1>f DEF Taking
      <3> QED  BY <2>1, <3>2 DEF Authority
    <2> QED  BY <2>2, <2>3
  <1>10. CASE SyncBack
    <2>1. Settled' /\ pc' \notin Taking
      BY <1>10 DEF SyncBack, Settle, Settled, Taking
    <2>2. Backed(owner)'
      BY <1>10, <1>c DEF SyncBack, Backed
    <2>3. SafeDisk'
      BY <2>1, <2>2, SettledIsSafe, PTL
    <2> QED  BY <2>1, <2>2, <2>3 DEF Authority
  <1>11. CASE Cleanup
    BY <1>11, <1>c DEF Cleanup, Authority, SafeDisk, Backed, Taking
  <1>12. CASE Fault
    BY <1>12, <1>c DEF Fault, Unwind, Authority, SafeDisk, Backed, Taking
  <1>13. CASE Kill
    BY <1>13, <1>c DEF Kill, Authority, SafeDisk, Backed, Taking
  <1>14. CASE PowerLoss
    <2>1. trust = "firm" /\ pc' = "killed"
      BY <1>14, <1>b DEF PowerLoss, TypeOK
    <2>2. Settled' /\ \A f \in Files : owner'[f] \in disk[f]
      BY <1>14 DEF PowerLoss, Settled
    <2>3. Backed(owner)'
      BY <2>1, <2>2, <1>c, SafeIsBacked DEF TypeOK, Backed
    <2>4. SafeDisk'
      BY <2>2, <2>3, SettledIsSafe, PTL
    <2> QED  BY <2>1, <2>3, <2>4 DEF Authority, Taking
  <1>15. CASE Author
    <2>1. PICK k \in Bundles : /\ owner = Final(k)
                              /\ owner' = [owner EXCEPT !["damage"] = k + 1]
      BY <1>15 DEF Author
    <2>2. Backed(owner)'
      BY <2>1, FinalIs DEF Backed, Bundles, Files, TypeOK
    <2>3. Settled' /\ pc' = "idle"
      BY <1>15 DEF Author, Settled
    <2>4. SafeDisk'
      BY <2>2, <2>3, SettledIsSafe, PTL
    <2> QED  BY <2>2, <2>3, <2>4 DEF Authority, Taking
  <1>16. CASE Edit
    BY <1>16, <1>b DEF Edit
  <1>17. CASE UNCHANGED vars
    BY <1>17, <1>c DEF vars, Authority, SafeDisk, Backed, Taking
  <1> QED  BY <1>1, <1>2, <1>3, <1>4, <1>5, <1>6, <1>7, <1>8, <1>9, <1>10, <1>11,
              <1>12, <1>13, <1>14, <1>15, <1>16, <1>17 DEF Next, Apply, Outside

-----------------------------------------------------------------------------
LEMMA Inductive ==
    /\ Init => IInv
    /\ IInv /\ [Next]_vars => IInv'
  <1>1. Init => IInv
    <2> SUFFICES ASSUME Init PROVE IInv
      OBVIOUS
    <2>1. TypeOK
      BY InitTyped
    <2>2. Shape /\ EditsKept /\ Endings
      BY DEF Init, Shape, EditsKept, Endings, Looking, Writing, Taking
    <2>3. Settled
      BY DEF Init, Settled
    <2>4. Backed(owner)
      <3>1. CASE owner = Blocked
        BY <3>1 DEF Blocked, Backed, Files
      <3>2. CASE \E k \in Bundles : owner = Final(k)
        BY <3>2, FinalIs DEF Backed, Bundles
      <3> QED  BY <3>1, <3>2 DEF Init
    <2>5. Authority
      BY <2>1, <2>3, <2>4, SettledIsSafe DEF Authority, Init, Taking
    <2> QED  BY <2>1, <2>2, <2>5 DEF IInv
  <1>2. IInv /\ [Next]_vars => IInv'
    BY TypeStep, ShapeStep, EndingsStep, AuthorityStep DEF IInv
  <1> QED  BY <1>1, <1>2

(* What holds in every state a sequence of runs can reach: the types, what *)
(* a run knows as it goes, the edits it keeps, its endings and the authority. *)
THEOREM Invariant == Spec => []IInv
  BY Inductive, PTL DEF Spec

(* The promotion manifest, which alone gives authority, never vouches for  *)
(* owners that are not there, whatever fails or is killed and whenever the *)
(* power goes, a rollback cut by a power failure excepted.                 *)
THEOREM AuthorityStaysLast == Spec => []AuthorityLast
  <1>1. IInv => AuthorityLast
    BY DEF IInv, Authority, AuthorityLast
  <1> QED  BY <1>1, Invariant, PTL

(* A run that ends by itself, its rollback completed if it needed one, has *)
(* put its whole bundle in place and synced it, or left the owners as it   *)
(* found them.                                                             *)
THEOREM RunsEndClean == Spec => []CleanEnd
  <1>1. IInv => CleanEnd
    BY DEF IInv, Endings, CleanEnd, Settled
  <1> QED  BY <1>1, Invariant, PTL

(* No rename into place writes over an edit that was there when the run    *)
(* last looked before its renames.                                         *)
THEOREM EditsSurvive == Spec => []EditsKept
  <1>1. IInv => EditsKept
    BY DEF IInv
  <1> QED  BY <1>1, Invariant, PTL
=============================================================================
