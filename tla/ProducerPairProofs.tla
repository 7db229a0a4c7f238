-------------------------- MODULE ProducerPairProofs --------------------------
(***************************************************************************)
(* The pair of producers, for any number of producers, cores, tables and   *)
(* edits: when the coordinator's work ends cleanly nothing it started is   *)
(* alive, and what it does is what AgreedRelease promises.                 *)
(***************************************************************************)
EXTENDS ProducerPair, TLAPS

Early == {"unborn", "started", "building"}
Fresh == Early \cup {"waiting"}
Built == {"waiting", "replaying", "sealing", "sealed", "done"}
Made  == {"sealing", "sealed", "done"}

(* A core is there from the announcement on, and stays what it is.         *)
CoresKnown ==
    \A p \in Producers :
        /\ leader[p] \in Early => core[p] = NoCore
        /\ leader[p] \in Built \/ output[p] = "ready" \/ p \in admitted => core[p] \in Cores

(* Whatever was released, was released on the agreement of all cores.      *)
ReleaseAgreed ==
    /\ pc \in {"agree", "compare", "release"} => \A p \in Producers : core[p] \in Cores
    /\ pc = "release" \/ (\E p \in Producers : stdin[p] = "release") =>
           CoresAgree /\ \A p \in Producers : core[p] \in Cores

(* What each stage of a leader has left behind.                            *)
WorkKnown ==
    \A p \in Producers :
        /\ leader[p] \in Fresh => p \notin candidates
        /\ leader[p] \in {"replaying", "sealing", "sealed"} => p \in candidates
        /\ leader[p] \in Fresh \cup {"replaying"} => table[p] = NoTable
        /\ leader[p] \in Made \/ p \in receipts => table[p] \in Tables
        /\ p \in workers => leader[p] \in {"replaying", "failed"}

(* A group no longer hunted is gone, or was never there.                   *)
Settled(p) == p \notin workers /\ leader[p] \in {"unborn", "done", "failed"}

HuntKnown ==
    /\ pc \in {"term", "kill"} => \A p \in Producers \ pending : Settled(p)
    /\ pc \in {"returned", "raised", "success"} => \A p \in Producers : Settled(p)

IInv == TypeOK /\ CoresKnown /\ ReleaseAgreed /\ WorkKnown /\ HuntKnown

-----------------------------------------------------------------------------
(* The steps: one lemma per part, one step per action that can disturb it. *)

(* Types; a receipt stays within the candidates because a sealing leader   *)
(* has its directory.                                                      *)
LEMMA TypeStep ==
    ASSUME IInv, [Next]_vars
    PROVE  TypeOK'
  <1> USE Values DEF IInv, TypeOK, Stages, Finished, vars, coordinator, progress,
        producer, pipes, world
  <1>1. ASSUME NEW p \in Producers, Spawn(p) PROVE TypeOK'
    BY <1>1 DEF Spawn, Goto
  <1>2. CASE SpawnFails
    BY <1>2 DEF SpawnFails, Raise
  <1>3. CASE Iterate
    BY <1>3 DEF Iterate, Goto, Raise
  <1>4. CASE Select
    BY <1>4 DEF Select, Goto, Raise, Unacceptable, Ended
  <1>5. CASE Agree
    BY <1>5 DEF Agree, Goto, Raise
  <1>6. CASE Compare
    BY <1>6 DEF Compare, Goto, Raise
  <1>7. ASSUME NEW p \in Producers, Release(p) PROVE TypeOK'
    BY <1>7 DEF Release, Goto, Raise
  <1>8. CASE Stop
    BY <1>8 DEF Stop, Goto
  <1>9. ASSUME NEW p \in Producers, Hunt(p) PROVE TypeOK'
    BY <1>9 DEF Hunt
  <1>10. CASE EndRound
    BY <1>10 DEF EndRound, Goto
  <1>11. CASE Collect
    BY <1>11 DEF Collect, Goto
  <1>12. ASSUME NEW p \in Producers, Begin(p) PROVE TypeOK'
    BY <1>12 DEF Begin
  <1>13. ASSUME NEW p \in Producers, Announce(p) PROVE TypeOK'
    BY <1>13 DEF Announce
  <1>14. ASSUME NEW p \in Producers, StartReplay(p) PROVE TypeOK'
    BY <1>14 DEF StartReplay
  <1>15. ASSUME NEW p \in Producers, FinishReplay(p) PROVE TypeOK'
    BY <1>15 DEF FinishReplay
  <1>16. ASSUME NEW p \in Producers, SealReceipt(p) PROVE TypeOK'
    BY <1>16 DEF SealReceipt, WorkKnown
  <1>17. ASSUME NEW p \in Producers, Exit(p) PROVE TypeOK'
    BY <1>17 DEF Exit
  <1>18. ASSUME NEW p \in Producers, Reject(p) PROVE TypeOK'
    BY <1>18 DEF Reject
  <1>19. ASSUME NEW p \in Producers, LeaderKilled(p) PROVE TypeOK'
    BY <1>19 DEF LeaderKilled
  <1>20. ASSUME NEW p \in Producers, WorkersGone(p) PROVE TypeOK'
    BY <1>20 DEF WorkersGone
  <1>21. ASSUME NEW p \in Producers, Babble(p) PROVE TypeOK'
    BY <1>21 DEF Babble
  <1>22. CASE Cancel
    BY <1>22 DEF Cancel
  <1>23. CASE PassDeadline
    BY <1>23 DEF PassDeadline
  <1>24. CASE EditSource
    BY <1>24 DEF EditSource
  <1>25. CASE UNCHANGED vars
    BY <1>25 DEF vars, coordinator, progress, producer, pipes, world
  <1> QED
    BY <1>1, <1>2, <1>3, <1>4, <1>5, <1>6, <1>7, <1>8, <1>9, <1>10, <1>11, <1>12, <1>13,
        <1>14, <1>15, <1>16, <1>17, <1>18, <1>19, <1>20, <1>21, <1>22, <1>23, <1>24,
        <1>25 DEF Next, Coordinator, Producer

(* Only Announce makes a core, of a leader that has none; only what is     *)
(* announced can be admitted.                                              *)
LEMMA CoresStep ==
    ASSUME IInv, [Next]_vars
    PROVE  CoresKnown'
  <1> USE Values DEF IInv, TypeOK, CoresKnown, Early, Built, Stages
  <1>1. ASSUME NEW p \in Producers, Spawn(p) PROVE CoresKnown'
    BY <1>1 DEF Spawn, progress, producer, pipes, world
  <1>2. CASE Select
    BY <1>2 DEF Select, Goto, Raise, progress, producer, pipes, world
  <1>3. ASSUME NEW p \in Producers, Begin(p) PROVE CoresKnown'
    BY <1>3 DEF Begin, Alive, Runs, coordinator, progress, pipes, world
  <1>4. ASSUME NEW p \in Producers, Announce(p) PROVE CoresKnown'
    BY <1>4 DEF Announce, Alive, Runs, coordinator, progress, pipes, world
  <1>5. ASSUME NEW p \in Producers, StartReplay(p) PROVE CoresKnown'
    BY <1>5 DEF StartReplay, Alive, Runs, coordinator, progress, pipes, world
  <1>6. ASSUME NEW p \in Producers, FinishReplay(p) PROVE CoresKnown'
    BY <1>6 DEF FinishReplay, Alive, Runs, coordinator, progress, pipes, world
  <1>7. ASSUME NEW p \in Producers, SealReceipt(p) PROVE CoresKnown'
    BY <1>7 DEF SealReceipt, Alive, Runs, coordinator, progress, pipes, world
  <1>8. ASSUME NEW p \in Producers, Exit(p) PROVE CoresKnown'
    BY <1>8 DEF Exit, Alive, Runs, coordinator, progress, pipes, world
  <1>9. ASSUME NEW p \in Producers, Reject(p) PROVE CoresKnown'
    BY <1>9 DEF Reject, Alive, Runs, coordinator, progress, pipes, world
  <1>10. ASSUME NEW p \in Producers, LeaderKilled(p) PROVE CoresKnown'
    BY <1>10 DEF LeaderKilled, Alive, Runs, coordinator, progress, pipes, world
  <1>11. ASSUME NEW p \in Producers, Babble(p) PROVE CoresKnown'
    BY <1>11 DEF Babble, Alive, Runs, coordinator, progress, producer, world
  <1>12. CASE UNCHANGED <<leader, output, admitted, core>>
    BY <1>12
  <1> QED
    BY <1>1, <1>2, <1>3, <1>4, <1>5, <1>6, <1>7, <1>8, <1>9, <1>10, <1>11, <1>12 DEF
        Next, Coordinator, Producer, vars, coordinator, progress, producer, pipes,
        world, SpawnFails, Iterate, Agree, Compare, Release, Stop, Hunt, EndRound,
        Collect, WorkersGone, Cancel, PassDeadline, EditSource

(* The last readiness line completes the cores, Compare compares them, and *)
(* from then on no leader is left that could announce another.             *)
LEMMA ReleaseStep ==
    ASSUME IInv, [Next]_vars
    PROVE  ReleaseAgreed'
  <1> USE Values DEF IInv, TypeOK, CoresKnown, ReleaseAgreed, CoresAgree
  <1>1. ASSUME NEW p \in Producers, Spawn(p) PROVE ReleaseAgreed'
    BY <1>1 DEF Spawn, Goto, Raise, progress, producer, pipes, world
  <1>2. CASE SpawnFails
    BY <1>2 DEF SpawnFails, Goto, Raise, progress, producer, pipes, world
  <1>3. CASE Iterate
    BY <1>3 DEF Iterate, Goto, Raise, progress, producer, pipes, world
  <1>4. CASE Select
    BY <1>4 DEF Select, Goto, Raise, progress, producer, pipes, world
  <1>5. CASE Agree
    BY <1>5 DEF Agree, Goto, Raise, progress, producer, pipes, world
  <1>6. CASE Compare
    BY <1>6 DEF Compare, Goto, Raise, progress, producer, pipes, world
  <1>7. ASSUME NEW p \in Producers, Release(p) PROVE ReleaseAgreed'
    BY <1>7 DEF Release, Goto, Raise, progress, producer, pipes, world
  <1>8. CASE Stop
    BY <1>8 DEF Stop, Goto, Raise, progress, producer, pipes, world
  <1>9. CASE EndRound
    BY <1>9 DEF EndRound, Goto, Raise, progress, producer, pipes, world
  <1>10. CASE Collect
    BY <1>10 DEF Collect, Goto, Raise, progress, producer, pipes, world
  <1>11. ASSUME NEW p \in Producers, Announce(p) PROVE ReleaseAgreed'
    BY <1>11 DEF Announce, Early, Built, Alive, Runs, coordinator, progress, pipes,
        world
  <1>12. CASE UNCHANGED <<pc, stdin, core>>
    BY <1>12
  <1> QED
    BY <1>1, <1>2, <1>3, <1>4, <1>5, <1>6, <1>7, <1>8, <1>9, <1>10, <1>11, <1>12 DEF
        Next, Coordinator, Producer, vars, coordinator, progress, producer, pipes,
        world, Hunt, Begin, StartReplay, FinishReplay, SealReceipt, Exit, Reject,
        LeaderKilled, WorkersGone, Babble, Cancel, PassDeadline, EditSource

(* A leader makes its directory, its table and its receipt in this order.  *)
LEMMA WorkStep ==
    ASSUME IInv, [Next]_vars
    PROVE  WorkKnown'
  <1> USE Values DEF IInv, TypeOK, WorkKnown, Fresh, Early, Made, Stages
  <1>1. ASSUME NEW p \in Producers, Spawn(p) PROVE WorkKnown'
    BY <1>1 DEF Spawn, progress, producer, pipes, world
  <1>2. ASSUME NEW p \in Producers, Begin(p) PROVE WorkKnown'
    BY <1>2 DEF Begin, Alive, Runs, coordinator, progress, pipes, world
  <1>3. ASSUME NEW p \in Producers, Announce(p) PROVE WorkKnown'
    BY <1>3 DEF Announce, Alive, Runs, coordinator, progress, pipes, world
  <1>4. ASSUME NEW p \in Producers, StartReplay(p) PROVE WorkKnown'
    BY <1>4 DEF StartReplay, Alive, Runs, coordinator, progress, pipes, world
  <1>5. ASSUME NEW p \in Producers, FinishReplay(p) PROVE WorkKnown'
    BY <1>5 DEF FinishReplay, Alive, Runs, coordinator, progress, pipes, world
  <1>6. ASSUME NEW p \in Producers, SealReceipt(p) PROVE WorkKnown'
    BY <1>6 DEF SealReceipt, Alive, Runs, coordinator, progress, pipes, world
  <1>7. ASSUME NEW p \in Producers, Exit(p) PROVE WorkKnown'
    BY <1>7 DEF Exit, Alive, Runs, coordinator, progress, pipes, world
  <1>8. ASSUME NEW p \in Producers, Reject(p) PROVE WorkKnown'
    BY <1>8 DEF Reject, Alive, Runs, coordinator, progress, pipes, world
  <1>9. ASSUME NEW p \in Producers, LeaderKilled(p) PROVE WorkKnown'
    BY <1>9 DEF LeaderKilled, Alive, Runs, coordinator, progress, pipes, world
  <1>10. ASSUME NEW p \in Producers, WorkersGone(p) PROVE WorkKnown'
    BY <1>10 DEF WorkersGone, coordinator, progress, pipes, world
  <1>11. CASE UNCHANGED <<leader, candidates, table, workers, receipts>>
    BY <1>11
  <1> QED
    BY <1>1, <1>2, <1>3, <1>4, <1>5, <1>6, <1>7, <1>8, <1>9, <1>10, <1>11 DEF Next,
        Coordinator, Producer, vars, coordinator, progress, producer, pipes, world,
        SpawnFails, Iterate, Select, Agree, Compare, Release, Stop, Hunt, EndRound,
        Collect, Babble, Cancel, PassDeadline, EditSource

(* Once the hunt has begun nothing is spawned, and a group that was seen   *)
(* to be gone has no leader that could start new workers.                  *)
LEMMA HuntStep ==
    ASSUME IInv, [Next]_vars
    PROVE  HuntKnown'
  <1> USE Values DEF IInv, TypeOK, HuntKnown, Settled, Stages
  <1>1. ASSUME NEW p \in Producers, Spawn(p) PROVE HuntKnown'
    BY <1>1 DEF Spawn, Goto, Raise, progress, producer, pipes, world
  <1>2. CASE SpawnFails
    BY <1>2 DEF SpawnFails, Goto, Raise, progress, producer, pipes, world
  <1>3. CASE Iterate
    BY <1>3 DEF Iterate, Goto, Raise, progress, producer, pipes, world
  <1>4. CASE Select
    BY <1>4 DEF Select, Goto, Raise, progress, producer, pipes, world
  <1>5. CASE Agree
    BY <1>5 DEF Agree, Goto, Raise, progress, producer, pipes, world
  <1>6. CASE Compare
    BY <1>6 DEF Compare, Goto, Raise, progress, producer, pipes, world
  <1>7. ASSUME NEW p \in Producers, Release(p) PROVE HuntKnown'
    BY <1>7 DEF Release, Goto, Raise, progress, producer, pipes, world
  <1>8. CASE Stop
    BY <1>8 DEF Stop, WorkKnown, Fresh, Early, Goto, Raise, progress, producer, pipes,
        world
  <1>9. ASSUME NEW p \in Producers, Hunt(p) PROVE HuntKnown'
    BY <1>9 DEF Hunt, Gone, Dead, progress, producer, pipes, world
  <1>10. CASE EndRound
    BY <1>10 DEF EndRound, Goto, Raise, progress, producer, pipes, world
  <1>11. CASE Collect
    BY <1>11 DEF Collect, Goto, Raise, progress, producer, pipes, world
  <1>12. ASSUME NEW p \in Producers, Begin(p) PROVE HuntKnown'
    BY <1>12 DEF Begin, Alive, Runs, coordinator, progress, pipes, world
  <1>13. ASSUME NEW p \in Producers, Announce(p) PROVE HuntKnown'
    BY <1>13 DEF Announce, Alive, Runs, coordinator, progress, pipes, world
  <1>14. ASSUME NEW p \in Producers, StartReplay(p) PROVE HuntKnown'
    BY <1>14 DEF StartReplay, Alive, Runs, coordinator, progress, pipes, world
  <1>15. ASSUME NEW p \in Producers, FinishReplay(p) PROVE HuntKnown'
    BY <1>15 DEF FinishReplay, Alive, Runs, coordinator, progress, pipes, world
  <1>16. ASSUME NEW p \in Producers, SealReceipt(p) PROVE HuntKnown'
    BY <1>16 DEF SealReceipt, Alive, Runs, coordinator, progress, pipes, world
  <1>17. ASSUME NEW p \in Producers, Exit(p) PROVE HuntKnown'
    BY <1>17 DEF Exit, Alive, Runs, coordinator, progress, pipes, world
  <1>18. ASSUME NEW p \in Producers, Reject(p) PROVE HuntKnown'
    BY <1>18 DEF Reject, Alive, Runs, coordinator, progress, pipes, world
  <1>19. ASSUME NEW p \in Producers, LeaderKilled(p) PROVE HuntKnown'
    BY <1>19 DEF LeaderKilled, Alive, Runs, coordinator, progress, pipes, world
  <1>20. ASSUME NEW p \in Producers, WorkersGone(p) PROVE HuntKnown'
    BY <1>20 DEF WorkersGone, coordinator, progress, pipes, world
  <1>21. CASE UNCHANGED <<pc, pending, leader, workers>>
    BY <1>21
  <1> QED
    BY <1>1, <1>2, <1>3, <1>4, <1>5, <1>6, <1>7, <1>8, <1>9, <1>10, <1>11, <1>12, <1>13,
        <1>14, <1>15, <1>16, <1>17, <1>18, <1>19, <1>20, <1>21 DEF Next, Coordinator,
        Producer, vars, coordinator, progress, producer, pipes, world, Babble, Cancel,
        PassDeadline, EditSource

LEMMA Inductive == Spec => []IInv
  <1>1. Init => IInv
    <2> SUFFICES ASSUME Init PROVE IInv
      OBVIOUS
    <2> USE Values DEF Init
    <2>1. TypeOK
      <3>1. released <=> \A p \in Producers : stdin[p] = "release"
        BY \E p \in Producers : stdin[p] # "release"
      <3>2. {released, cancelled, late} \subseteq BOOLEAN
        OBVIOUS
      <3> QED
        BY <3>1, <3>2 DEF TypeOK, Stages, Finished
    <2>2. CoresKnown /\ WorkKnown
      BY DEF CoresKnown, WorkKnown, Early, Fresh, Built, Made
    <2>3. ReleaseAgreed /\ HuntKnown
      BY DEF ReleaseAgreed, HuntKnown
    <2> QED
      BY <2>1, <2>2, <2>3 DEF IInv
  <1>2. IInv /\ [Next]_vars => IInv'
    BY TypeStep, CoresStep, ReleaseStep, WorkStep, HuntStep DEF IInv
  <1> QED
    BY <1>1, <1>2, PTL DEF Spec

-----------------------------------------------------------------------------
(* Whatever ended execute_pair, and whichever leader died first: when it   *)
(* has returned or raised, no process of any group is alive.               *)
THEOREM NobodyIsLeft == Spec => []NobodyLeft
  <1>1. IInv => NobodyLeft
    BY DEF IInv, TypeOK, HuntKnown, Settled, NobodyLeft, Alive
  <1> QED
    BY <1>1, Inductive, PTL

(* No replay before all cores agree, none twice, no table of a producer    *)
(* that was not released, no success without equal complete tables: every  *)
(* step is a step of AgreedRelease or changes nothing it can see.          *)
THEOREM PromiseKept == Spec => KeepsPromise
  <1> USE Values
  <1>1. Init => Promise!Init
    BY DEF Init, Promise!Init
  <1>2. ASSUME IInv, [Next]_vars PROVE [Promise!Next]_(Promise!vars)
    <2> USE DEF IInv, TypeOK, Stages, Promise!vars
    <2>1. ASSUME NEW p \in Producers, Announce(p) PROVE Promise!Announce(p)
      BY <1>2, <2>1 DEF Announce, CoresKnown, Early, Promise!Announce, coordinator, progress
    <2>2. ASSUME NEW p \in Producers, StartReplay(p) PROVE Promise!Begin(p)
      <3>1. leader[p] = "waiting" /\ stdin[p] = "release"
        BY <2>2 DEF StartReplay
      <3>2. pc \notin {"success", "raised"}
        BY <1>2, <3>1 DEF HuntKnown, Settled
      <3>3. Promise!Agreed
        BY <1>2, <3>1 DEF ReleaseAgreed, CoresAgree, Promise!Agreed
      <3>4. p \notin candidates
        BY <1>2, <3>1 DEF WorkKnown, Fresh
      <3> QED
        BY <2>2, <3>2, <3>3, <3>4 DEF StartReplay, Promise!Begin, coordinator, progress
    <2>3. ASSUME NEW p \in Producers, FinishReplay(p) PROVE Promise!Complete(p)
      <3>1. leader[p] = "replaying"
        BY <2>3 DEF FinishReplay
      <3>2. pc \notin {"success", "raised"}
        BY <1>2, <3>1 DEF HuntKnown, Settled
      <3>3. p \in candidates /\ table[p] = NoTable
        BY <1>2, <3>1 DEF WorkKnown
      <3> QED
        BY <2>3, <3>2, <3>3 DEF FinishReplay, Promise!Complete, coordinator, progress
    <2>4. CASE Collect
      <3>1. UNCHANGED <<core, candidates, table>> /\ pc = "returned"
        BY <2>4 DEF Collect, producer
      <3>2. CASE pc' = "success"
        <4>1. \A p, q \in Producers : table[p] = table[q] /\ p \in receipts
          BY <2>4, <3>2 DEF Collect, Goto
        <4>2. \E t \in Tables : \A p \in Producers : table[p] = t
          BY <1>2, <4>1 DEF WorkKnown
        <4> QED
          BY <3>1, <3>2, <4>2 DEF Promise!Next, Promise!Succeed
      <3>3. CASE pc' = "raised"
        BY <3>1, <3>3 DEF Promise!Next, Promise!Fail
      <3> QED
        BY <2>4, <3>2, <3>3 DEF Collect, Goto
    <2>5. CASE EndRound
      <3>1. UNCHANGED <<core, candidates, table>> /\ pc \in {"term", "kill"}
        BY <2>5 DEF EndRound, producer
      <3>2. CASE pc' = "raised"
        BY <3>1, <3>2 DEF Promise!Next, Promise!Fail
      <3>3. CASE pc' \in {"returned", "kill", "unclean"}
        BY <3>1, <3>3
      <3> QED
        BY <2>5, <3>2, <3>3 DEF EndRound, Goto
    <2>6. CASE UNCHANGED <<core, candidates, table>>
               /\ {pc, pc'} \cap {"raised", "success"} = {}
      BY <2>6
    <2>7. CASE UNCHANGED <<core, candidates, table, pc>>
      BY <2>7
    <2>8. (\E p \in Producers : Spawn(p) \/ Release(p)) \/ SpawnFails \/ Iterate \/ Select
              \/ Agree \/ Compare \/ Stop
          => /\ UNCHANGED <<core, candidates, table>>
             /\ {pc, pc'} \cap {"raised", "success"} = {}
      BY DEF Spawn, Release, SpawnFails, Iterate, Select, Agree, Compare, Stop, Goto, Raise,
             producer
    <2>9. (\E p \in Producers : Hunt(p) \/ Begin(p) \/ SealReceipt(p) \/ Exit(p) \/ Reject(p)
              \/ LeaderKilled(p) \/ WorkersGone(p) \/ Babble(p))
          \/ Cancel \/ PassDeadline \/ EditSource \/ UNCHANGED vars
          => UNCHANGED <<core, candidates, table, pc>>
      BY DEF Hunt, Begin, SealReceipt, Exit, Reject, LeaderKilled, WorkersGone, Babble, Cancel,
             PassDeadline, EditSource, vars, coordinator, producer
    <2>10. CASE (\E p \in Producers : Announce(p) \/ StartReplay(p) \/ FinishReplay(p))
      BY <2>1, <2>2, <2>3, <2>10 DEF Promise!Next
    <2> QED
      BY <1>2, <2>4, <2>5, <2>6, <2>7, <2>8, <2>9, <2>10 DEF Next, Coordinator, Producer
  <1> QED
    BY <1>1, <1>2, Inductive, PTL DEF Spec, KeepsPromise, Promise!Spec

=============================================================================
