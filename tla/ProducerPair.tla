---------------------------- MODULE ProducerPair ----------------------------
(***************************************************************************)
(* Two producers and their coordinator: execute_pair_v2 and the comparison *)
(* after it (tools/m2/verify_gate8_v2.py) and produce                      *)
(* (tools/m2/generate_gate8_v2.py).  A producer is a process group: a      *)
(* leader and, during the replay, pool workers that share its output.      *)
(* Lines, hashes and deadlines are abstracted: a line is admissible or     *)
(* noise, the source is as frozen or edited, a deadline may always pass.   *)
(***************************************************************************)
EXTENDS Naturals, FiniteSets

CONSTANTS Producers, Cores, NoCore, Tables, NoTable,
          MaxEdits            \* bound on edits of the source

ASSUME Values == /\ Producers # {} /\ MaxEdits \in Nat
                 /\ NoCore \notin Cores /\ NoTable \notin Tables

VARIABLES
    pc,         \* the coordinator's next step
    outcome,    \* how execute_pair will end once the groups are gone
    released,   \* both release lines were sent
    cancelled,  \* a SIGTERM or SIGINT was recorded
    late,       \* the preflight deadline has passed
    admitted,   \* producers whose readiness line was accepted
    closed,     \* producers whose output ended
    pending,    \* groups not yet seen to be gone
    leader,     \* stage of each leader
    seen,       \* the source each leader projected
    core,       \* the core it built
    candidates, \* producers that made their candidate directory
    table,      \* the file table of a finished candidate
    workers,    \* groups with living pool workers
    output,     \* unread output of each group
    stdin,      \* what the leader will read
    signalled,  \* strongest signal sent to each group
    receipts,   \* producers with a receipt.json
    source,     \* the repository's source now
    edits

progress    == <<released, late, admitted, closed, pending, signalled>>
coordinator == <<pc, outcome, progress>>
producer    == <<leader, seen, core, candidates, table, workers, receipts>>
pipes       == <<output, stdin>>
world       == <<cancelled, source, edits>>
vars == <<coordinator, producer, pipes, world>>

Stages == {"unborn", "started", "building", "waiting", "replaying", "sealing", "sealed",
           "done", "failed"}

Alive(p) == leader[p] \notin {"unborn", "done", "failed"}
Dead(p)  == leader[p] \in {"done", "failed"}

Goto(step) == pc' = step /\ UNCHANGED outcome
Raise      == pc' = "stop" /\ outcome' = "error"

-----------------------------------------------------------------------------
Init ==
    /\ pc = "spawn" /\ outcome = "none"
    /\ released = FALSE /\ late = FALSE
    /\ admitted = {} /\ closed = {} /\ pending = {}
    /\ signalled = [p \in Producers |-> "none"]
    /\ leader = [p \in Producers |-> "unborn"]
    /\ seen = [p \in Producers |-> "frozen"]
    /\ core = [p \in Producers |-> NoCore]
    /\ candidates = {}
    /\ table = [p \in Producers |-> NoTable]
    /\ workers = {} /\ receipts = {}
    /\ output = [p \in Producers |-> "none"]
    /\ stdin = [p \in Producers |-> "open"]
    /\ cancelled = FALSE /\ source = "frozen" /\ edits = 0

-----------------------------------------------------------------------------
(* The coordinator: starting the producers.                                *)

Spawn(p) ==
    /\ pc = "spawn" /\ leader[p] = "unborn"
    /\ leader' = [leader EXCEPT ![p] = "started"]
    /\ Goto(IF \E q \in Producers \ {p} : leader[q] = "unborn" THEN "spawn" ELSE "head")
    /\ UNCHANGED <<progress, seen, core, candidates, table, workers, receipts, pipes, world>>

SpawnFails ==
    /\ pc = "spawn"
    /\ Raise
    /\ UNCHANGED <<progress, producer, pipes, world>>

(* The loop: its condition, then the checks that open each round.          *)

Over == \A p \in Producers : p \in closed /\ Dead(p)

MutantTroubled ==                                  \* waits for readiness for ever
    cancelled \/ \E p \in Producers : leader[p] = "failed"

Troubled == \/ cancelled
            \/ \E p \in Producers : leader[p] = "failed"
            \/ ~released /\ late

Iterate ==
    /\ pc = "head"
    /\ IF Over
       THEN /\ pc' = "stop"
            /\ outcome' = IF released /\ \A p \in Producers : leader[p] = "done"
                          THEN "ready" ELSE "error"
       ELSE IF Troubled THEN Raise ELSE Goto("select")
    /\ UNCHANGED <<progress, producer, pipes, world>>

(* A stream ends when the last process of the group that holds it is gone. *)
Ended(p) == p \notin closed /\ Dead(p) /\ p \notin workers /\ output[p] = "none"

Unacceptable(p) ==
    \/ output[p] = "noise"
    \/ output[p] = "ready" /\ (p \in admitted \/ seen[p] # "frozen")
    \/ Ended(p) /\ p \notin admitted

Select ==
    /\ pc = "select"
    /\ LET fresh == admitted \cup {p \in Producers : output[p] = "ready"}
       IN  IF \E p \in Producers : Unacceptable(p)
           THEN Raise /\ UNCHANGED <<admitted, closed, output>>
           ELSE /\ admitted' = fresh
                /\ closed' = closed \cup {p \in Producers : Ended(p)}
                /\ output' = [p \in Producers |-> "none"]
                /\ Goto(IF fresh = Producers /\ ~released THEN "agree" ELSE "head")
    /\ UNCHANGED <<released, late, pending, signalled, producer, stdin, world>>

-----------------------------------------------------------------------------
(* The coordinator: comparing the cores and releasing both.                *)

Agree ==
    /\ pc = "agree"
    /\ IF \A p \in Producers : Alive(p) THEN Goto("compare") ELSE Raise
    /\ UNCHANGED <<progress, producer, pipes, world>>

CoresAgree == \A p, q \in Producers : core[p] = core[q]

MutantCompare ==                                   \* takes readiness for agreement
    /\ pc = "compare"
    /\ IF source = "frozen" /\ ~cancelled THEN Goto("release") ELSE Raise
    /\ UNCHANGED <<progress, producer, pipes, world>>

Compare ==
    /\ pc = "compare"
    /\ IF source = "frozen" /\ CoresAgree /\ ~cancelled THEN Goto("release") ELSE Raise
    /\ UNCHANGED <<progress, producer, pipes, world>>

(* A line and the end of input; a leader that is gone breaks the pipe.     *)
Release(p) ==
    /\ pc = "release" /\ stdin[p] = "open"
    /\ IF Dead(p)
       THEN Raise /\ UNCHANGED <<stdin, released>>
       ELSE /\ stdin' = [stdin EXCEPT ![p] = "release"]
            /\ released' = \A q \in Producers : stdin'[q] = "release"
            /\ Goto(IF released' THEN "head" ELSE "release")
    /\ UNCHANGED <<late, admitted, closed, pending, signalled, producer, output, world>>

-----------------------------------------------------------------------------
(* The coordinator: _stop, however the loop ended.                         *)

Stop ==
    /\ pc = "stop"
    /\ stdin' = [p \in Producers |-> IF stdin[p] = "open" THEN "closed" ELSE stdin[p]]
    /\ pending' = {p \in Producers : leader[p] # "unborn"}
    /\ Goto("term")
    /\ UNCHANGED <<released, late, admitted, closed, signalled, producer, output, world>>

MutantGone(p) == Dead(p)                           \* looks at the leader only

(* No process is left in the group once the leader is reaped.              *)
Gone(p) == Dead(p) /\ p \notin workers

(* One look at one group: reap, then signal it or find it gone.            *)
Hunt(p) ==
    /\ pc \in {"term", "kill"} /\ p \in pending
    /\ IF Gone(p)
       THEN pending' = pending \ {p} /\ UNCHANGED signalled
       ELSE /\ signalled[p] # pc
            /\ signalled' = [signalled EXCEPT ![p] = pc]
            /\ UNCHANGED pending
    /\ UNCHANGED <<pc, outcome, released, late, admitted, closed, producer, pipes, world>>

MutantEndRound ==                                  \* asks once, politely
    /\ pc \in {"term", "kill"}
    /\ pending = {}
    /\ Goto(IF outcome = "ready" THEN "returned" ELSE "raised")
    /\ UNCHANGED <<progress, producer, pipes, world>>

(* All groups are gone, or the time of the round is up.                    *)
EndRound ==
    /\ pc \in {"term", "kill"}
    /\ \/ pending = {} /\ Goto(IF outcome = "ready" THEN "returned" ELSE "raised")
       \/ /\ pending # {} /\ \A p \in pending : signalled[p] = pc
          /\ Goto(IF pc = "term" THEN "kill" ELSE "unclean")
    /\ UNCHANGED <<progress, producer, pipes, world>>

(* pair_v2 after execute_pair: both receipts, and the same complete files. *)
Collect ==
    /\ pc = "returned"
    /\ Goto(IF /\ source = "frozen" /\ receipts = Producers
               /\ \A p, q \in Producers : table[p] = table[q]
            THEN "success" ELSE "raised")
    /\ UNCHANGED <<progress, producer, pipes, world>>

Coordinator ==
    \/ \E p \in Producers : Spawn(p) \/ Release(p) \/ Hunt(p)
    \/ SpawnFails \/ Iterate \/ Select \/ Agree \/ Compare \/ Stop \/ EndRound \/ Collect

-----------------------------------------------------------------------------
(* The producers.  freeze() precedes each step that others can see.        *)

Runs(p)   == Alive(p) /\ signalled[p] # "kill"
Frozen(p) == source = seen[p]

Begin(p) ==
    /\ leader[p] = "started" /\ Runs(p)
    /\ leader' = [leader EXCEPT ![p] = "building"]
    /\ seen' = [seen EXCEPT ![p] = source]
    /\ UNCHANGED <<coordinator, core, candidates, table, workers, receipts, pipes, world>>

Announce(p) ==
    /\ leader[p] = "building" /\ Runs(p) /\ Frozen(p)
    /\ leader' = [leader EXCEPT ![p] = "waiting"]
    /\ \E c \in Cores : core' = [core EXCEPT ![p] = c]
    /\ output' = [output EXCEPT ![p] = IF @ = "noise" THEN @ ELSE "ready"]
    /\ UNCHANGED <<coordinator, seen, candidates, table, workers, receipts, stdin, world>>

(* The whole line and the end of input, bound to this leader's own core.   *)
StartReplay(p) ==
    /\ leader[p] = "waiting" /\ Runs(p) /\ Frozen(p)
    /\ stdin[p] = "release"
    /\ leader' = [leader EXCEPT ![p] = "replaying"]
    /\ candidates' = candidates \cup {p}
    /\ workers' = workers \cup {p}
    /\ UNCHANGED <<coordinator, seen, core, table, receipts, pipes, world>>

FinishReplay(p) ==
    /\ leader[p] = "replaying" /\ Runs(p) /\ Frozen(p)
    /\ leader' = [leader EXCEPT ![p] = "sealing"]
    /\ \E t \in Tables : table' = [table EXCEPT ![p] = t]
    /\ workers' = workers \ {p}
    /\ UNCHANGED <<coordinator, seen, core, candidates, receipts, pipes, world>>

SealReceipt(p) ==
    /\ leader[p] = "sealing" /\ Runs(p) /\ Frozen(p)
    /\ leader' = [leader EXCEPT ![p] = "sealed"]
    /\ receipts' = receipts \cup {p}
    /\ UNCHANGED <<coordinator, seen, core, candidates, table, workers, pipes, world>>

Exit(p) ==
    /\ leader[p] = "sealed" /\ Runs(p) /\ Frozen(p)
    /\ leader' = [leader EXCEPT ![p] = "done"]
    /\ UNCHANGED <<coordinator, seen, core, candidates, table, workers, receipts, pipes, world>>

(* Any check, a passed deadline, an end of input without a release: the    *)
(* leader cleans up after itself and exits with 2.                         *)
Reject(p) ==
    /\ Runs(p)
    /\ leader' = [leader EXCEPT ![p] = "failed"]
    /\ workers' = workers \ {p}
    /\ receipts' = receipts \ {p}
    /\ UNCHANGED <<coordinator, seen, core, candidates, table, pipes, world>>

(* The leader is killed, by _stop or by something else.  Nothing is        *)
(* cleaned up, and its workers live on.                                    *)
LeaderKilled(p) ==
    /\ Alive(p)
    /\ leader' = [leader EXCEPT ![p] = "failed"]
    /\ UNCHANGED <<coordinator, seen, core, candidates, table, workers, receipts, pipes, world>>

WorkersGone(p) ==
    /\ p \in workers
    /\ signalled[p] # "none" \/ Dead(p)
    /\ workers' = workers \ {p}
    /\ UNCHANGED <<coordinator, leader, seen, core, candidates, table, receipts, pipes, world>>

(* Output the protocol has no place for, or too much diagnosis, as long as *)
(* the coordinator may still read it.                                      *)
Babble(p) ==
    /\ Runs(p) /\ output[p] # "noise" /\ outcome = "none"
    /\ output' = [output EXCEPT ![p] = "noise"]
    /\ UNCHANGED <<coordinator, producer, stdin, world>>

Producer == \E p \in Producers :
    \/ Begin(p) \/ Announce(p) \/ StartReplay(p) \/ FinishReplay(p) \/ SealReceipt(p) \/ Exit(p)
    \/ Reject(p) \/ LeaderKilled(p) \/ WorkersGone(p) \/ Babble(p)

-----------------------------------------------------------------------------
Finished == {"raised", "unclean", "success"}

(* The handlers are in place until execute_pair ends.  Once it is failing, *)
(* neither a signal nor an edit decides anything, and both are left out.   *)
Cancel ==
    /\ ~cancelled /\ outcome # "error" /\ pc \notin {"returned", "success"}
    /\ cancelled' = TRUE
    /\ UNCHANGED <<coordinator, producer, pipes, source, edits>>

(* 3600 seconds, looked at by the loop until both are released.            *)
PassDeadline ==
    /\ ~late /\ ~released /\ outcome = "none"
    /\ late' = TRUE
    /\ UNCHANGED <<pc, outcome, released, admitted, closed, pending, signalled, producer, pipes,
                   world>>

EditSource ==
    /\ edits < MaxEdits /\ outcome # "error" /\ pc # "success"
    /\ edits' = edits + 1
    /\ source' = IF source = "frozen" THEN "edited" ELSE "frozen"
    /\ UNCHANGED <<coordinator, producer, pipes, cancelled>>

Next == Coordinator \/ Producer \/ Cancel \/ PassDeadline \/ EditSource

Spec == Init /\ [][Next]_vars

(* The coordinator runs and time passes; producers may hang at any step    *)
(* and ignore SIGTERM.                                                     *)
LiveSpec == Spec /\ WF_vars(Coordinator) /\ WF_vars(PassDeadline)

-----------------------------------------------------------------------------
TypeOK ==
    /\ pc \in {"spawn", "head", "select", "agree", "compare", "release", "stop", "term", "kill",
               "returned"} \cup Finished
    /\ outcome \in {"none", "ready", "error"}
    /\ {released, cancelled, late} \subseteq BOOLEAN
    /\ admitted \subseteq Producers /\ closed \subseteq admitted /\ pending \subseteq Producers
    /\ leader \in [Producers -> Stages] /\ seen \in [Producers -> {"frozen", "edited"}]
    /\ core \in [Producers -> Cores \cup {NoCore}]
    /\ table \in [Producers -> Tables \cup {NoTable}]
    /\ workers \subseteq Producers /\ receipts \subseteq candidates
    /\ output \in [Producers -> {"none", "ready", "noise"}]
    /\ stdin \in [Producers -> {"open", "release", "closed"}]
    /\ released <=> \A p \in Producers : stdin[p] = "release"
    /\ signalled \in [Producers -> {"none", "term", "kill"}]
    /\ source \in {"frozen", "edited"} /\ edits \in 0 .. MaxEdits

(* When execute_pair has ended, for whatever reason, no process it started *)
(* is alive: not a peer that waits, not a pool worker whose leader died.   *)
NobodyLeft ==
    pc \in {"returned", "raised", "success"} =>
        workers = {} /\ \A p \in Producers : ~Alive(p)

(* No replay begins without agreement of the cores, no producer that was   *)
(* not released seals anything, no pair succeeds with one part missing.    *)
Promise == INSTANCE AgreedRelease WITH
    announced <- core,
    working   <- candidates,
    made      <- table,
    verdict   <- CASE pc = "success" -> "success"
                   [] pc = "raised"  -> "failure"
                   [] OTHER          -> "open"

KeepsPromise == Promise!Spec

(* The preflight cannot be waited for without end.                         *)
PreflightEnds == <>(released \/ pc \in Finished)

(* A signal or a failed producer ends the pair although the other producer *)
(* hangs and SIGTERM is ignored.                                           *)
TroubleEnds ==
    cancelled \/ (\E p \in Producers : leader[p] = "failed") ~> pc \in Finished

=============================================================================
