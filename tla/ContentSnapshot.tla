-------------------------- MODULE ContentSnapshot --------------------------
(***************************************************************************)
(* Run-state bytes: encode_run_state and validate_run_state of content.py. *)
(* A host may write a run down at any moment, stop, and later rebuild it   *)
(* from the bytes.  The bytes hold neither the feedback nor the next edge; *)
(* the validator checks the fields, replays the event log from a new run   *)
(* and keeps the replayed state, or its one permitted advance, that equals *)
(* the fields.  Version, root id and byte framing are left out.            *)
(***************************************************************************)
EXTENDS ContentRun

CONSTANTS NothingSaved,
          Persisted,   \* the streams whose host writes its runs down
          MaxResumes   \* bound on how often it starts again

ASSUME MaxResumesIsNat == MaxResumes \in Nat

VARIABLES saved,       \* the snapshot on the host's disk, or NothingSaved
          resumes

snapshotVars == <<vars, saved, resumes>>

Encode(s, log) ==
    [current_node_id    |-> s.current_node_id,
     global_remaining   |-> s.global_remaining,
     local_remaining    |-> s.local_remaining,
     phase              |-> s.phase,
     outcome            |-> s.outcome,
     buffer             |-> s.buffer,
     committed_response |-> s.committed_response,
     events             |-> log]

-----------------------------------------------------------------------------
(* The checks on single fields and between fields, before any replay.      *)

PhaseFitsBudgets(snap) ==
    /\ snap.phase = "active" => snap.global_remaining # 0 /\ snap.local_remaining # 0
    /\ snap.phase = "exhausted" => snap.global_remaining = 0 \/ snap.local_remaining = 0

ResponseFits(lesson, snap) ==
    IF snap.phase = "committed"
    THEN /\ snap.outcome # "none"
         /\ snap.buffer = <<>>
         /\ snap.committed_response.shape = lesson.response_shape
         /\ LegalBuffer(lesson, snap.committed_response.region_ids)
         /\ snap.outcome = Verdict(lesson, snap.committed_response).outcome
    ELSE /\ snap.outcome = "none"
         /\ LegalBuffer(lesson, snap.buffer)
         /\ snap.committed_response = NoResponse

FieldsValid(p, snap) ==
    /\ snap.current_node_id \in Nodes(p)
    /\ snap.global_remaining <= p.global_event_budget
    /\ snap.local_remaining <= p.lesson[snap.current_node_id].item_event_budget
    /\ snap.local_remaining <= snap.global_remaining
    /\ PhaseFitsBudgets(snap)
    /\ ResponseFits(p.lesson[snap.current_node_id], snap)
    /\ Len(snap.events) <= p.global_event_budget

-----------------------------------------------------------------------------
(* The replay.  Before an event a committed run is advanced once; an event *)
(* must stand on the lesson reached and give the result it was logged with.*)

Impossible == [phase |-> "impossible"]

CanonicalEvent(event) ==
    /\ event.action.tag \in CallableActions \cup {"invalid"}
    /\ event.action.tag \in {"reset", "commit", "invalid"} => event.action.region = 0

ReplayEvent(p, s, event) ==
    LET at   == IF CanAdvance(s) THEN Advance(p, s) ELSE s
        step == Consumed(p, at, event.action)
    IN  IF /\ at.phase = "active"
           /\ event.node_id = at.current_node_id
           /\ CanonicalEvent(event)
           /\ step.result = event.result
        THEN step.state ELSE Impossible

Replay(p, log) ==
    FoldLeft(LAMBDA s, event : IF s = Impossible THEN s ELSE ReplayEvent(p, s, event),
             NewState(p), log)

MutantReplayEnds(p, log) ==                        \* forgets the advance after the last event
    LET end == Replay(p, log)
    IN  IF end = Impossible THEN {} ELSE {end}

(* The runs the log may stand for: as replayed, or moved on by the host.   *)
ReplayEnds(p, log) ==
    LET end == Replay(p, log)
    IN  IF end = Impossible THEN {}
        ELSE IF CanAdvance(end) THEN {end, Advance(p, end)} ELSE {end}

MutantRestore(p, snap) ==                          \* trusts the written local budget
    IF FieldsValid(p, snap)
    THEN {s \in ReplayEnds(p, snap.events) :
             Encode([s EXCEPT !.local_remaining = snap.local_remaining], snap.events) = snap}
    ELSE {}

(* validate_run_state: the runs it may return, none when it rejects.       *)
Restore(p, snap) ==
    IF FieldsValid(p, snap)
    THEN {s \in ReplayEnds(p, snap.events) : Encode(s, snap.events) = snap}
    ELSE {}

-----------------------------------------------------------------------------
SnapshotInit == Init /\ saved = NothingSaved /\ resumes = 0

Running == Next /\ UNCHANGED <<saved, resumes>>

Save == /\ projection \in Persisted
        /\ saved' = Encode(run, events)
        /\ UNCHANGED <<vars, resumes>>

(* The process is gone; a new one resumes from what was last written.      *)
Resume == /\ saved # NothingSaved
          /\ resumes < MaxResumes
          /\ resumes' = resumes + 1
          /\ run' \in Restore(projection, saved)
          /\ events' = saved.events
          /\ UNCHANGED <<projection, on_success_path, saved>>

SnapshotNext == Running \/ Save \/ Resume

(* As in LiveSpec the host keeps calling; how it stops and starts again is *)
(* up to it.                                                               *)
SnapshotSpec == SnapshotInit /\ [][SnapshotNext]_snapshotVars /\ WF_snapshotVars(Running)

-----------------------------------------------------------------------------
(* Whatever moment a snapshot is taken at, before or after an advance, on  *)
(* the last event of a budget, with a half-made answer: the validator      *)
(* accepts it and rebuilds exactly that run, feedback and edge included.   *)
SnapshotFaithful == Restore(projection, Encode(run, events)) = {run}

(* The same field with another value of its kind.                          *)
Damaged(snap) ==
    {[snap EXCEPT !.current_node_id = n] : n \in Lessons}
    \cup {[snap EXCEPT !.global_remaining = g] : g \in 0 .. projection.global_event_budget}
    \cup {[snap EXCEPT !.local_remaining = l] : l \in 0 .. projection.global_event_budget}
    \cup {[snap EXCEPT !.phase = f] : f \in Phases}
    \cup {[snap EXCEPT !.outcome = o] : o \in Outcomes}
    \cup {[snap EXCEPT !.buffer = b] : b \in {<<>>} \cup {<<r>> : r \in Regions}}
    \cup {[snap EXCEPT !.committed_response.region_ids = b] :
             b \in {<<>>} \cup {<<r>> : r \in Regions}}
    \cup {[snap EXCEPT !.events = SubSeq(@, 1, n)] : n \in 0 .. Len(snap.events)}
    \cup {[snap EXCEPT !.events = SubSeq(@, 1, n) \o SubSeq(@, n, Len(@))] :
             n \in 1 .. Len(snap.events)}

(* A snapshot in which one field was changed, or whose log lost its tail   *)
(* or repeats an event, is never taken for a run.                          *)
DamageDetected ==
    \A snap \in Damaged(Encode(run, events)) \ {Encode(run, events)} :
        Restore(projection, snap) = {}
=============================================================================
