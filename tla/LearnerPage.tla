---------------------------- MODULE LearnerPage ----------------------------
(***************************************************************************)
(* The participant's page (tools/m2/learner_web/ui.js) around the viewer's *)
(* runner, the files it downloads, and the owner's review of a file        *)
(* (tools/m2/learner_session.py).  Event handlers run to completion, but   *)
(* a restart awaits the digest of the packet: other clicks come between.   *)
(***************************************************************************)
EXTENDS LearnerCalls

CONSTANTS MaxAttempts, MaxExamples,         \* bounds of the model; the page has none
          ExamplesReviewed, AttemptsReviewed, \* the caps of the review
          Nothing

VARIABLES packet, state, log,           \* the packet, the viewer's state and its events
          commands, commitments,        \* what the viewer keeps for export
          attempt, dirty, busy,         \* the page
          example,                      \* the open example player, or Nothing
          examples_seen,
          exported                      \* the last file downloaded, or Nothing

viewer == <<state, log, commands, commitments>>
pageVars == <<packet, viewer, attempt, dirty, busy, example, examples_seen, exported>>

Advanced == [tag |-> "advance", region |-> 0]

MutantPushed(lesson, buffer, region) ==            \* forgets to sort
    Append(buffer, region)

(* Array.prototype.sort by number: the same places in another order.       *)
SortedBuffer(buffer) ==
    LET places == DOMAIN buffer
        order  == CHOOSE order \in [places -> places] :
                     /\ \A place \in places : \E i \in places : order[i] = place
                     /\ \A i, j \in places : i < j => buffer[order[i]] <= buffer[order[j]]
    IN  [i \in places |-> buffer[order[i]]]

(* viewer.js and the example player: push, then sort unless a sequence.    *)
Pushed(lesson, buffer, region) ==
    IF lesson.response_shape = "sequence" THEN Append(buffer, region)
    ELSE SortedBuffer(Append(buffer, region))

CommitmentOf(s) ==
    [node_id            |-> s.current_node_id,
     committed_response |-> s.committed_response,
     outcome            |-> s.outcome,
     feedback_ref       |-> s.feedback_ref,
     next_node_ref      |-> s.next_node_ref]

(* runner.session(attempt) with the examples the page adds to it.          *)
Session ==
    [attempt |-> attempt, commands |-> commands, events |-> log,
     commitments |-> commitments, final_state |-> state, examples_seen |-> examples_seen]

-----------------------------------------------------------------------------
PageInit ==
    /\ packet \in {p \in Candidates : Accepted(p)}
    /\ state = Opened(packet)
    /\ log = <<>> /\ commands = <<>> /\ commitments = <<>>
    /\ attempt = 1 /\ dirty = FALSE /\ busy = FALSE
    /\ example = Nothing /\ examples_seen = <<>> /\ exported = Nothing

(* A region, Reset or Commit button.                                       *)
Click(action) ==
    /\ ~busy
    /\ action \in Available(packet, state)
    /\ state' = PerformWith(packet, state, action,
                            Pushed(Lesson(packet, state), state.buffer, action.region))
    /\ log' = Append(log, [node_id |-> state.current_node_id,
                           action  |-> action,
                           result  |-> ResultOf(action)])
    /\ commands' = Append(commands, action)
    /\ commitments' = IF action = CommitAction THEN Append(commitments, CommitmentOf(state'))
                      ELSE commitments
    /\ dirty' = TRUE
    /\ UNCHANGED <<packet, attempt, busy, example, examples_seen, exported>>

ClickAction == \E action \in CanonicalActions : Click(action)

MutantClickNext ==                                 \* a page turn is not unsaved work
    /\ ~busy
    /\ state.phase = "committed" /\ state.next_node_ref # NoRef
    /\ state' = Move(packet, state)
    /\ commands' = Append(commands, Advanced)
    /\ example' = Nothing
    /\ UNCHANGED <<packet, log, commitments, attempt, dirty, busy, examples_seen, exported>>

ClickNext ==
    /\ ~busy
    /\ state.phase = "committed" /\ state.next_node_ref # NoRef
    /\ state' = Move(packet, state)
    /\ commands' = Append(commands, Advanced)
    /\ dirty' = TRUE
    /\ example' = Nothing
    /\ UNCHANGED <<packet, log, commitments, attempt, busy, examples_seen, exported>>

-----------------------------------------------------------------------------
(* The example player.  Its buttons do not look at busy.                   *)

Rewound(node) ==
    [node |-> node, index |-> 0, selected |-> <<>>, committed |-> <<>>, saved |-> FALSE]

TraceOf(node) == packet.lesson[node].passive_trace.actions

OpenExample ==
    /\ Lesson(packet, state).passive_trace # NoTrace
    /\ example' = Rewound(state.current_node_id)
    /\ UNCHANGED <<packet, viewer, attempt, dirty, busy, examples_seen, exported>>

ReplayExample ==
    /\ example # Nothing
    /\ example' = Rewound(example.node)
    /\ UNCHANGED <<packet, viewer, attempt, dirty, busy, examples_seen, exported>>

CloseExample ==
    /\ example # Nothing
    /\ example' = Nothing
    /\ UNCHANGED <<packet, viewer, attempt, dirty, busy, examples_seen, exported>>

Shown(player, action) ==
    LET lesson == packet.lesson[player.node]
    IN  CASE action.tag = "select" ->
               [player EXCEPT !.selected = Pushed(lesson, @, action.region)]
          [] action.tag = "reset" -> [player EXCEPT !.selected = <<>>]
          [] action.tag = "commit" ->
               [player EXCEPT !.committed = player.selected, !.selected = <<>>]

StepExample ==
    /\ example # Nothing
    /\ example.index < Len(TraceOf(example.node))
    /\ LET next   == example.index + 1
           stepped == [Shown(example, TraceOf(example.node)[next]) EXCEPT !.index = next]
           ends   == next = Len(TraceOf(example.node)) /\ ~example.saved
       IN  /\ ends => Len(examples_seen) < MaxExamples
           /\ example' = IF ends THEN [stepped EXCEPT !.saved = TRUE] ELSE stepped
           /\ examples_seen' = IF ends THEN Append(examples_seen, example.node) ELSE examples_seen
           /\ dirty' = (dirty \/ ends)
    /\ UNCHANGED <<packet, viewer, attempt, busy, exported>>

-----------------------------------------------------------------------------
Export ==
    /\ exported' = Session
    /\ dirty' = FALSE
    /\ UNCHANGED <<packet, viewer, attempt, busy, example, examples_seen>>

(* Export & restart, up to the await.                                      *)
Restart ==
    /\ ~busy
    /\ attempt < MaxAttempts
    /\ exported' = Session
    /\ dirty' = FALSE
    /\ busy' = TRUE
    /\ UNCHANGED <<packet, viewer, attempt, example, examples_seen>>

(* The new runner is there: the page turns to the next attempt.            *)
RestartDone ==
    /\ busy
    /\ state' = Opened(packet)
    /\ log' = <<>> /\ commands' = <<>> /\ commitments' = <<>>
    /\ attempt' = attempt + 1
    /\ examples_seen' = <<>>
    /\ example' = Nothing
    /\ dirty' = FALSE
    /\ busy' = FALSE
    /\ UNCHANGED <<packet, exported>>

(* createRunner threw: the old attempt goes on.                            *)
RestartFailed ==
    /\ busy
    /\ busy' = FALSE
    /\ UNCHANGED <<packet, viewer, attempt, dirty, example, examples_seen, exported>>

PageNext == \/ ClickAction \/ ClickNext
            \/ OpenExample \/ ReplayExample \/ CloseExample \/ StepExample
            \/ Export \/ Restart \/ RestartDone \/ RestartFailed

PageSpec == PageInit /\ [][PageNext]_pageVars

-----------------------------------------------------------------------------
(* The owner's review: the commands are performed again by a generic       *)
(* runner over the content module, and every claim of the file compared.   *)

GenericCommand(p, g, command) ==
    IF command = Advanced
    THEN IF CanAdvance(g.run) THEN [g EXCEPT !.run = Advance(p, @)]
                              ELSE [g EXCEPT !.refused = TRUE]
    ELSE IF command \notin Available(p, g.run) THEN [g EXCEPT !.refused = TRUE]
    ELSE LET step == Transition(p, g.run, AsRaw(command))
         IN  [g EXCEPT !.run = step.state,
                       !.events = Append(@, [node_id |-> g.run.current_node_id,
                                             action  |-> NormalizeAction(AsRaw(command)),
                                             result  |-> step.result]),
                       !.commits = IF command = CommitAction
                                   THEN Append(@, CommitmentOf(step.state)) ELSE @]

Reperformed(p, script) ==
    FoldLeft(LAMBDA g, command : IF g.refused THEN g ELSE GenericCommand(p, g, command),
             [run |-> NewState(p), events |-> <<>>, commits |-> <<>>, refused |-> FALSE], script)

WithinCaps(session) ==
    /\ session.attempt \in 1 .. AttemptsReviewed
    /\ Len(session.examples_seen) <= ExamplesReviewed

Reviewed(p, session) ==
    LET g == Reperformed(p, session.commands)
    IN  /\ WithinCaps(session)
        /\ Len(session.commands) <= 2 * p.global_event_budget
        /\ ~g.refused
        /\ session.events = g.events
        /\ session.commitments = g.commits
        /\ session.final_state = g.run
        /\ \A i \in DOMAIN session.examples_seen :
              p.lesson[session.examples_seen[i]].passive_trace # NoTrace

(* The owner's review accepts a downloaded file exactly when it keeps the  *)
(* two caps of the review: the viewer and the content module agree on      *)
(* every state, event and commitment, no attempt issues more commands than *)
(* the review allows, and every example reported is one.  The page keeps   *)
(* neither cap: Replay makes an example count again, a restart counts the  *)
(* attempts on (ui.js:231, 248; learner_session.py:37, 82).                *)
ExportsReviewable ==
    exported # Nothing => (Reviewed(packet, exported) <=> WithinCaps(exported))

(* The page may close without a warning only when everything the attempt   *)
(* recorded, commands and watched examples, is in a downloaded file.       *)
UnsavedWorkWarned ==
    ~dirty => \/ exported = Session
              \/ commands = <<>> /\ examples_seen = <<>>

=============================================================================
