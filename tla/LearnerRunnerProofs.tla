------------------------- MODULE LearnerRunnerProofs -------------------------
(***************************************************************************)
(* The standalone runner implements the content interpreter, for every set *)
(* of packaged streams: call by call it makes the step the interpreter     *)
(* would make, although it validates nothing and judges by region ids.     *)
(*                                                                         *)
(* The page's viewer, which also sorts where the interpreter inserts, does *)
(* so too, and the owner's review accepts every file it downloads that     *)
(* keeps the review's two caps.                                            *)
(*                                                                         *)
(* The interpreter's invariants come from ContentRunProofs, instantiated   *)
(* with the calls that a participant can make.  Its theorems then speak of *)
(* the instance's operators, and the first section says that these are the *)
(* operators the runner itself is written with.                            *)
(***************************************************************************)
EXTENDS LearnerRunner, LearnerPage, FiniteSetTheorems, TLAPS

(* A participant's runner writes no snapshot: nothing is ever saved.       *)
Facts == INSTANCE ContentRunProofs
           WITH RawActions <- CanonicalRaw, Persisted <- {}, NothingSaved <- {},
                MaxResumes <- 0, saved <- {}, resumes <- 0

-----------------------------------------------------------------------------
(* The interpreter has the same definitions in this module and in both     *)
(* instances.                                                              *)

LEMMA SameTransition ==
    ASSUME NEW p, NEW s, NEW raw
    PROVE  /\ Facts!Transition(p, s, raw) = Transition(p, s, raw)
           /\ Content!Transition(p, s, raw) = Transition(p, s, raw)
           /\ Facts!NormalizeAction(raw) = NormalizeAction(raw)
           /\ Content!NormalizeAction(raw) = NormalizeAction(raw)
  BY DEF Transition, Facts!Transition, Content!Transition, Consumed, Facts!Consumed,
         Content!Consumed, NormalizeAction, Facts!NormalizeAction, Content!NormalizeAction,
         CallableActions, Facts!CallableActions, Content!CallableActions, InvalidAction,
         Facts!InvalidAction, Content!InvalidAction, SelectResult, Facts!SelectResult,
         Content!SelectResult, Lesson, Facts!Lesson, Content!Lesson, Occurs, Facts!Occurs,
         Content!Occurs, MayRepeat, Facts!MayRepeat, Content!MayRepeat, Work, Facts!Work,
         Content!Work, Spend, Facts!Spend, Content!Spend, Selected, Facts!Selected,
         Content!Selected, Insort, Facts!Insort, Content!Insort, BisectLeft, Facts!BisectLeft,
         Content!BisectLeft, Commit, Facts!Commit, Content!Commit, Response, Facts!Response,
         Content!Response, Verdict, Facts!Verdict, Content!Verdict, MatchingCases,
         Facts!MatchingCases, Content!MatchingCases

LEMMA SameReplay ==
    ASSUME NEW p, NEW s, NEW actions
    PROVE  /\ Facts!Replayed(p, s, actions) = Replayed(p, s, actions)
           /\ Content!Replayed(p, s, actions) = Replayed(p, s, actions)
  BY DEF Replayed, Facts!Replayed, Content!Replayed, AsRaw, Facts!AsRaw, Content!AsRaw,
         FoldLeft, Facts!FoldLeft, Content!FoldLeft, MapThenFoldSet, Facts!MapThenFoldSet,
         Content!MapThenFoldSet, Max, Facts!Max, Content!Max, Transition, Facts!Transition,
         Content!Transition, Consumed, Facts!Consumed, Content!Consumed, NormalizeAction,
         Facts!NormalizeAction, Content!NormalizeAction, CallableActions, Facts!CallableActions,
         Content!CallableActions, InvalidAction, Facts!InvalidAction, Content!InvalidAction,
         SelectResult, Facts!SelectResult, Content!SelectResult, Lesson, Facts!Lesson,
         Content!Lesson, Occurs, Facts!Occurs, Content!Occurs, MayRepeat, Facts!MayRepeat,
         Content!MayRepeat, Work, Facts!Work, Content!Work, Spend, Facts!Spend, Content!Spend,
         Selected, Facts!Selected, Content!Selected, Insort, Facts!Insort, Content!Insort,
         BisectLeft, Facts!BisectLeft, Content!BisectLeft, Commit, Facts!Commit, Content!Commit,
         Response, Facts!Response, Content!Response, Verdict, Facts!Verdict, Content!Verdict,
         MatchingCases, Facts!MatchingCases, Content!MatchingCases

LEMMA SameTraces ==
    ASSUME NEW p, NEW n
    PROVE  /\ Facts!TraceReplays(p, n) = TraceReplays(p, n)
           /\ Content!TraceReplays(p, n) = TraceReplays(p, n)
  <1>1. /\ Facts!PassiveState(p, n) = PassiveState(p, n)
        /\ Content!PassiveState(p, n) = PassiveState(p, n)
    BY DEF PassiveState, Facts!PassiveState, Content!PassiveState, Fresh, Facts!Fresh,
           Content!Fresh, NoRef, Facts!NoRef, Content!NoRef, NoFeedback, Facts!NoFeedback,
           Content!NoFeedback, NoResponse, Facts!NoResponse, Content!NoResponse
  <1>2. /\ Facts!Replayed(p, Facts!PassiveState(p, n), p.lesson[n].passive_trace.actions) =
              Replayed(p, PassiveState(p, n), p.lesson[n].passive_trace.actions)
        /\ Content!Replayed(p, Content!PassiveState(p, n), p.lesson[n].passive_trace.actions) =
              Replayed(p, PassiveState(p, n), p.lesson[n].passive_trace.actions)
    BY <1>1, SameReplay
  <1>3. \A action : /\ Facts!ExpectedResult(action) = ExpectedResult(action)
                    /\ Content!ExpectedResult(action) = ExpectedResult(action)
    BY DEF ExpectedResult, Facts!ExpectedResult, Content!ExpectedResult
  <1>4. Facts!TraceReplays(p, n) = TraceReplays(p, n)
    BY <1>2, <1>3 DEF TraceReplays, Facts!TraceReplays
  <1>5. Content!TraceReplays(p, n) = TraceReplays(p, n)
    BY <1>2, <1>3 DEF TraceReplays, Content!TraceReplays
  <1> QED
    BY <1>4, <1>5

LEMMA SameStages ==
    ASSUME NEW p
    PROVE  /\ Facts!Nodes(p) = Nodes(p) /\ Content!Nodes(p) = Nodes(p)
           /\ Facts!Stage6(p) = Stage6(p) /\ Content!Stage6(p) = Stage6(p)
           /\ Facts!Stage8(p) = Stage8(p) /\ Content!Stage8(p) = Stage8(p)
           /\ \A n : /\ Facts!Stage7c(p, n) = Stage7c(p, n)
                     /\ Content!Stage7c(p, n) = Stage7c(p, n)
  <1> USE DEF Nodes, Facts!Nodes, Content!Nodes, ControlTargets, Facts!ControlTargets,
          Content!ControlTargets, SuccessTargets, Facts!SuccessTargets, Content!SuccessTargets,
          Packed, Facts!Packed, Content!Packed, NoRef, Facts!NoRef, Content!NoRef, NoTrace,
          Facts!NoTrace, Content!NoTrace, NoFeedback, Facts!NoFeedback, Content!NoFeedback,
          NoResponse, Facts!NoResponse, Content!NoResponse
  <1>1. Facts!Nodes(p) = Nodes(p) /\ Content!Nodes(p) = Nodes(p)
    OBVIOUS
  <1>2. Facts!Stage6(p) = Stage6(p) /\ Content!Stage6(p) = Stage6(p)
    BY DEF Stage6, Facts!Stage6, Content!Stage6, ControlEdges, Facts!ControlEdges,
           Content!ControlEdges, DefaultEdges, Facts!DefaultEdges, Content!DefaultEdges,
           Reached, Facts!Reached, Content!Reached, Cardinality, Facts!Cardinality,
           Content!Cardinality
  <1>3. Facts!Stage8(p) = Stage8(p) /\ Content!Stage8(p) = Stage8(p)
    BY DEF Stage8, Facts!Stage8, Content!Stage8, Acyclic, Facts!Acyclic, Content!Acyclic,
           LocalBounds, Facts!LocalBounds, Content!LocalBounds, SuccessPathsFit,
           Facts!SuccessPathsFit, Content!SuccessPathsFit, CostFunctions, Facts!CostFunctions,
           Content!CostFunctions, AreCosts, Facts!AreCosts, Content!AreCosts, IsGreatest,
           Facts!IsGreatest, Content!IsGreatest, LesserOf, Facts!LesserOf, Content!LesserOf
  <1>4. ASSUME NEW n
        PROVE  /\ Facts!Stage7c(p, n) = Stage7c(p, n)
               /\ Content!Stage7c(p, n) = Stage7c(p, n)
    BY <1>4, SameTraces DEF Stage7c, Facts!Stage7c, Content!Stage7c
  <1> QED
    BY <1>1, <1>2, <1>3, <1>4

LEMMA SameLessons ==
    ASSUME NEW lesson
    PROVE  /\ Facts!CanonicalCases(lesson) = CanonicalCases(lesson)
           /\ Content!CanonicalCases(lesson) = CanonicalCases(lesson)
           /\ Facts!Stage7a(lesson) = Stage7a(lesson)
           /\ Content!Stage7a(lesson) = Stage7a(lesson)
           /\ Facts!Stage7b(lesson) = Stage7b(lesson)
           /\ Content!Stage7b(lesson) = Stage7b(lesson)
  BY DEF CanonicalCases, Facts!CanonicalCases, Content!CanonicalCases, Ascending,
         Facts!Ascending, Content!Ascending, Stage7a, Facts!Stage7a, Content!Stage7a,
         ResponseSchema, Facts!ResponseSchema, Content!ResponseSchema, AnswerData,
         Facts!AnswerData, Content!AnswerData, Stage7b, Facts!Stage7b, Content!Stage7b,
         FeedbackOf, Facts!FeedbackOf, Content!FeedbackOf, DefaultCode, Facts!DefaultCode,
         Content!DefaultCode, Packed, Facts!Packed, Content!Packed, NoTrace, Facts!NoTrace,
         Content!NoTrace, NoFeedback, Facts!NoFeedback, Content!NoFeedback, NoRef, Facts!NoRef,
         Content!NoRef

LEMMA SameAccepted ==
    ASSUME NEW p
    PROVE  /\ Facts!Accepted(p) <=> Accepted(p)
           /\ Content!Accepted(p) <=> Accepted(p)
           /\ Facts!IsProjection(p) <=> IsProjection(p)
  <1>1. /\ Facts!Accepted(p) <=> Accepted(p)
        /\ Content!Accepted(p) <=> Accepted(p)
    BY SameStages, SameLessons DEF Accepted, Facts!Accepted, Content!Accepted
  <1>2. Facts!IsProjection(p) <=> IsProjection(p)
    BY DEF IsProjection, Facts!IsProjection, Content!IsProjection, Nodes, Facts!Nodes,
           Content!Nodes, LessonNode, Facts!LessonNode, Content!LessonNode, Roles, Facts!Roles,
           Content!Roles, Shapes, Facts!Shapes, Content!Shapes, Modes, Facts!Modes,
           Content!Modes, Trace, Facts!Trace, Content!Trace, NoTrace, Facts!NoTrace,
           Content!NoTrace, Case, Facts!Case, Content!Case, Classes, Facts!Classes,
           Content!Classes, Feedback, Facts!Feedback, Content!Feedback, FeedbackCodes,
           Facts!FeedbackCodes, Content!FeedbackCodes, NoFeedback, Facts!NoFeedback,
           Content!NoFeedback, Targets, Facts!Targets, Content!Targets, CallableActions,
           Facts!CallableActions, Content!CallableActions, Outcomes, Facts!Outcomes,
           Content!Outcomes, NoRef, Facts!NoRef, Content!NoRef
  <1> QED
    BY <1>1, <1>2

-----------------------------------------------------------------------------
(* Calls.                                                                  *)

LEMMA CanonicalCalls ==
    /\ \A raw \in CanonicalRaw : raw.region \in Regions \cup {0}
    /\ \A action \in CanonicalActions :
          AsRaw(action) \in CanonicalRaw /\ NormalizeAction(AsRaw(action)) = action
  <1>1. ASSUME NEW action \in CanonicalActions
        PROVE  /\ action.tag \in CallableActions /\ action.region \in Regions \cup {0}
               /\ action.tag # "select" => action.region = 0
               /\ action = [tag |-> action.tag, region |-> action.region]
    BY DEF CanonicalActions, SelectAction, ResetAction, CommitAction, CallableActions
  <1>2. \A raw \in CanonicalRaw : raw.region \in Regions \cup {0}
    BY <1>1 DEF CanonicalRaw, AsRaw
  <1>3. ASSUME NEW action \in CanonicalActions
        PROVE  NormalizeAction(AsRaw(action)) = action
    BY <1>1 DEF NormalizeAction, AsRaw
  <1> QED
    BY <1>2, <1>3 DEF CanonicalRaw

(* Between commits a run shows nothing.                                    *)
Blank(s) == /\ s.outcome = "none" /\ s.committed_response = NoResponse
            /\ s.feedback_ref = NoFeedback /\ s.next_node_ref = NoRef

(* The runner's judgement by region ids is the interpreter's by responses: *)
(* the response shape is the lesson's on both sides.                       *)
LEMMA JudgedIsVerdict ==
    ASSUME NEW lesson, NEW buffer
    PROVE  LET verdict == Verdict(lesson, Response(lesson, buffer))
               judged  == Judged(lesson, buffer)
           IN  /\ verdict.outcome = judged.outcome
               /\ verdict.feedback_ref = judged.feedback_ref
               /\ verdict.next_node_ref = judged.next_node_ref
  <1>1. MatchingCases(lesson, Response(lesson, buffer)) = ChosenCases(lesson, buffer)
    BY DEF MatchingCases, ChosenCases, Response
  <1> QED
    BY <1>1 DEF Verdict, Judged

(* An action on the menu: the runner leaves the state, and records the     *)
(* result, of the interpreter's step.                                      *)
LEMMA PerformIsStep ==
    ASSUME NEW p, NEW s \in RunType, Lesson(p, s) \in LessonNode, Blank(s),
           NEW action \in CanonicalActions, action \in Available(p, s)
    PROVE  Transition(p, s, AsRaw(action))
               = [state |-> Perform(p, s, action), result |-> ResultOf(action)]
  <1> DEFINE lesson == Lesson(p, s)
             global == s.global_remaining - 1
             local  == s.local_remaining - 1
  <1>1. /\ s.phase = "active"
        /\ Transition(p, s, AsRaw(action)) = Consumed(p, s, action)
    BY CanonicalCalls DEF Available, Transition
  <1>2. ASSUME NEW buffer
        PROVE  Work(s, buffer) =
                 [current_node_id    |-> s.current_node_id,
                  global_remaining   |-> global,
                  local_remaining    |-> local,
                  phase              |-> IF global = 0 \/ local = 0 THEN "exhausted" ELSE "active",
                  outcome            |-> "none",
                  buffer             |-> buffer,
                  committed_response |-> NoResponse,
                  feedback_ref       |-> NoFeedback,
                  next_node_ref      |-> NoRef]
    <2> DEFINE spent == Spend(s)
               phase == IF global = 0 \/ local = 0 THEN "exhausted" ELSE "active"
    <2>1. spent = [s EXCEPT !.global_remaining = global, !.local_remaining = local]
      BY DEF Spend, RunType
    <2>2. spent.global_remaining = global /\ spent.local_remaining = local
      BY <2>1 DEF RunType
    <2>3. Work(s, buffer) = [spent EXCEPT !.buffer = buffer, !.phase = phase]
      BY <2>2 DEF Work
    <2> HIDE DEF phase, spent, global, local
    <2>4. Work(s, buffer) =
            [current_node_id |-> s.current_node_id, global_remaining |-> global,
             local_remaining |-> local, phase |-> phase, outcome |-> s.outcome,
             buffer |-> buffer, committed_response |-> s.committed_response,
             feedback_ref |-> s.feedback_ref, next_node_ref |-> s.next_node_ref]
      BY <2>1, <2>3 DEF RunType
    <2> QED
      BY <2>4 DEF Blank, phase
  <1>3. CASE action.tag = "select"
    <2>1. SelectResult(lesson, s.buffer, action.region) = "selected"
      <3>1. /\ action.region \in lesson.selectable
            /\ Len(s.buffer) < lesson.max_selections
            /\ MayRepeat(lesson) \/ ~Occurs(action.region, s.buffer)
        BY <1>1, <1>3 DEF Available, SelectAction, ResetAction, CommitAction
      <3>2. Len(s.buffer) \in Nat /\ lesson.max_selections \in Nat
        BY DEF RunType, LessonNode
      <3> QED
        BY <3>1, <3>2 DEF SelectResult
    <2> DEFINE selection == Selected(lesson, s.buffer, action.region)
    <2>2. Consumed(p, s, action) = [state |-> Work(s, selection), result |-> "selected"]
      BY <1>3, <2>1 DEF Consumed
    <2>3. Work(s, selection) = Perform(p, s, action)
      <3> HIDE DEF selection
      <3>1. Perform(p, s, action) = PerformWith(p, s, action, selection)
        BY DEF Perform, selection
      <3> QED
        BY <1>2, <1>3, <3>1 DEF PerformWith
    <2> QED
      BY <1>1, <1>3, <2>2, <2>3 DEF ResultOf
  <1>4. CASE action.tag = "reset"
    <2>1. Consumed(p, s, action) = [state |-> Work(s, <<>>), result |-> "reset"]
      BY <1>4 DEF Consumed
    <2>2. Work(s, <<>>) = Perform(p, s, action)
      BY <1>2, <1>4 DEF Perform, PerformWith
    <2> QED
      BY <1>1, <1>4, <2>1, <2>2 DEF ResultOf
  <1>5. CASE action.tag = "commit"
    <2> DEFINE response == Response(lesson, s.buffer)
               verdict == Verdict(lesson, response)
               judged == Judged(lesson, s.buffer)
    <2>1. Consumed(p, s, action) = [state |-> Commit(p, s), result |-> "committed"]
      BY <1>5 DEF Consumed
    <2>2. /\ verdict.outcome = judged.outcome
          /\ verdict.feedback_ref = judged.feedback_ref
          /\ verdict.next_node_ref = judged.next_node_ref
      BY JudgedIsVerdict
    <2>3. Commit(p, s) = [Spend(s) EXCEPT
                            !.phase = "committed", !.outcome = verdict.outcome, !.buffer = <<>>,
                            !.committed_response = response,
                            !.feedback_ref = verdict.feedback_ref,
                            !.next_node_ref = verdict.next_node_ref]
      BY DEF Commit
    <2>4. Perform(p, s, action) =
            [current_node_id    |-> s.current_node_id,
             global_remaining   |-> global,
             local_remaining    |-> local,
             phase              |-> "committed",
             outcome            |-> judged.outcome,
             buffer             |-> <<>>,
             committed_response |-> response,
             feedback_ref       |-> judged.feedback_ref,
             next_node_ref      |-> judged.next_node_ref]
      BY <1>5 DEF Perform, PerformWith
    <2>5. Commit(p, s) = Perform(p, s, action)
      <3> HIDE DEF response, verdict, judged
      <3> QED
        BY <2>2, <2>3, <2>4 DEF Spend, RunType
    <2> QED
      BY <1>1, <1>5, <2>1, <2>5 DEF ResultOf
  <1> QED
    BY <1>3, <1>4, <1>5 DEF CanonicalActions, SelectAction, ResetAction, CommitAction

(* An action missing from the menu is one the interpreter would refuse.    *)
LEMMA MissingIsRefused ==
    ASSUME NEW p, NEW s \in RunType, Lesson(p, s) \in LessonNode,
           NEW action \in CanonicalActions, action \notin Available(p, s)
    PROVE  Transition(p, s, AsRaw(action)).result # ResultOf(action)
  <1> DEFINE lesson == Lesson(p, s)
  <1>1. action.tag \in {"select", "reset", "commit"}
    BY DEF CanonicalActions, SelectAction, ResetAction, CommitAction
  <1>2. ResultOf(action) \in {"selected", "reset", "committed"}
    BY <1>1 DEF ResultOf
  <1>3. CASE s.phase # "active"
    <2>1. s.phase \in {"committed", "exhausted"}
      BY <1>3 DEF RunType, Phases
    <2> QED
      BY <1>2, <2>1 DEF Transition
  <1>4. CASE s.phase = "active"
    <2>1. Transition(p, s, AsRaw(action)) = Consumed(p, s, action)
      BY <1>4, CanonicalCalls DEF Transition
    <2>2. /\ action.tag = "select" /\ action = SelectAction(action.region)
      BY <1>4 DEF Available, CanonicalActions, SelectAction, ResetAction, CommitAction
    <2>3. \/ action.region \notin lesson.selectable
          \/ ~(Len(s.buffer) < lesson.max_selections)
          \/ ~MayRepeat(lesson) /\ Occurs(action.region, s.buffer)
      BY <1>4, <2>2 DEF Available
    <2>4. Len(s.buffer) \in Nat /\ lesson.max_selections \in Nat
      BY DEF RunType, LessonNode
    <2>5. SelectResult(lesson, s.buffer, action.region) # "selected"
      BY <2>3, <2>4 DEF SelectResult
    <2>6. Consumed(p, s, action).result = SelectResult(lesson, s.buffer, action.region)
      BY <2>2 DEF Consumed
    <2> QED
      BY <2>1, <2>2, <2>5, <2>6 DEF ResultOf
  <1> QED
    BY <1>3, <1>4

(* Moving on is advancing.                                                 *)
LEMMA MoveIsAdvance ==
    ASSUME NEW p, NEW s \in RunType
    PROVE  Move(p, s) = Advance(p, s)
  <1> DEFINE local == LesserOf(p.lesson[s.next_node_ref].item_event_budget, s.global_remaining)
  <1>1. CASE s.global_remaining = 0
    <2>1. Advance(p, s) = Fresh(s.next_node_ref, 0, 0, "exhausted")
      BY <1>1 DEF Advance
    <2>2. Move(p, s) = [s EXCEPT !.current_node_id = s.next_node_ref,
                                 !.local_remaining = 0, !.phase = "exhausted",
                                 !.outcome = "none", !.buffer = <<>>,
                                 !.committed_response = NoResponse,
                                 !.feedback_ref = NoFeedback, !.next_node_ref = NoRef]
      BY <1>1 DEF Move
    <2> QED
      BY <1>1, <2>1, <2>2 DEF Fresh, RunType
  <1>2. CASE s.global_remaining # 0
    <2>1. Advance(p, s) = Fresh(s.next_node_ref, s.global_remaining, local, "active")
      BY <1>2 DEF Advance
    <2>2. Move(p, s) = [s EXCEPT !.current_node_id = s.next_node_ref,
                                 !.local_remaining = local, !.phase = "active",
                                 !.outcome = "none", !.buffer = <<>>,
                                 !.committed_response = NoResponse,
                                 !.feedback_ref = NoFeedback, !.next_node_ref = NoRef]
      BY <1>2 DEF Move
    <2> HIDE DEF local
    <2> QED
      BY <2>1, <2>2 DEF Fresh, RunType
  <1> QED
    BY <1>1, <1>2

-----------------------------------------------------------------------------
(* The refinement.                                                         *)

(* What the interpreter knows of a run also holds of the participant's.    *)
IInv == Facts!IInv /\ Facts!Answers(projection, run)

(* The assumptions ContentRun makes of its host, for these calls.          *)
LEMMA Assumptions ==
    /\ \A p \in Candidates : Facts!IsProjection(p)
    /\ \A raw \in CanonicalRaw : raw.region \in Regions \cup {0}
  BY PackagesTyped, SameAccepted, CanonicalCalls

LEMMA SameFrame == Facts!NoRef = NoRef /\ Facts!vars = vars /\ Content!vars = vars
  BY DEF Facts!NoRef, NoRef, Facts!vars, vars, Content!vars

LEMMA SoundTyped ==
    ASSUME NEW p, NEW s, Facts!Sound(p, s)
    PROVE  s \in RunType
  BY DEF Facts!Sound, Facts!RunType, RunType, Facts!Phases, Phases, Facts!Outcomes, Outcomes,
         Facts!Shapes, Shapes, Facts!Feedback, Feedback, Facts!FeedbackCodes, FeedbackCodes,
         Facts!NoFeedback, NoFeedback, Facts!Targets, Targets, Facts!NoRef, NoRef

LEMMA RunsKnown ==
    ASSUME NEW p, IsProjection(p), NEW s, Facts!Sound(p, s), Facts!Answers(p, s)
    PROVE  /\ s \in RunType /\ Lesson(p, s) \in LessonNode
           /\ s.phase # "committed" => Blank(s)
  <1>1. s \in RunType
    BY SoundTyped
  <1>2. s.current_node_id \in Nodes(p)
    BY SameStages DEF Facts!Sound, Facts!Placed
  <1>3. Lesson(p, s) \in LessonNode
    BY <1>2 DEF IsProjection, Lesson
  <1>4. s.phase # "committed" => Blank(s)
    BY DEF Facts!Answers, Facts!Shows, Blank, NoResponse, Facts!NoResponse,
           NoFeedback, Facts!NoFeedback, NoRef, Facts!NoRef
  <1> QED
    BY <1>1, <1>3, <1>4

LEMMA RunKnown ==
    ASSUME IInv
    PROVE  /\ run \in RunType /\ Lesson(projection, run) \in LessonNode
           /\ run.phase # "committed" => Blank(run)
  BY RunsKnown, SameAccepted DEF IInv, Facts!IInv

LEMMA OpensTheSame == Init => Facts!Init
  <1> SUFFICES ASSUME Init PROVE Facts!Init
    OBVIOUS
  <1>1. projection \in {p \in Candidates : Facts!Accepted(p)}
    BY SameAccepted DEF Init
  <1>2. run = Facts!NewState(projection)
    BY DEF Init, Opened, Facts!NewState, Facts!Fresh, NoResponse, Facts!NoResponse,
           NoFeedback, Facts!NoFeedback, NoRef, Facts!NoRef
  <1> QED
    BY <1>1, <1>2 DEF Init, Facts!Init

(* Every call of the participant is a call of the interpreter's host.      *)
LEMMA StepsTheSame == IInv /\ [Next]_vars => [Facts!Next]_(Facts!vars)
  <1> SUFFICES ASSUME IInv, [Next]_vars PROVE [Facts!Next]_(Facts!vars)
    OBVIOUS
  <1>1. /\ run \in RunType /\ Lesson(projection, run) \in LessonNode
        /\ run.phase # "committed" => Blank(run)
    BY RunKnown
  <1>2. ASSUME NEW action \in CanonicalActions, Performed(action)
        PROVE  Facts!Next
    <2> DEFINE raw == AsRaw(action)
    <2>1. raw \in CanonicalRaw /\ Facts!NormalizeAction(raw) = action
      BY CanonicalCalls, SameTransition
    <2>2. run.phase = "active" /\ action \in Available(projection, run)
      BY <1>2 DEF Performed, Available
    <2>3. Facts!Transition(projection, run, raw)
            = [state |-> Perform(projection, run, action), result |-> ResultOf(action)]
      BY <1>1, <2>2, PerformIsStep, SameTransition
    <2> HIDE DEF raw
    <2>4. Facts!Step(raw)
      BY <1>2, <2>1, <2>2, <2>3 DEF Performed, Facts!Step
    <2>5. action.tag \in {"select", "reset", "commit"}
      BY DEF CanonicalActions, SelectAction, ResetAction, CommitAction
    <2> QED
      BY <2>1, <2>4, <2>5
         DEF Facts!Next, Facts!Select, Facts!Reset, Facts!CommitAnswer, Facts!StepTagged
  <1>3. CASE AdvanceRunner
    <2>1. Move(projection, run) = Facts!Advance(projection, run)
      BY <1>1, MoveIsAdvance
         DEF Advance, Facts!Advance, Fresh, Facts!Fresh, LesserOf, Facts!LesserOf,
             NoResponse, Facts!NoResponse, NoFeedback, Facts!NoFeedback, NoRef, Facts!NoRef
    <2>2. Facts!Packed(Facts!Lesson(projection, run)) = Packed(Lesson(projection, run))
      BY DEF Facts!Packed, Packed, Facts!Lesson, Lesson
    <2>3. Facts!AdvanceCommitted
      BY <1>3, <2>1, <2>2, SameFrame
         DEF AdvanceRunner, Facts!AdvanceCommitted, Facts!CanAdvance
    <2> QED
      BY <2>3 DEF Facts!Next
  <1>4. CASE UNCHANGED vars
    BY <1>4 DEF vars, Facts!vars
  <1> QED
    BY <1>2, <1>3, <1>4 DEF Next, PerformAction

LEMMA Inductive == Spec => []IInv
  <1>1. Init => IInv
    <2>1. Init => Facts!IInv
      BY OpensTheSame, Assumptions, RecordIds, Caps, SameFrame, Facts!InitIInv
    <2>2. Init => Facts!Answers(projection, run)
      BY OpensTheSame, Assumptions, RecordIds, Caps, SameFrame, Facts!InitAnswers
    <2> QED
      BY <2>1, <2>2 DEF IInv
  <1>2. IInv /\ [Next]_vars => IInv'
    <2> SUFFICES ASSUME IInv, [Next]_vars PROVE IInv'
      OBVIOUS
    <2>1. [Facts!Next]_(Facts!vars)
      BY StepsTheSame
    <2>2. Facts!IInv'
      BY <2>1, Assumptions, RecordIds, Caps, SameFrame, Facts!NextIInv DEF IInv
    <2>3. Facts!Answers(projection, run)'
      BY <2>1, Assumptions, RecordIds, Caps, SameFrame, Facts!NextAnswers DEF IInv
    <2> QED
      BY <2>2, <2>3 DEF IInv
  <1> QED
    BY <1>1, <1>2, PTL DEF Spec

(* The menu is exact in every state a participant can reach.               *)
THEOREM OffersHonest == Spec => []OffersAreHonest
  <1>1. IInv => OffersAreHonest
    <2> SUFFICES ASSUME IInv, NEW action \in CanonicalActions
                 PROVE  action \in Available(projection, run) <=>
                          Transition(projection, run, AsRaw(action)).result = ResultOf(action)
      BY DEF OffersAreHonest
    <2>1. /\ run \in RunType /\ Lesson(projection, run) \in LessonNode
          /\ run.phase # "committed" => Blank(run)
      BY RunKnown
    <2>2. action \in Available(projection, run) => run.phase = "active"
      BY DEF Available
    <2> QED
      BY <2>1, <2>2, PerformIsStep, MissingIsRefused
  <1> QED
    BY <1>1, Inductive, PTL

(* The two instances of ContentRun have the same behaviours.               *)
LEMMA SameHost ==
    /\ Facts!Init => Content!Init
    /\ [Facts!Next]_(Facts!vars) => [Content!Next]_(Content!vars)
  <1>1. Facts!Init => Content!Init
    BY SameAccepted
       DEF Facts!Init, Content!Init, Facts!NewState, Content!NewState, Facts!Fresh, Content!Fresh,
           Facts!NoResponse, Content!NoResponse, Facts!NoFeedback, Content!NoFeedback,
           Facts!NoRef, Content!NoRef
  <1>2. ASSUME NEW tag, Facts!StepTagged(tag) PROVE Content!StepTagged(tag)
    BY <1>2, SameTransition
       DEF Facts!StepTagged, Content!StepTagged, Facts!Step, Content!Step
  <1>3. ASSUME Facts!RefusedCall PROVE Content!RefusedCall
    BY <1>3, SameTransition DEF Facts!RefusedCall, Content!RefusedCall
  <1>4. ASSUME Facts!AdvanceCommitted PROVE Content!AdvanceCommitted
    BY <1>4
       DEF Facts!AdvanceCommitted, Content!AdvanceCommitted, Facts!CanAdvance, Content!CanAdvance,
           Facts!Advance, Content!Advance, Facts!Fresh, Content!Fresh,
           Facts!LesserOf, Content!LesserOf, Facts!Packed, Content!Packed,
           Facts!Lesson, Content!Lesson, Facts!NoResponse, Content!NoResponse,
           Facts!NoFeedback, Content!NoFeedback, Facts!NoRef, Content!NoRef
  <1>5. Facts!Next => Content!Next
    BY <1>2, <1>3, <1>4
       DEF Facts!Next, Content!Next, Facts!Select, Content!Select, Facts!Reset, Content!Reset,
           Facts!CommitAnswer, Content!CommitAnswer, Facts!InvalidCall, Content!InvalidCall
  <1> QED
    BY <1>1, <1>5 DEF Facts!vars, Content!vars

(* Whatever a participant does with the standalone runner, content.py      *)
(* would have done: same states, feedback, edges, budgets and events.      *)
THEOREM RunnerImplementsContent == Spec => ImplementsContent
  <1>1. Init => Content!Init
    BY OpensTheSame, SameHost
  <1>2. IInv /\ [Next]_vars => [Content!Next]_(Content!vars)
    BY StepsTheSame, SameHost
  <1> QED
    BY <1>1, <1>2, Inductive, PTL DEF Spec, ImplementsContent, Content!Spec

(* And so what is proved of the interpreter's runs is true of the          *)
(* participant's, which never validates anything: budgets, buffers,        *)
(* feedback and answerable cases.                                          *)
THEOREM ParticipantInherits ==
    Spec => [](/\ Facts!BudgetsCoherent
               /\ Facts!BufferLegal
               /\ Facts!FeedbackAgreesWithVerdict
               /\ Facts!EveryCaseAnswerable)
  <1>1. Spec => Facts!Spec
    <2>1. IInv /\ [Next]_vars => [Facts!Next]_(Facts!vars)
      BY StepsTheSame
    <2> QED
      BY <2>1, OpensTheSame, Inductive, PTL DEF Spec, Facts!Spec
  <1>2. Facts!Spec => []Facts!BudgetsCoherent
    BY Assumptions, RecordIds, Caps, SameFrame, Facts!BudgetsAgree
  <1>3. Facts!Spec => []Facts!BufferLegal
    BY Assumptions, RecordIds, Caps, SameFrame, Facts!BuffersLegal
  <1>4. Facts!Spec => []Facts!FeedbackAgreesWithVerdict
    BY Assumptions, RecordIds, Caps, SameFrame, Facts!FeedbackAgrees
  <1>5. Facts!Spec => []Facts!EveryCaseAnswerable
    BY Assumptions, RecordIds, Caps, SameFrame, Facts!CasesAnswerable
  <1> QED
    BY <1>1, <1>2, <1>3, <1>4, <1>5, PTL

-----------------------------------------------------------------------------
(* The browser's sort.                                                     *)

LEMMA SameInsertion ==
    ASSUME NEW buffer, NEW region
    PROVE  /\ Facts!BisectLeft(buffer, region) = BisectLeft(buffer, region)
           /\ Facts!Insort(buffer, region) = Insort(buffer, region)
           /\ Facts!Occurs(region, buffer) = Occurs(region, buffer)
           /\ Facts!Ascending(buffer) = Ascending(buffer)
  BY DEF Facts!BisectLeft, BisectLeft, Facts!Insort, Insort, Facts!Occurs, Occurs,
         Facts!Ascending, Ascending

LEMMA RegionsAreNat == Regions \subseteq Nat
  BY RecordIds

LEMMA PlacesOf ==
    ASSUME NEW buffer \in Seq(Regions), NEW region \in Regions,
           Ascending(buffer), ~Occurs(region, buffer)
    PROVE  LET at  == BisectLeft(buffer, region)
               new == Insort(buffer, region)
           IN  /\ at \in 0 .. Len(buffer)
               /\ new \in Seq(Regions) /\ Len(new) = Len(buffer) + 1
               /\ \A i \in 1 .. at : new[i] = buffer[i]
               /\ new[at + 1] = region
               /\ \A i \in at + 2 .. Len(buffer) + 1 : new[i] = buffer[i - 1]
               /\ Ascending(new)
  <1>1. Facts!Ascending(buffer) /\ ~Facts!Occurs(region, buffer)
    BY SameInsertion
  <1>2. Facts!Ascending(Facts!Insort(buffer, region))
    BY <1>1, Assumptions, RecordIds, Caps, SameFrame, Facts!InsortAscends
  <1>3. LET at  == Facts!BisectLeft(buffer, region)
            new == Facts!Insort(buffer, region)
        IN  /\ at \in 0 .. Len(buffer)
            /\ new \in Seq(Regions) /\ Len(new) = Len(buffer) + 1
            /\ \A i \in 1 .. at : new[i] = buffer[i]
            /\ new[at + 1] = region
            /\ \A i \in at + 2 .. Len(buffer) + 1 : new[i] = buffer[i - 1]
    BY <1>1, Assumptions, RecordIds, Caps, SameFrame, Facts!InsortPlaces
  <1> QED
    BY <1>2, <1>3, SameInsertion

(* Of two orders of the same members the ascending one is the only one.    *)
LEMMA OneOrder ==
    ASSUME NEW n \in Nat, NEW s \in [1 .. n -> Nat], NEW t \in [1 .. n -> Nat],
           \A i, j \in 1 .. n : i < j => s[i] <= s[j],
           \A i, j \in 1 .. n : i # j => s[i] # s[j],
           \A i, j \in 1 .. n : i < j => t[i] < t[j],
           \A i \in 1 .. n : \E k \in 1 .. n : s[k] = t[i],
           \A i \in 1 .. n : \E k \in 1 .. n : t[k] = s[i]
    PROVE  s = t
  <1> SUFFICES ASSUME s # t PROVE FALSE
    OBVIOUS
  <1> DEFINE Apart == {i \in 1 .. n : s[i] # t[i]}
  <1>1. Apart \subseteq Nat /\ Apart # {}
    <2>1. s = [i \in 1 .. n |-> s[i]] /\ t = [i \in 1 .. n |-> t[i]]
      OBVIOUS
    <2>2. \E i \in 1 .. n : s[i] # t[i]
      BY <2>1
    <2>3. Apart # {}
      BY <2>2
    <2>4. Apart \subseteq Nat
      OBVIOUS
    <2> QED
      BY <2>3, <2>4
  <1>2. PICK i \in Apart : \A k \in Apart : i <= k
    <2> HIDE DEF Apart
    <2> QED
      BY <1>1, Assumptions, RecordIds, Caps, SameFrame, Facts!LeastMember
  <1>3. /\ i \in 1 .. n /\ s[i] \in Nat /\ t[i] \in Nat /\ s[i] # t[i]
        /\ \A k \in 1 .. n : k < i => s[k] = t[k]
    BY <1>2
  <1>4. ASSUME s[i] < t[i] PROVE FALSE
    <2>1. PICK k \in 1 .. n : t[k] = s[i]
      BY <1>3
    <2>2. ~(i < k) /\ k # i
      <3>1. i < k => t[i] < t[k]
        BY <1>3, <2>1
      <3>2. t[k] < t[i]
        BY <1>4, <2>1
      <3>3. t[k] \in Nat /\ k \in Nat /\ i \in Nat
        BY <1>3, <2>1
      <3>4. ~(i < k)
        BY <1>3, <3>1, <3>2, <3>3
      <3>5. k # i
        BY <1>3, <3>2
      <3> QED
        BY <3>4, <3>5
    <2>3. k < i
      BY <1>3, <2>2
    <2>4. s[k] = s[i]
      BY <1>3, <2>1, <2>3
    <2> QED
      BY <1>3, <2>2, <2>4
  <1>5. ASSUME t[i] < s[i] PROVE FALSE
    <2>1. PICK k \in 1 .. n : s[k] = t[i]
      BY <1>3
    <2>2. ~(i < k) /\ k # i
      <3>1. i < k => s[i] <= s[k]
        BY <1>3, <2>1
      <3>2. s[k] < s[i]
        BY <1>5, <2>1
      <3>3. s[k] \in Nat /\ k \in Nat /\ i \in Nat
        BY <1>3, <2>1
      <3>4. ~(i < k)
        BY <1>3, <3>1, <3>2, <3>3
      <3>5. k # i
        BY <1>3, <3>2
      <3> QED
        BY <3>4, <3>5
    <2>3. k < i
      BY <1>3, <2>2
    <2>4. t[k] = t[i]
      BY <1>3, <2>1, <2>3
    <2> QED
      BY <1>3, <2>3, <2>4
  <1> QED
    BY <1>3, <1>4, <1>5

(* A new member pushed at the end and sorted is a new member inserted.     *)
LEMMA SortedIsInserted ==
    ASSUME NEW buffer \in Seq(Regions), NEW region \in Regions,
           Ascending(buffer), ~Occurs(region, buffer)
    PROVE  SortedBuffer(Append(buffer, region)) = Insort(buffer, region)
  <1> DEFINE n   == Len(buffer) + 1
             at  == BisectLeft(buffer, region)
             new == Insort(buffer, region)
             old == Append(buffer, region)
             Places == 1 .. n
             Sorts(order) ==
                 /\ \A place \in Places : \E i \in Places : order[i] = place
                 /\ \A i, j \in Places : i < j => old[order[i]] <= old[order[j]]
  <1>1. /\ at \in 0 .. Len(buffer)
        /\ new \in Seq(Regions) /\ Len(new) = Len(buffer) + 1
        /\ \A i \in 1 .. at : new[i] = buffer[i]
        /\ new[at + 1] = region
        /\ \A i \in at + 2 .. Len(buffer) + 1 : new[i] = buffer[i - 1]
        /\ Ascending(new)
    BY PlacesOf
  <1>2. /\ n \in Nat /\ Len(buffer) \in Nat /\ DOMAIN old = Places
        /\ \A i \in 1 .. Len(buffer) : old[i] = buffer[i]
        /\ old[n] = region /\ old \in Seq(Regions)
    OBVIOUS
  <1> HIDE DEF at, new, old
  <1>3. /\ new \in [Places -> Nat]
        /\ \A i, j \in Places : i < j => new[i] < new[j]
    <2>1. DOMAIN new = Places /\ \A i \in Places : new[i] \in Regions
      BY <1>1, <1>2
    <2>2. new \in [Places -> Nat]
      <3>1. new = [i \in Places |-> new[i]]
        BY <1>1, <2>1
      <3> QED
        BY <2>1, <3>1, RegionsAreNat
    <2> QED
      BY <1>1, <2>1, <2>2 DEF Ascending
  <1> DEFINE moved == [i \in Places |-> IF i <= at THEN i ELSE IF i = at + 1 THEN n ELSE i - 1]
  <1>4. moved \in [Places -> Places] /\ \A i \in Places : old[moved[i]] = new[i]
    <2>1. ASSUME NEW i \in Places
          PROVE  moved[i] \in Places /\ old[moved[i]] = new[i]
      <3>1. CASE i <= at
        <4>1. i \in 1 .. at /\ i \in 1 .. Len(buffer)
          BY <1>1, <1>2, <3>1
        <4> QED
          BY <1>1, <1>2, <3>1, <4>1
      <3>2. CASE i = at + 1
        <4>1. moved[i] = n
          BY <1>1, <1>2, <3>2
        <4> QED
          BY <1>1, <1>2, <3>2, <4>1
      <3>3. CASE i > at + 1
        <4>1. i \in at + 2 .. Len(buffer) + 1 /\ i - 1 \in 1 .. Len(buffer) /\ moved[i] = i - 1
          BY <1>1, <1>2, <3>3
        <4>2. i - 1 \in Places
          BY <1>2, <4>1
        <4> QED
          BY <1>1, <1>2, <4>1, <4>2
      <3> QED
        BY <1>1, <1>2, <3>1, <3>2, <3>3
    <2> HIDE DEF moved
    <2>2. DOMAIN moved = Places /\ moved = [i \in Places |-> moved[i]]
      BY DEF moved
    <2> QED
      BY <2>1, <2>2
  <1>5. \A place \in Places : \E i \in Places : moved[i] = place
    <2> SUFFICES ASSUME NEW place \in Places PROVE \E i \in Places : moved[i] = place
      OBVIOUS
    <2>1. CASE place <= at
      <3>1. moved[place] = place
        BY <2>1
      <3> QED
        BY <3>1
    <2>2. CASE place = n
      <3>1. at + 1 \in Places /\ moved[at + 1] = n
        BY <1>1, <1>2
      <3> QED
        BY <2>2, <3>1
    <2>3. CASE place > at /\ place # n
      <3>1. place + 1 \in Places /\ moved[place + 1] = place
        BY <1>1, <1>2, <2>3
      <3> QED
        BY <3>1
    <2> QED
      BY <1>1, <1>2, <2>1, <2>2, <2>3
  <1> HIDE DEF moved
  <1>6. Sorts(moved)
    <2>1. ASSUME NEW i \in Places, NEW j \in Places, i < j
          PROVE  old[moved[i]] <= old[moved[j]]
      <3>1. new[i] \in Nat /\ new[j] \in Nat /\ new[i] < new[j]
        BY <1>3, <2>1
      <3>2. old[moved[i]] = new[i] /\ old[moved[j]] = new[j]
        BY <1>4
      <3> QED
        BY <3>1, <3>2
    <2> QED
      BY <1>5, <2>1
  <1> DEFINE order == CHOOSE order \in [Places -> Places] : Sorts(order)
             sorted == [i \in Places |-> old[order[i]]]
  <1>7. order \in [Places -> Places] /\ Sorts(order)
    BY <1>4, <1>6
  <1>8. SortedBuffer(old) = sorted
    BY <1>2 DEF SortedBuffer
  <1> HIDE DEF order
  <1>9. \A i, j \in Places : i # j => order[i] # order[j]
    <2>1. order \in Surjection(Places, Places)
      BY <1>7 DEF Surjection
    <2>2. IsFiniteSet(Places)
      BY <1>2, FS_Interval
    <2>3. order \in Injection(Places, Places)
      BY <2>1, <2>2, FS_SurjSameCardinalityImpliesInj
    <2>4. \A i, j \in Places : order[i] = order[j] => i = j
      BY <2>3 DEF Injection, IsInjective
    <2> QED
      BY <2>4
  <1>10. \A i, j \in Places : i # j => old[i] # old[j]
    <2>1. \A i \in Places : \E k \in Places : i = moved[k] /\ old[i] = new[k]
      BY <1>4, <1>5
    <2> SUFFICES ASSUME NEW i \in Places, NEW j \in Places, i # j, old[i] = old[j]
                 PROVE  FALSE
      OBVIOUS
    <2>2. PICK k \in Places : i = moved[k] /\ old[i] = new[k]
      BY <2>1
    <2>3. PICK l \in Places : j = moved[l] /\ old[j] = new[l]
      BY <2>1
    <2>4. k # l /\ new[k] = new[l]
      BY <2>2, <2>3
    <2>5. k < l \/ l < k
      BY <1>2, <2>4
    <2> QED
      BY <1>3, <2>4, <2>5
  <1>11. sorted \in [Places -> Nat]
    <2>1. \A i \in Places : old[i] \in Nat
      <3>1. \A i \in DOMAIN old : old[i] \in Regions
        BY <1>2
      <3> QED
        BY <1>2, <3>1, RegionsAreNat
    <2>2. \A i \in Places : order[i] \in Places
      BY <1>7
    <2>3. \A i \in Places : old[order[i]] \in Nat
      BY <2>1, <2>2
    <2> QED
      BY <2>3
  <1>12. /\ \A i, j \in Places : i < j => sorted[i] <= sorted[j]
         /\ \A i, j \in Places : i # j => sorted[i] # sorted[j]
    BY <1>7, <1>9, <1>10
  <1>13. \A i \in Places : \E k \in Places : sorted[k] = new[i]
    <2> SUFFICES ASSUME NEW i \in Places PROVE \E k \in Places : sorted[k] = new[i]
      OBVIOUS
    <2>1. moved[i] \in Places /\ old[moved[i]] = new[i]
      BY <1>4
    <2>2. PICK k \in Places : order[k] = moved[i]
      BY <1>7, <2>1
    <2> QED
      BY <2>1, <2>2
  <1>14. \A i \in Places : \E k \in Places : new[k] = sorted[i]
    <2> SUFFICES ASSUME NEW i \in Places PROVE \E k \in Places : new[k] = sorted[i]
      OBVIOUS
    <2>1. order[i] \in Places
      BY <1>7
    <2>2. PICK k \in Places : moved[k] = order[i]
      BY <1>5, <2>1
    <2> QED
      BY <1>4, <2>2
  <1> HIDE DEF sorted, Sorts
  <1>15. sorted = new
    BY <1>2, <1>3, <1>11, <1>12, <1>13, <1>14, OneOrder
  <1> QED
    BY <1>8, <1>15 DEF new, old

-----------------------------------------------------------------------------
(* The review performs the commands of a file one by one.                  *)

Script == CanonicalActions \cup {Advanced}

LogEntry == [node_id : Lessons, action : CanonicalActions, result : Results]

Receipt == [node_id : Lessons,
            committed_response : [shape : Shapes \cup {"none"}, region_ids : Seq(Regions)],
            outcome : Outcomes, feedback_ref : Feedback \cup {NoFeedback},
            next_node_ref : Targets]

(* Where a review may stand.                                               *)
Reviews(p) == [run : {s \in RunType : Facts!Sound(p, s)}, events : Seq(LogEntry),
               commits : Seq(Receipt), refused : BOOLEAN]

ReviewStep(p, g, command) == IF g.refused THEN g ELSE GenericCommand(p, g, command)

ReviewStart(p) == [run |-> NewState(p), events |-> <<>>, commits |-> <<>>, refused |-> FALSE]

LEMMA SameAdvance ==
    ASSUME NEW p, NEW s
    PROVE  /\ Facts!Advance(p, s) = Advance(p, s)
           /\ Facts!CanAdvance(s) = CanAdvance(s)
           /\ Facts!NewState(p) = NewState(p)
  BY DEF Advance, Facts!Advance, Fresh, Facts!Fresh, LesserOf, Facts!LesserOf, CanAdvance,
         Facts!CanAdvance, NoResponse, Facts!NoResponse, NoFeedback, Facts!NoFeedback,
         NoRef, Facts!NoRef, NewState, Facts!NewState

LEMMA AdvancedIsNoAction == Advanced \notin CanonicalActions
  BY DEF Advanced, CanonicalActions, SelectAction, ResetAction, CommitAction

LEMMA OpeningReviewed ==
    ASSUME NEW p, IsProjection(p), Accepted(p)
    PROVE  /\ ReviewStart(p) \in Reviews(p) /\ Facts!Answers(p, NewState(p))
           /\ NewState(p) = Opened(p)
  <1>1. Facts!IsProjection(p) /\ Facts!Accepted(p)
    BY SameAccepted
  <1>2. Facts!Sound(p, NewState(p)) /\ Facts!Answers(p, NewState(p))
    BY <1>1, SameAdvance, Assumptions, RecordIds, Caps, SameFrame, Facts!OpeningLegal
       DEF Facts!Legal
  <1>3. NewState(p) \in RunType
    BY <1>2, SoundTyped
  <1>4. ReviewStart(p) \in Reviews(p)
    BY <1>2, <1>3 DEF ReviewStart, Reviews
  <1> QED
    BY <1>2, <1>4 DEF NewState, Fresh, Opened

(* A step on the menu keeps what the interpreter keeps.                    *)
LEMMA OfferedSound ==
    ASSUME NEW p, IsProjection(p), Accepted(p), NEW s, Facts!Sound(p, s),
           NEW action \in CanonicalActions, action \in Available(p, s)
    PROVE  LET step == Transition(p, s, AsRaw(action))
           IN  /\ Facts!Sound(p, step.state) /\ step.result \in Results
               /\ step.state.global_remaining = s.global_remaining - 1
               /\ Facts!Answers(p, s) => Facts!Answers(p, step.state)
  <1>1. Facts!IsProjection(p) /\ Facts!Accepted(p) /\ s.phase = "active"
    BY SameAccepted DEF Available
  <1>2. AsRaw(action) \in CanonicalRaw
    BY CanonicalCalls
  <1>3. LET t == Facts!Transition(p, s, AsRaw(action)).state
        IN  /\ Facts!Sound(p, t)
            /\ t.global_remaining = s.global_remaining - 1
            /\ Facts!Transition(p, s, AsRaw(action)).result \in Facts!Results
    BY <1>1, <1>2, Assumptions, RecordIds, Caps, SameFrame, Facts!TransitionSound
  <1>4. Facts!Answers(p, s) => Facts!Answers(p, Facts!Transition(p, s, AsRaw(action)).state)
    BY <1>1, <1>2, Assumptions, RecordIds, Caps, SameFrame, Facts!TransitionAnswers
  <1> QED
    BY <1>3, <1>4, SameTransition DEF Results, Facts!Results

LEMMA AdvancedSound ==
    ASSUME NEW p, IsProjection(p), Accepted(p), NEW s, Facts!Sound(p, s), CanAdvance(s)
    PROVE  /\ Facts!Sound(p, Advance(p, s)) /\ Facts!Answers(p, Advance(p, s))
           /\ Advance(p, s).global_remaining = s.global_remaining
           /\ Advance(p, s).phase # "committed"
  <1>1. Facts!IsProjection(p) /\ Facts!Accepted(p) /\ Facts!CanAdvance(s)
    BY SameAccepted, SameAdvance
  <1>2. /\ Facts!Sound(p, Facts!Advance(p, s))
        /\ Facts!Advance(p, s).global_remaining = s.global_remaining
    BY <1>1, Assumptions, RecordIds, Caps, SameFrame, Facts!AdvanceSound
  <1>3. Facts!Answers(p, Facts!Advance(p, s))
    <2>1. s.next_node_ref \in Facts!Nodes(p)
      BY <1>1, Assumptions, RecordIds, Caps, SameFrame, Facts!AdvanceSound
    <2> QED
      BY <1>1, <2>1, Assumptions, RecordIds, Caps, SameFrame, Facts!FreshAnswers
         DEF Facts!Advance
  <1>4. Advance(p, s).phase # "committed"
    BY DEF Advance, Fresh
  <1> QED
    BY <1>2, <1>3, <1>4, SameAdvance

LEMMA ReviewStepTyped ==
    ASSUME NEW p, IsProjection(p), Accepted(p), NEW g \in Reviews(p), NEW command \in Script
    PROVE  ReviewStep(p, g, command) \in Reviews(p)
  <1> DEFINE s == g.run
  <1>1. /\ s \in RunType /\ Facts!Sound(p, s) /\ g.events \in Seq(LogEntry)
        /\ g.commits \in Seq(Receipt) /\ g.refused \in BOOLEAN
        /\ g = [run |-> s, events |-> g.events, commits |-> g.commits, refused |-> g.refused]
    BY DEF Reviews
  <1>2. CASE g.refused
    BY <1>2 DEF ReviewStep
  <1>3. ASSUME ReviewStep(p, g, command) = [g EXCEPT !.refused = TRUE]
        PROVE  ReviewStep(p, g, command) \in Reviews(p)
    BY <1>3 DEF Reviews
  <1>4. CASE ~g.refused /\ command = Advanced /\ CanAdvance(s)
    <2>1. ReviewStep(p, g, command) = [g EXCEPT !.run = Advance(p, s)]
      BY <1>4 DEF ReviewStep, GenericCommand
    <2>2. Facts!Sound(p, Advance(p, s)) /\ Advance(p, s) \in RunType
      BY <1>1, <1>4, AdvancedSound, SoundTyped
    <2> QED
      BY <2>1, <2>2 DEF Reviews
  <1>5. CASE ~g.refused /\ command = Advanced /\ ~CanAdvance(s)
    BY <1>3, <1>5 DEF ReviewStep, GenericCommand
  <1>6. CASE ~g.refused /\ command # Advanced /\ command \notin Available(p, s)
    BY <1>3, <1>6 DEF ReviewStep, GenericCommand
  <1>7. CASE ~g.refused /\ command # Advanced /\ command \in Available(p, s)
    <2> DEFINE step == Transition(p, s, AsRaw(command))
               entry == [node_id |-> s.current_node_id,
                         action  |-> NormalizeAction(AsRaw(command)),
                         result  |-> step.result]
               commits == IF command = CommitAction
                          THEN Append(g.commits, CommitmentOf(step.state)) ELSE g.commits
    <2>1. command \in CanonicalActions
      BY <1>7 DEF Script
    <2>2. Facts!Sound(p, step.state) /\ step.result \in Results
      BY <1>1, <1>7, <2>1, OfferedSound
    <2>3. step.state \in RunType
      BY <2>2, SoundTyped
    <2>4. entry \in LogEntry
      BY <1>1, <2>1, <2>2, CanonicalCalls DEF LogEntry, RunType
    <2>5. CommitmentOf(step.state) \in Receipt
      <3> HIDE DEF step
      <3> QED
        BY <2>3 DEF CommitmentOf, Receipt, RunType
    <2>6. commits \in Seq(Receipt)
      <3> HIDE DEF step
      <3> QED
        BY <1>1, <2>5
    <2>7. ReviewStep(p, g, command) = [g EXCEPT !.run = step.state,
                                               !.events = Append(g.events, entry),
                                               !.commits = commits]
      BY <1>7 DEF ReviewStep, GenericCommand
    <2> HIDE DEF step, entry, commits
    <2>8. Append(g.events, entry) \in Seq(LogEntry)
      BY <1>1, <2>4
    <2> QED
      BY <2>2, <2>3, <2>6, <2>7, <2>8 DEF Reviews
  <1> QED
    BY <1>1, <1>2, <1>4, <1>5, <1>6, <1>7

Reviewing(after, p, script) ==
    /\ after[0] = ReviewStart(p)
    /\ \A k \in 1 .. Len(script) : after[k] = ReviewStep(p, after[k - 1], script[k])

(* The fold goes through the script command by command.                    *)
LEMMA ReviewUnfolds ==
    ASSUME NEW p, IsProjection(p), Accepted(p), NEW script \in Seq(Script)
    PROVE  \E after : Reviewing(after, p, script) /\ Reperformed(p, script) = after[Len(script)]
  <1> DEFINE take == [x \in Reviews(p) \X Script |-> ReviewStep(p, x[1], x[2])]
             n == Len(script)
             Body(g) == [s \in SUBSET DOMAIN script |->
                            IF s = {} THEN ReviewStart(p)
                            ELSE ReviewStep(p, g[s \ {Max(s)}], script[Max(s)])]
             value == CHOOSE g : g = Body(g)
  <1>1. n \in Nat /\ DOMAIN script = 1 .. n
    OBVIOUS
  <1>2. ReviewStart(p) \in Reviews(p)
    BY OpeningReviewed
  <1>3. take \in [Reviews(p) \X Script -> Reviews(p)]
    BY ReviewStepTyped
  <1>4. \A s : Facts!Max(s) = Max(s)
    BY DEF Facts!Max, Max
  <1>5. PICK g \in [SUBSET (1 .. n) -> Reviews(p)] :
            Facts!IsFold(g, take, ReviewStart(p), script, n)
    <2> HIDE DEF take
    <2> QED
      BY <1>2, <1>3, Assumptions, RecordIds, Caps, SameFrame, Facts!FoldExists
         DEF Facts!Foldable
  <1>6. g = Body(g)
    <2>1. ASSUME NEW s \in SUBSET (1 .. n), s # {}
          PROVE  g[s] = ReviewStep(p, g[s \ {Max(s)}], script[Max(s)])
      <3>1. Max(s) \in s
        BY <1>1, <1>4, <2>1, Assumptions, RecordIds, Caps, SameFrame, Facts!LargestIn
      <3>2. Max(s) \in 1 .. n /\ s \ {Max(s)} \in SUBSET (1 .. n)
        BY <3>1
      <3>3. g[s \ {Max(s)}] \in Reviews(p)
        BY <1>5, <3>2
      <3>4. script[Max(s)] \in Script
        BY <1>1, <3>2
      <3>5. g[s] = take[<<g[s \ {Max(s)}], script[Max(s)]>>]
        BY <1>4, <1>5, <2>1 DEF Facts!IsFold
      <3> QED
        BY <3>3, <3>4, <3>5
    <2>2. g[{}] = ReviewStart(p)
      BY <1>5 DEF Facts!IsFold
    <2> HIDE DEF take
    <2> QED
      BY <1>1, <1>5, <2>1, <2>2
  <1>7. value = Body(value)
    BY <1>6
  <1>8. Reperformed(p, script) = value[1 .. n]
    <2> HIDE DEF take
    <2> QED
      BY <1>1 DEF Reperformed, FoldLeft, MapThenFoldSet, ReviewStep, ReviewStart
  <1> HIDE DEF value, take
  <1> DEFINE after == [k \in 0 .. n |-> value[1 .. k]]
  <1>9. after[0] = ReviewStart(p)
    BY <1>1, <1>7
  <1>10. ASSUME NEW k \in 1 .. n
         PROVE  after[k] = ReviewStep(p, after[k - 1], script[k])
    <2>1. Max(1 .. k) = k /\ (1 .. k) \ {k} = 1 .. k - 1
      BY <1>1, <1>4, Assumptions, RecordIds, Caps, SameFrame, Facts!MaxOf
    <2>2. 1 .. k \in SUBSET DOMAIN script /\ 1 .. k # {}
      BY <1>1
    <2>3. value[1 .. k] = ReviewStep(p, value[1 .. k - 1], script[k])
      BY <1>7, <2>1, <2>2
    <2> QED
      BY <1>1, <2>3
  <1>11. after[n] = value[1 .. n]
    BY <1>1
  <1> HIDE DEF after
  <1>12. Reviewing(after, p, script)
    BY <1>9, <1>10 DEF Reviewing
  <1> QED
    BY <1>8, <1>11, <1>12

(* One command more.                                                       *)
LEMMA ReviewAppends ==
    ASSUME NEW p, IsProjection(p), Accepted(p), NEW script \in Seq(Script),
           NEW command \in Script
    PROVE  Reperformed(p, Append(script, command)) =
               ReviewStep(p, Reperformed(p, script), command)
  <1> DEFINE longer == Append(script, command)
             n == Len(script)
  <1>1. /\ longer \in Seq(Script) /\ Len(longer) = n + 1
        /\ \A i \in 1 .. n : longer[i] = script[i]
        /\ longer[n + 1] = command /\ n \in Nat
    OBVIOUS
  <1> HIDE DEF longer
  <1>2. PICK a : Reviewing(a, p, script) /\ Reperformed(p, script) = a[n]
    BY ReviewUnfolds
  <1>3. PICK b : Reviewing(b, p, longer) /\ Reperformed(p, longer) = b[n + 1]
    BY <1>1, ReviewUnfolds
  <1> DEFINE Same == {k \in Nat : k <= n => a[k] = b[k]}
  <1>4. 0 \in Same
    BY <1>2, <1>3 DEF Reviewing
  <1>5. ASSUME NEW k \in Nat, a[k] = b[k], k + 1 <= n
        PROVE  a[k + 1] = b[k + 1]
    <2>1. k + 1 \in 1 .. n /\ k + 1 \in 1 .. n + 1 /\ (k + 1) - 1 = k
      BY <1>1, <1>5
    <2>2. a[k + 1] = ReviewStep(p, a[k], script[k + 1])
      BY <1>2, <2>1 DEF Reviewing
    <2>3. b[k + 1] = ReviewStep(p, b[k], longer[k + 1])
      BY <1>1, <1>3, <2>1 DEF Reviewing
    <2> QED
      BY <1>1, <1>5, <2>1, <2>2, <2>3
  <1>6. \A k \in Nat : k \in Same => k + 1 \in Same
    BY <1>1, <1>5
  <1> HIDE DEF Same
  <1>7. Nat \subseteq Same
    BY <1>4, <1>6, Assumptions, RecordIds, Caps, SameFrame, Facts!EveryNumber
  <1>8. a[n] = b[n]
    BY <1>1, <1>7 DEF Same
  <1>9. b[n + 1] = ReviewStep(p, b[(n + 1) - 1], longer[n + 1])
    <2>1. n + 1 \in 1 .. Len(longer)
      BY <1>1
    <2> QED
      BY <1>3, <2>1 DEF Reviewing
  <1> QED
    BY <1>1, <1>2, <1>3, <1>8, <1>9 DEF longer

LEMMA ReviewOpens ==
    ASSUME NEW p, IsProjection(p), Accepted(p)
    PROVE  Reperformed(p, <<>>) = ReviewStart(p)
  <1>1. <<>> \in Seq(Script) /\ Len(<<>>) = 0
    OBVIOUS
  <1>2. PICK a : Reviewing(a, p, <<>>) /\ Reperformed(p, <<>>) = a[Len(<<>>)]
    BY <1>1, ReviewUnfolds
  <1> QED
    BY <1>1, <1>2 DEF Reviewing

-----------------------------------------------------------------------------
(* A click does what the interpreter would have done: pushed and sorted,   *)
(* the selection is the one that insertion leaves.                         *)
LEMMA PushedIsSelected ==
    ASSUME NEW p, IsProjection(p), NEW s, Facts!Sound(p, s), Facts!Answers(p, s),
           NEW action \in CanonicalActions, action \in Available(p, s), action.tag = "select"
    PROVE  Pushed(Lesson(p, s), s.buffer, action.region)
               = Selected(Lesson(p, s), s.buffer, action.region)
  <1> DEFINE lesson == Lesson(p, s)
  <1>1. CASE lesson.response_shape = "sequence"
    BY <1>1 DEF Pushed, Selected
  <1>2. CASE lesson.response_shape # "sequence"
    <2>1. s.buffer \in Seq(Regions) /\ lesson \in LessonNode
      BY RunsKnown DEF RunType
    <2>2. /\ action.region \in lesson.selectable
          /\ MayRepeat(lesson) \/ ~Occurs(action.region, s.buffer)
      BY DEF Available, SelectAction, ResetAction, CommitAction
    <2>3. action.region \in Regions /\ ~Occurs(action.region, s.buffer)
      BY <1>2, <2>1, <2>2 DEF MayRepeat, LessonNode
    <2>4. Ascending(s.buffer)
      BY <1>2, SameInsertion DEF Facts!Sound, Facts!Sorted, Facts!Lesson, Lesson
    <2>5. SortedBuffer(Append(s.buffer, action.region)) = Insort(s.buffer, action.region)
      BY <2>1, <2>3, <2>4, SortedIsInserted
    <2> QED
      BY <1>2, <2>5 DEF Pushed, Selected
  <1> QED
    BY <1>1, <1>2

LEMMA ClickIsStep ==
    ASSUME NEW p, IsProjection(p), NEW s, Facts!Sound(p, s), Facts!Answers(p, s),
           NEW action \in CanonicalActions, action \in Available(p, s)
    PROVE  Transition(p, s, AsRaw(action))
               = [state  |-> PerformWith(p, s, action,
                                         Pushed(Lesson(p, s), s.buffer, action.region)),
                  result |-> ResultOf(action)]
  <1>1. s \in RunType /\ Lesson(p, s) \in LessonNode /\ Blank(s)
    BY RunsKnown DEF Available
  <1>2. Transition(p, s, AsRaw(action))
            = [state |-> Perform(p, s, action), result |-> ResultOf(action)]
    BY <1>1, PerformIsStep
  <1>3. CASE action.tag = "select"
    BY <1>2, <1>3, PushedIsSelected DEF Perform
  <1>4. CASE action.tag # "select"
    <2>1. ASSUME NEW a, NEW b
          PROVE  PerformWith(p, s, action, a) = PerformWith(p, s, action, b)
      BY <1>4 DEF PerformWith
    <2>2. Perform(p, s, action) =
            PerformWith(p, s, action, Pushed(Lesson(p, s), s.buffer, action.region))
      BY <2>1 DEF Perform
    <2> QED
      BY <1>2, <2>2
  <1> QED
    BY <1>3, <1>4

-----------------------------------------------------------------------------
(* The inductive invariant of the page.                                    *)

(* Lessons with an example to show.                                        *)
Exemplary(p) == {n \in Nodes(p) : p.lesson[n].passive_trace # NoTrace}

Playing(p, player) ==
    /\ DOMAIN player = {"node", "index", "selected", "committed", "saved"}
    /\ player.node \in Exemplary(p)
    /\ player.index \in Nat

(* Every event pays for at most two commands: itself and a page turn.      *)
Paid(script, entries, s) ==
    Len(script) + (IF s.phase = "committed" THEN 1 ELSE 0) <= 2 * Len(entries)

PageIInv ==
    /\ IsProjection(packet) /\ Accepted(packet)
    /\ Facts!Sound(packet, state) /\ Facts!Answers(packet, state)
    /\ log \in Seq(LogEntry)
    /\ Len(log) + state.global_remaining = packet.global_event_budget
    /\ commands \in Seq(Script)
    /\ Paid(commands, log, state)
    /\ Reperformed(packet, commands) =
          [run |-> state, events |-> log, commits |-> commitments, refused |-> FALSE]
    /\ examples_seen \in Seq(Exemplary(packet))
    /\ example # Nothing => Playing(packet, example)
    /\ ExportsReviewable

(* What the viewer keeps is what a review would find.                      *)
LEMMA SessionReviewed == PageIInv => (Reviewed(packet, Session) <=> WithinCaps(Session))
  <1> SUFFICES ASSUME PageIInv PROVE Reviewed(packet, Session) <=> WithinCaps(Session)
    OBVIOUS
  <1> DEFINE s == Session
  <1>1. /\ s.commands = commands /\ s.events = log /\ s.commitments = commitments
        /\ s.final_state = state /\ s.examples_seen = examples_seen
    BY DEF Session
  <1>2. Len(commands) <= 2 * packet.global_event_budget
    <2>1. state.global_remaining \in Nat
      BY SoundTyped DEF PageIInv, RunType
    <2>2. Len(log) \in Nat /\ Len(commands) \in Nat
      BY DEF PageIInv
    <2>3. Len(log) + state.global_remaining = packet.global_event_budget
      BY DEF PageIInv
    <2>4. Len(commands) <= 2 * Len(log)
      BY <2>2 DEF PageIInv, Paid
    <2> QED
      BY <2>1, <2>2, <2>3, <2>4
  <1>3. \A i \in DOMAIN examples_seen :
            packet.lesson[examples_seen[i]].passive_trace # NoTrace
    BY DEF PageIInv, Exemplary
  <1> HIDE DEF s
  <1>4. Reperformed(packet, commands) =
            [run |-> state, events |-> log, commits |-> commitments, refused |-> FALSE]
    BY DEF PageIInv
  <1>5. Reviewed(packet, s) <=> WithinCaps(s)
    BY <1>1, <1>2, <1>3, <1>4 DEF Reviewed
  <1> QED
    BY <1>5 DEF s

(* A new attempt.                                                          *)
Blankly == /\ state = Opened(packet) /\ log = <<>> /\ commands = <<>> /\ commitments = <<>>
           /\ examples_seen = <<>> /\ example = Nothing

LEMMA OpenedPage ==
    ASSUME NEW p, IsProjection(p), Accepted(p)
    PROVE  /\ Facts!Sound(p, Opened(p)) /\ Facts!Answers(p, Opened(p))
           /\ Opened(p).global_remaining = p.global_event_budget
           /\ p.global_event_budget \in Nat
           /\ Paid(<<>>, <<>>, Opened(p))
           /\ Reperformed(p, <<>>) =
                [run |-> Opened(p), events |-> <<>>, commits |-> <<>>, refused |-> FALSE]
  <1>1. /\ ReviewStart(p) \in Reviews(p) /\ Facts!Answers(p, NewState(p))
        /\ NewState(p) = Opened(p)
    BY OpeningReviewed
  <1>2. Facts!Sound(p, Opened(p))
    BY <1>1 DEF ReviewStart, Reviews
  <1>3. Opened(p).global_remaining = p.global_event_budget /\ Opened(p).phase = "active"
    BY DEF Opened
  <1>4. p.global_event_budget \in Nat
    BY DEF IsProjection
  <1>5. Paid(<<>>, <<>>, Opened(p))
    BY <1>3 DEF Paid
  <1>6. Reperformed(p, <<>>) =
            [run |-> Opened(p), events |-> <<>>, commits |-> <<>>, refused |-> FALSE]
    BY <1>1, ReviewOpens DEF ReviewStart
  <1> QED
    BY <1>1, <1>2, <1>3, <1>4, <1>5, <1>6

LEMMA PageOpens == PageInit => PageIInv
  <1> SUFFICES ASSUME PageInit PROVE PageIInv
    OBVIOUS
  <1>1. IsProjection(packet) /\ Accepted(packet) /\ Blankly /\ exported = Nothing
    BY PackagesTyped DEF PageInit, Blankly
  <1>2. /\ Facts!Sound(packet, state) /\ Facts!Answers(packet, state)
        /\ state.global_remaining = packet.global_event_budget
        /\ packet.global_event_budget \in Nat
        /\ Paid(commands, log, state)
        /\ Reperformed(packet, commands) =
             [run |-> state, events |-> log, commits |-> commitments, refused |-> FALSE]
    BY <1>1, OpenedPage DEF Blankly
  <1> QED
    BY <1>1, <1>2 DEF Blankly, PageIInv, ExportsReviewable

LEMMA ClickKept ==
    ASSUME PageIInv, NEW action \in CanonicalActions, Click(action)
    PROVE  PageIInv'
  <1> DEFINE pushed == Pushed(Lesson(packet, state), state.buffer, action.region)
             step == Transition(packet, state, AsRaw(action))
             entry == [node_id |-> state.current_node_id, action |-> action,
                       result |-> ResultOf(action)]
             was == Reperformed(packet, commands)
  <1>1. /\ IsProjection(packet) /\ Accepted(packet)
        /\ Facts!Sound(packet, state) /\ Facts!Answers(packet, state)
        /\ log \in Seq(LogEntry)
        /\ Len(log) + state.global_remaining = packet.global_event_budget
        /\ commands \in Seq(Script) /\ Paid(commands, log, state)
        /\ was = [run |-> state, events |-> log, commits |-> commitments, refused |-> FALSE]
    BY DEF PageIInv
  <1>2. /\ action \in Available(packet, state)
        /\ state' = PerformWith(packet, state, action, pushed)
        /\ log' = Append(log, entry)
        /\ commands' = Append(commands, action)
        /\ commitments' = IF action = CommitAction
                          THEN Append(commitments, CommitmentOf(state')) ELSE commitments
        /\ packet' = packet /\ example' = example /\ examples_seen' = examples_seen
        /\ exported' = exported
    BY DEF Click
  <1>3. step.state = state' /\ step.result = ResultOf(action)
    <2>1. step = [state |-> PerformWith(packet, state, action, pushed),
                  result |-> ResultOf(action)]
      BY <1>1, <1>2, ClickIsStep
    <2> QED
      BY <1>2, <2>1
  <1>4. /\ Facts!Sound(packet, state') /\ ResultOf(action) \in Results
        /\ state'.global_remaining = state.global_remaining - 1
        /\ Facts!Answers(packet, state')
    BY <1>1, <1>2, <1>3, OfferedSound
  <1>5. state \in RunType /\ state' \in RunType
    BY <1>1, <1>4, SoundTyped
  <1>6. entry \in LogEntry
    BY <1>4, <1>5 DEF LogEntry, RunType
  <1> HIDE DEF entry, pushed
  <1>7. log' \in Seq(LogEntry) /\ Len(log') = Len(log) + 1 /\ Len(log) \in Nat
    BY <1>1, <1>2, <1>6
  <1>8. /\ action \in Script /\ commands' \in Seq(Script)
        /\ Len(commands') = Len(commands) + 1 /\ Len(commands) \in Nat
    BY <1>1, <1>2 DEF Script
  <1>9. Len(log') + state'.global_remaining = packet.global_event_budget
    <2>1. state.global_remaining \in Nat
      BY <1>5 DEF RunType
    <2>2. Len(log) + state.global_remaining = packet.global_event_budget
      BY <1>1
    <2>3. state'.global_remaining = state.global_remaining - 1
      BY <1>4
    <2> QED
      BY <1>7, <2>1, <2>2, <2>3
  <1>10. Paid(commands', log', state')
    <2>1. Len(commands) <= 2 * Len(log)
      BY <1>1, <1>7, <1>8 DEF Paid
    <2>2. Len(commands') + 1 <= 2 * Len(log')
      BY <1>7, <1>8, <2>1
    <2> QED
      BY <1>7, <1>8, <2>2 DEF Paid
  <1>11. Reperformed(packet, commands') =
            [run |-> state', events |-> log', commits |-> commitments', refused |-> FALSE]
    <2>1. Reperformed(packet, commands') = ReviewStep(packet, was, action)
      BY <1>1, <1>2, <1>8, ReviewAppends
    <2>2. action # Advanced
      BY AdvancedIsNoAction
    <2>3. NormalizeAction(AsRaw(action)) = action
      BY CanonicalCalls
    <2>4. ReviewStep(packet, was, action) =
            [was EXCEPT !.run = step.state,
                        !.events = Append(log, entry),
                        !.commits = IF action = CommitAction
                                    THEN Append(commitments, CommitmentOf(step.state))
                                    ELSE commitments]
      <3>1. was.run = state /\ was.events = log /\ was.commits = commitments /\ ~was.refused
        BY <1>1
      <3>2. ReviewStep(packet, was, action) = GenericCommand(packet, was, action)
        BY <3>1 DEF ReviewStep
      <3>3. entry = [node_id |-> was.run.current_node_id,
                     action  |-> NormalizeAction(AsRaw(action)), result  |-> step.result]
        BY <1>3, <2>3, <3>1 DEF entry
      <3> HIDE DEF was
      <3>4. GenericCommand(packet, was, action) =
              [was EXCEPT !.run = step.state,
                          !.events = Append(was.events, entry),
                          !.commits = IF action = CommitAction
                                      THEN Append(was.commits, CommitmentOf(step.state))
                                      ELSE was.commits]
        BY <1>2, <2>2, <3>1, <3>3 DEF GenericCommand
      <3> QED
        BY <3>1, <3>2, <3>4
    <2>5. ReviewStep(packet, was, action) =
            [was EXCEPT !.run = state', !.events = log', !.commits = commitments']
      <3> HIDE DEF was, step
      <3> QED
        BY <1>2, <1>3, <2>4
    <2> HIDE DEF was
    <2> QED
      BY <1>1, <2>1, <2>5
  <1>12. /\ examples_seen' \in Seq(Exemplary(packet))
         /\ example' # Nothing => Playing(packet, example')
         /\ ExportsReviewable'
    BY <1>2 DEF PageIInv, ExportsReviewable
  <1> HIDE DEF step, was
  <1> QED
    BY <1>1, <1>2, <1>4, <1>7, <1>8, <1>9, <1>10, <1>11, <1>12 DEF PageIInv

LEMMA TurnKept == PageIInv /\ ClickNext => PageIInv'
  <1> SUFFICES ASSUME PageIInv, ClickNext PROVE PageIInv'
    OBVIOUS
  <1> DEFINE was == Reperformed(packet, commands)
  <1>1. /\ IsProjection(packet) /\ Accepted(packet)
        /\ Facts!Sound(packet, state) /\ Facts!Answers(packet, state)
        /\ log \in Seq(LogEntry)
        /\ Len(log) + state.global_remaining = packet.global_event_budget
        /\ commands \in Seq(Script) /\ Paid(commands, log, state)
        /\ was = [run |-> state, events |-> log, commits |-> commitments, refused |-> FALSE]
    BY DEF PageIInv
  <1>2. /\ CanAdvance(state) /\ state.phase = "committed"
        /\ state' = Move(packet, state) /\ commands' = Append(commands, Advanced)
        /\ log' = log /\ commitments' = commitments
        /\ packet' = packet /\ example' = Nothing /\ examples_seen' = examples_seen
        /\ exported' = exported
    BY DEF ClickNext, CanAdvance
  <1>3. state \in RunType /\ state' = Advance(packet, state)
    BY <1>1, <1>2, SoundTyped, MoveIsAdvance
  <1>4. /\ Facts!Sound(packet, state') /\ Facts!Answers(packet, state')
        /\ state'.global_remaining = state.global_remaining
        /\ state'.phase # "committed"
    BY <1>1, <1>2, <1>3, AdvancedSound
  <1>5. /\ Advanced \in Script /\ commands' \in Seq(Script)
        /\ Len(commands') = Len(commands) + 1 /\ Len(commands) \in Nat /\ Len(log) \in Nat
    BY <1>1, <1>2 DEF Script
  <1>6. Paid(commands', log', state')
    BY <1>1, <1>2, <1>4, <1>5 DEF Paid
  <1>7. Reperformed(packet, commands') =
            [run |-> state', events |-> log', commits |-> commitments', refused |-> FALSE]
    <2>1. Reperformed(packet, commands') = ReviewStep(packet, was, Advanced)
      BY <1>1, <1>2, <1>5, ReviewAppends
    <2>2. was.run = state /\ ~was.refused
      BY <1>1
    <2> HIDE DEF was
    <2>3. ReviewStep(packet, was, Advanced) = [was EXCEPT !.run = state']
      BY <1>2, <1>3, <2>2 DEF ReviewStep, GenericCommand
    <2> QED
      BY <1>1, <1>2, <2>1, <2>3
  <1>8. /\ examples_seen' \in Seq(Exemplary(packet))
        /\ example' # Nothing => Playing(packet, example')
        /\ ExportsReviewable'
    BY <1>2 DEF PageIInv, ExportsReviewable
  <1> HIDE DEF was
  <1> QED
    BY <1>1, <1>2, <1>4, <1>5, <1>6, <1>7, <1>8 DEF PageIInv

(* Showing an example leaves the viewer alone.                             *)
LEMMA ExampleKept ==
    PageIInv /\ (OpenExample \/ ReplayExample \/ CloseExample \/ StepExample) => PageIInv'
  <1> SUFFICES ASSUME PageIInv, OpenExample \/ ReplayExample \/ CloseExample \/ StepExample
               PROVE  PageIInv'
    OBVIOUS
  <1>1. UNCHANGED <<packet, viewer, exported>>
    BY DEF OpenExample, ReplayExample, CloseExample, StepExample
  <1>2. /\ examples_seen' \in Seq(Exemplary(packet))
        /\ example' # Nothing => Playing(packet, example')
    <2>1. /\ examples_seen \in Seq(Exemplary(packet))
          /\ example # Nothing => Playing(packet, example)
      BY DEF PageIInv
    <2>2. ASSUME NEW n \in Exemplary(packet) PROVE Playing(packet, Rewound(n))
      BY DEF Playing, Rewound
    <2>3. CASE OpenExample
      <3>1. state.current_node_id \in Nodes(packet)
        BY SameStages DEF PageIInv, Facts!Sound, Facts!Placed
      <3>2. state.current_node_id \in Exemplary(packet)
        BY <2>3, <3>1 DEF OpenExample, Exemplary, Lesson
      <3> QED
        BY <2>1, <2>2, <2>3, <3>2 DEF OpenExample
    <2>4. CASE ReplayExample
      BY <2>1, <2>2, <2>4 DEF ReplayExample, Playing
    <2>5. CASE CloseExample
      BY <2>1, <2>5 DEF CloseExample
    <2>6. CASE StepExample
      <3> DEFINE next == example.index + 1
                 action == TraceOf(example.node)[next]
                 shown == Shown(example, action)
                 stepped == [shown EXCEPT !.index = next]
                 ends == next = Len(TraceOf(example.node)) /\ ~example.saved
      <3>1. Playing(packet, example) /\ example.index < Len(TraceOf(example.node))
        BY <2>1, <2>6 DEF StepExample
      <3>2. /\ example' = IF ends THEN [stepped EXCEPT !.saved = TRUE] ELSE stepped
            /\ examples_seen' = IF ends THEN Append(examples_seen, example.node)
                                ELSE examples_seen
        BY <2>6 DEF StepExample
      <3>3. action.tag \in CallableActions
        <4>1. packet.lesson[example.node] \in LessonNode
          BY <3>1 DEF PageIInv, IsProjection, Playing, Exemplary
        <4>2. packet.lesson[example.node].passive_trace \in Trace
          BY <3>1, <4>1 DEF Playing, Exemplary, LessonNode
        <4>3. TraceOf(example.node) \in Seq([tag : CallableActions, region : Regions \cup {0}])
          BY <4>2 DEF TraceOf, Trace
        <4>4. Len(TraceOf(example.node)) \in Nat
          BY <4>3
        <4>5. next \in 1 .. Len(TraceOf(example.node))
          BY <3>1, <4>4 DEF Playing
        <4>6. action \in [tag : CallableActions, region : Regions \cup {0}]
          <5>1. ASSUME NEW T, NEW actions \in Seq(T), NEW k \in 1 .. Len(actions)
                PROVE  actions[k] \in T
            OBVIOUS
          <5> HIDE DEF next
          <5> QED
            BY <4>3, <4>5, <5>1, Zenon
        <4> HIDE DEF action
        <4> QED
          BY <4>6
      <3>4. DOMAIN shown = DOMAIN example /\ shown.node = example.node
        <4> HIDE DEF action
        <4> QED
          BY <3>1, <3>3 DEF Shown, CallableActions, Playing
      <3>5. next \in Nat
        BY <3>1 DEF Playing
      <3> HIDE DEF shown, next
      <3>6. Playing(packet, stepped)
        BY <3>1, <3>4, <3>5 DEF Playing
      <3> HIDE DEF stepped
      <3>7. Playing(packet, [stepped EXCEPT !.saved = TRUE])
        BY <3>6 DEF Playing
      <3>8. example.node \in Exemplary(packet)
        BY <3>1 DEF Playing
      <3> HIDE DEF ends
      <3> QED
        BY <2>1, <3>2, <3>6, <3>7, <3>8
    <2> QED
      BY <2>3, <2>4, <2>5, <2>6
  <1> QED
    BY <1>1, <1>2 DEF PageIInv, ExportsReviewable, viewer

(* A file is what the viewer keeps, and a new attempt opens the packet.    *)
LEMMA FilesKept ==
    PageIInv /\ (Export \/ Restart \/ RestartDone \/ RestartFailed) => PageIInv'
  <1> SUFFICES ASSUME PageIInv, Export \/ Restart \/ RestartDone \/ RestartFailed
               PROVE  PageIInv'
    OBVIOUS
  <1>1. CASE Export \/ Restart
    <2>1. exported' = Session /\ UNCHANGED <<packet, viewer, example, examples_seen>>
      BY <1>1 DEF Export, Restart
    <2>2. ExportsReviewable'
      BY <2>1, SessionReviewed DEF ExportsReviewable
    <2> QED
      BY <2>1, <2>2 DEF PageIInv, viewer
  <1>2. CASE RestartDone
    <2>1. IsProjection(packet) /\ Accepted(packet) /\ UNCHANGED <<packet, exported>> /\ Blankly'
      BY <1>2 DEF RestartDone, PageIInv, Blankly
    <2>2. /\ Facts!Sound(packet, state') /\ Facts!Answers(packet, state')
          /\ state'.global_remaining = packet.global_event_budget
          /\ packet.global_event_budget \in Nat
          /\ Paid(commands', log', state')
          /\ Reperformed(packet, commands') =
               [run |-> state', events |-> log', commits |-> commitments', refused |-> FALSE]
      BY <2>1, OpenedPage DEF Blankly
    <2>3. ExportsReviewable'
      BY <2>1 DEF PageIInv, ExportsReviewable
    <2> QED
      BY <2>1, <2>2, <2>3 DEF Blankly, PageIInv
  <1>3. CASE RestartFailed
    BY <1>3 DEF RestartFailed, PageIInv, ExportsReviewable, viewer
  <1> QED
    BY <1>1, <1>2, <1>3

LEMMA PageInductive == PageSpec => []PageIInv
  <1>1. PageIInv /\ [PageNext]_pageVars => PageIInv'
    <2> SUFFICES ASSUME PageIInv, [PageNext]_pageVars PROVE PageIInv'
      OBVIOUS
    <2>1. CASE ClickAction
      BY <2>1, ClickKept DEF ClickAction
    <2>2. CASE ClickNext
      BY <2>2, TurnKept
    <2>3. CASE OpenExample \/ ReplayExample \/ CloseExample \/ StepExample
      BY <2>3, ExampleKept
    <2>4. CASE Export \/ Restart \/ RestartDone \/ RestartFailed
      BY <2>4, FilesKept
    <2>5. CASE UNCHANGED pageVars
      BY <2>5 DEF pageVars, viewer, PageIInv, ExportsReviewable
    <2> QED
      BY <2>1, <2>2, <2>3, <2>4, <2>5 DEF PageNext
  <1> QED
    BY <1>1, PageOpens, PTL DEF PageSpec

(* Whatever a participant does on the page, the owner's review accepts the *)
(* downloaded file, unless the attempt's number or the count of watched    *)
(* examples has passed the review's cap; then it refuses the file.         *)
THEOREM ExportsReview == PageSpec => []ExportsReviewable
  <1>1. PageIInv => ExportsReviewable
    BY DEF PageIInv
  <1> QED
    BY <1>1, PageInductive, PTL

(* The page never closes in silence on work that is in no file.            *)
THEOREM WorkIsWarned == PageSpec => []UnsavedWorkWarned
  <1> DEFINE Inv == dirty \in BOOLEAN /\ UnsavedWorkWarned
  <1>1. PageInit => Inv
    BY DEF PageInit, UnsavedWorkWarned
  <1>2. Inv /\ [PageNext]_pageVars => Inv'
    <2> SUFFICES ASSUME Inv, [PageNext]_pageVars PROVE Inv'
      OBVIOUS
    <2>1. CASE ClickAction \/ ClickNext
      BY <2>1 DEF ClickAction, Click, ClickNext, UnsavedWorkWarned
    <2>2. CASE OpenExample \/ ReplayExample \/ CloseExample \/ RestartFailed
      <3>1. UNCHANGED <<viewer, attempt, dirty, examples_seen, exported>>
        BY <2>2 DEF OpenExample, ReplayExample, CloseExample, RestartFailed
      <3> QED
        BY <3>1 DEF UnsavedWorkWarned, Session, viewer
    <2>3. CASE StepExample
      <3>1. \/ dirty'
            \/ UNCHANGED <<viewer, attempt, dirty, examples_seen, exported>>
        BY <2>3 DEF StepExample
      <3>2. dirty' \in BOOLEAN
        BY <2>3 DEF StepExample
      <3> QED
        BY <3>1, <3>2 DEF UnsavedWorkWarned, Session, viewer
    <2>4. CASE Export \/ Restart
      <3>1. exported' = Session /\ dirty' = FALSE /\ UNCHANGED <<viewer, attempt, examples_seen>>
        BY <2>4 DEF Export, Restart
      <3> QED
        BY <3>1 DEF UnsavedWorkWarned, Session, viewer
    <2>5. CASE RestartDone
      BY <2>5 DEF RestartDone, UnsavedWorkWarned
    <2>6. CASE UNCHANGED pageVars
      BY <2>6 DEF pageVars, viewer, UnsavedWorkWarned, Session
    <2> QED
      BY <2>1, <2>2, <2>3, <2>4, <2>5, <2>6 DEF PageNext
  <1>3. Inv => UnsavedWorkWarned
    OBVIOUS
  <1> QED
    BY <1>1, <1>2, <1>3, PTL DEF PageSpec
=============================================================================
