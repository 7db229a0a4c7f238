--------------------------- MODULE LearnerRunner ---------------------------
(***************************************************************************)
(* The standalone participant runner: one mutable session over a packaged  *)
(* stream.  Whatever a command file asks, it must be a run of ContentRun.  *)
(***************************************************************************)
EXTENDS LearnerCalls

VARIABLES projection,       \* the stream in the packet
          run,              \* the runner's state, without its events
          events,           \* events performed, oldest first
          on_success_path   \* history, as in ContentRun

vars == <<projection, run, events, on_success_path>>

Init == /\ projection \in {p \in Candidates : Accepted(p)}
        /\ run = Opened(projection)
        /\ events = <<>>
        /\ on_success_path = TRUE

Performed(action) ==
    /\ action \in Available(projection, run)
    /\ run' = Perform(projection, run, action)
    /\ events' = Append(events, [node_id |-> run.current_node_id,
                                 action  |-> action,
                                 result  |-> ResultOf(action)])
    /\ UNCHANGED <<projection, on_success_path>>

PerformAction == \E action \in CanonicalActions : Performed(action)

AdvanceRunner ==
    /\ run.phase = "committed"
    /\ run.next_node_ref # NoRef
    /\ run' = Move(projection, run)
    /\ on_success_path' = (/\ on_success_path
                           /\ Packed(Lesson(projection, run)) => run.outcome = "accepted")
    /\ UNCHANGED <<projection, events>>

Next == PerformAction \/ AdvanceRunner

Spec == Init /\ [][Next]_vars

-----------------------------------------------------------------------------
(* A participant's session is a session of the content interpreter: the    *)
(* runner that skips validation and judges by region ids alone reaches the *)
(* same states, feedback, edges and events, call by call.                  *)
CanonicalRaw == {AsRaw(action) : action \in CanonicalActions}

Content == INSTANCE ContentRun WITH RawActions <- CanonicalRaw

ImplementsContent == Content!Spec

(* The menu is exact: an action is offered when and only when the          *)
(* interpreter would take it, so no event is spent on a refusal and no     *)
(* answer is out of reach.                                                 *)
OffersAreHonest ==
    \A action \in CanonicalActions :
        action \in Available(projection, run) <=>
            Transition(projection, run, AsRaw(action)).result = ResultOf(action)
=============================================================================
