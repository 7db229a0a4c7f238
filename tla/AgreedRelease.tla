---------------------------- MODULE AgreedRelease ----------------------------
(***************************************************************************)
(* What the pair of producers promises (spec/gate8-execution-v2.md): each  *)
(* builds its core by itself, none starts the expensive replay unless all  *)
(* cores agree, and only complete evidence that agrees makes a success.    *)
(***************************************************************************)
CONSTANTS Producers,
          Cores, NoCore,      \* a preflight core, or none announced yet
          Tables, NoTable     \* a complete file table, or none made yet

VARIABLES announced,    \* the core each producer reported
          working,      \* producers that started the replay
          made,         \* the file table each replay ended with
          verdict       \* of the whole pair

vars == <<announced, working, made, verdict>>

Init == /\ announced = [p \in Producers |-> NoCore]
        /\ working = {}
        /\ made = [p \in Producers |-> NoTable]
        /\ verdict = "open"

Announce(p) ==
    /\ announced[p] = NoCore
    /\ \E c \in Cores : announced' = [announced EXCEPT ![p] = c]
    /\ UNCHANGED <<working, made, verdict>>

Agreed == \E c \in Cores : \A p \in Producers : announced[p] = c

Begin(p) ==
    /\ verdict = "open" /\ Agreed /\ p \notin working
    /\ working' = working \cup {p}
    /\ UNCHANGED <<announced, made, verdict>>

Complete(p) ==
    /\ verdict = "open" /\ p \in working /\ made[p] = NoTable
    /\ \E t \in Tables : made' = [made EXCEPT ![p] = t]
    /\ UNCHANGED <<announced, working, verdict>>

Succeed ==
    /\ verdict = "open"
    /\ \E t \in Tables : \A p \in Producers : made[p] = t
    /\ verdict' = "success"
    /\ UNCHANGED <<announced, working, made>>

Fail ==
    /\ verdict = "open"
    /\ verdict' = "failure"
    /\ UNCHANGED <<announced, working, made>>

Next == \/ \E p \in Producers : Announce(p) \/ Begin(p) \/ Complete(p)
        \/ Succeed \/ Fail

Spec == Init /\ [][Next]_vars
=============================================================================
