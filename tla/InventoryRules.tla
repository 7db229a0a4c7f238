--------------------------- MODULE InventoryRules ---------------------------
(***************************************************************************)
(* The section inventory (bootstrap.py): what the encoder refuses to       *)
(* write, what the decoder refuses to read, the traversal that rejects a   *)
(* cycle of dependencies, and the closure of a request.  Encoder and       *)
(* decoder check the same contract in two separately written functions,    *)
(* one over a whole value and one over bytes as they come.                 *)
(*                                                                         *)
(* Ids, kinds and counts keep their values; an entry's payload length is   *)
(* only zero, "own" (the length of the inventory itself) or anything else. *)
(***************************************************************************)
EXTENDS Integers, Sequences, FiniteSets, SequencesExt

CONSTANTS
    Inventories,    \* the inventories tried: [version, entries] records
    GameOrdinals,   \* the ordinals that must appear once each (64 in the code)
    Requests        \* the sets of roots asked of an accepted inventory

NoOrdinal == -1

\* What the fields can hold once they are cut from the bytes.
Fields == [id : Nat, type : Nat, version : Nat, closure : Nat, check : Nat, copies : Nat,
           factor : Nat, deps : Seq(Nat), size : {"zero", "some", "own"},
           ordinal : Nat \cup {NoOrdinal}]

ASSUME InventoriesTyped ==
    \A value \in Inventories : value.version \in Nat /\ value.entries \in Seq(Fields)

ASSUME RequestsTyped == \A ask \in Requests : ask.roots \in Seq(Nat)

VARIABLES
    wire,       \* the value on the wire
    phase,      \* the check that comes next, or the verdict
    index,      \* the entry being decoded
    colors,     \* the traversal: "white", "grey" or "black" by section id
    stack,      \* the traversal: <<section, next dependency>> from the root
    request,    \* the roots asked for and the sections available
    pending,    \* the closure: the ids still to visit, the next one last
    closed      \* the closure: the ids visited

inventoryVars == <<wire, phase, index, colors, stack, request, pending, closed>>

Entries == wire.entries

Ids(entries) == {entries[i].id : i \in DOMAIN entries}
EntryAt(entries, id) == entries[CHOOSE i \in DOMAIN entries : entries[i].id = id]

StrictlyAscending(s) == \A i \in 1 .. Len(s) - 1 : s[i] < s[i + 1]

-----------------------------------------------------------------------------
(* The rules of one entry and of the fixed entries.                        *)

Spine == {1, 2, 3, 16}

\* decode_inventory_entry_v1_header, used by both sides of version 1.
HeaderV1(e) ==
    /\ e.type \in 1 .. 6 /\ e.closure \in {128, 129}
    /\ e.check = 1 /\ e.copies = 1 /\ e.factor \in {1, 2, 5}
    /\ e.type \in {1, 2, 3} => e.size # "zero"
    /\ (e.factor = 5) <=> (e.id \in Spine)
    /\ (e.closure = 128) <=> (e.id \in Spine)
    /\ e.ordinal # NoOrdinal => e.type = 3
    /\ e.id = 1 => e.type = 1 /\ e.version = 1 /\ e.deps = <<>> /\ e.ordinal = NoOrdinal
    /\ e.id \in {2, 3} => e.type = 2 /\ e.version = 0 /\ e.ordinal = NoOrdinal
    /\ e.id = 16 => e.type = 3 /\ e.version = 0 /\ e.ordinal = NoOrdinal

FixedEntries(entries, version) ==
    LET first == EntryAt(entries, 1)
        frames == {EntryAt(entries, 2), EntryAt(entries, 3)}
        all == {entries[i] : i \in DOMAIN entries}
    IN /\ {1, 2, 3} \subseteq Ids(entries)
       /\ first.type = 1 /\ first.closure = 128 /\ first.deps = <<>>
       /\ \A f \in frames : f.type = 2 /\ f.version = 0 /\ f.closure = 128
       /\ first.version = version
       /\ version = 0 =>
            /\ first.copies = 2
            /\ \A f \in frames : f.copies >= 2
            /\ \A e \in all : e.factor = 1
       /\ version = 1 =>
            /\ \A e \in all : e.copies = 1
            /\ {e.id : e \in {x \in all : x.factor = 5}} = Spine
            /\ {e.id : e \in {x \in all : x.closure = 128}} = Spine
            /\ EntryAt(entries, 16).type = 3

Ordinals(entries) ==
    SelectSeq([i \in DOMAIN entries |-> entries[i].ordinal],
              LAMBDA o : o # NoOrdinal)

OrdinalsComplete(entries) ==
    LET ordinals == Ordinals(entries)
    IN /\ Len(ordinals) = Cardinality(GameOrdinals)
       /\ ToSet(ordinals) = GameOrdinals

-----------------------------------------------------------------------------
(* The encoder: an exact value or a refusal.                               *)

EncodesEntry(entries, version, i) ==
    LET e == entries[i]
    IN /\ e.id > IF i = 1 THEN 0 ELSE entries[i - 1].id
       /\ StrictlyAscending(e.deps)
       /\ e.type \in 1 .. 6 /\ e.closure \in {128, 129} /\ e.check \in {1, 2}
       /\ IF version >= 1 THEN e.copies = 1 /\ e.factor \in {1, 2, 5}
          ELSE e.copies \in 1 .. 3 /\ e.factor = 1
       /\ e.type \in {1, 2, 3} => e.size # "zero"
       /\ e.id \notin ToSet(e.deps)
       /\ ToSet(e.deps) \subseteq Ids(entries)
       /\ e.ordinal # NoOrdinal => e.type = 3
       /\ version >= 1 => HeaderV1(e)

\* A path of dependencies that comes back to its start.
DependsOn(entries) ==
    {p \in Ids(entries) \X Ids(entries) : p[2] \in ToSet(EntryAt(entries, p[1]).deps)}

\* The least set that holds the start and is closed under the relation.
ClosedUnder(relation, ids) == \A p \in relation : p[1] \in ids => p[2] \in ids

Reachable(relation, from) ==
    LET all == from \cup {p[2] : p \in relation}
    IN {id \in all : \A ids \in SUBSET all :
            from \subseteq ids /\ ClosedUnder(relation, ids) => id \in ids}

Acyclic(entries) ==
    \A id \in Ids(entries) :
        id \notin Reachable(DependsOn(entries), ToSet(EntryAt(entries, id).deps))

Encodes(value) ==
    LET entries == value.entries
    IN /\ value.version \in {0, 1}
       /\ Len(entries) >= 3
       /\ \A i \in DOMAIN entries : EncodesEntry(entries, value.version, i)
       /\ OrdinalsComplete(entries)
       /\ FixedEntries(entries, value.version)
       /\ Acyclic(entries)
       /\ entries[1].size = "own"

-----------------------------------------------------------------------------
(* The decoder: the entries one by one, then the value, then the traversal.*)

MutantReadsEntry(e, previous, version) ==           \* lets a first version repeat an entry
    /\ version >= 1 => HeaderV1(e)
    /\ StrictlyAscending(e.deps) /\ e.id > previous
    /\ e.type \in 1 .. 6 /\ e.closure \in {128, 129} /\ e.check \in {1, 2}
    /\ e.id \notin ToSet(e.deps)
    /\ e.factor \in {1, 2, 5} /\ (e.ordinal # NoOrdinal => e.type = 3)

ReadsEntry(e, previous, version) ==
    /\ version >= 1 => HeaderV1(e)
    /\ StrictlyAscending(e.deps)
    /\ e.id > previous
    /\ e.type \in 1 .. 6 /\ e.closure \in {128, 129} /\ e.check \in {1, 2}
    /\ IF version >= 1 THEN e.copies = 1 ELSE e.copies \in 1 .. 3
    /\ e.id \notin ToSet(e.deps)
    /\ IF version >= 1 THEN e.factor \in {1, 2, 5} ELSE e.factor = 1
    /\ e.ordinal # NoOrdinal => e.type = 3

ReadsWhole(value) ==
    LET entries == value.entries
    IN /\ \A i \in DOMAIN entries : ToSet(entries[i].deps) \subseteq Ids(entries)
       /\ OrdinalsComplete(entries)
       /\ FixedEntries(entries, value.version)
       /\ \A i \in DOMAIN entries : entries[i].type \in {1, 2, 3} => entries[i].size # "zero"
       /\ entries[1].size = "own"

Deps(id) == EntryAt(Entries, id).deps

InventoryInit ==
    /\ wire \in Inventories
    /\ phase = "entries"
    /\ index = 1
    /\ colors = <<>>
    /\ stack = <<>>
    /\ request = [roots |-> <<>>, available |-> {}]
    /\ pending = <<>>
    /\ closed = {}

DecodeHeader ==
    wire.version \in {0, 1} /\ Len(Entries) >= 3

DecodeEntry ==
    /\ phase = "entries" /\ index <= Len(Entries)
    /\ LET previous == IF index = 1 THEN 0 ELSE Entries[index - 1].id
       IN IF DecodeHeader /\ ReadsEntry(Entries[index], previous, wire.version)
          THEN index' = index + 1 /\ UNCHANGED phase
          ELSE phase' = "rejected" /\ UNCHANGED index
    /\ UNCHANGED <<wire, colors, stack, request, pending, closed>>

DecodeWhole ==
    /\ phase = "entries" /\ index > Len(Entries)
    /\ IF ReadsWhole(wire)
       THEN /\ phase' = "closure"
            /\ colors' = [id \in Ids(Entries) |-> "white"]
       ELSE phase' = "rejected" /\ UNCHANGED colors
    /\ UNCHANGED <<wire, index, stack, request, pending, closed>>

\* validate_inventory_closure: the roots in ascending order, each entry's
\* dependencies in the order they are listed.
White(id) == colors[id] = "white"

StartRoot ==
    /\ phase = "closure" /\ stack = <<>>
    /\ IF \E id \in DOMAIN colors : White(id)
       THEN LET root == CHOOSE id \in DOMAIN colors :
                            White(id) /\ \A o \in DOMAIN colors : White(o) => id <= o
            IN /\ colors' = [colors EXCEPT ![root] = "grey"]
               /\ stack' = <<<<root, 1>>>>
               /\ UNCHANGED phase
       ELSE phase' = "accepted" /\ UNCHANGED <<colors, stack>>
    /\ UNCHANGED <<wire, index, request, pending, closed>>

LeaveSection ==
    /\ phase = "closure" /\ stack # <<>>
    /\ LET top == Last(stack)
       IN /\ top[2] > Len(Deps(top[1]))
          /\ colors' = [colors EXCEPT ![top[1]] = "black"]
          /\ stack' = Front(stack)
    /\ UNCHANGED <<wire, phase, index, request, pending, closed>>

VisitDependency ==
    /\ phase = "closure" /\ stack # <<>>
    /\ LET top == Last(stack)
           dependency == Deps(top[1])[top[2]]
           moved == Append(Front(stack), <<top[1], top[2] + 1>>)
       IN /\ top[2] <= Len(Deps(top[1]))
          /\ CASE colors[dependency] = "grey" ->
                    phase' = "rejected" /\ UNCHANGED <<colors, stack>>
               [] colors[dependency] = "white" ->
                    /\ colors' = [colors EXCEPT ![dependency] = "grey"]
                    /\ stack' = Append(moved, <<dependency, 1>>)
                    /\ UNCHANGED phase
               [] colors[dependency] = "black" ->
                    stack' = moved /\ UNCHANGED <<phase, colors>>
    /\ UNCHANGED <<wire, index, request, pending, closed>>

-----------------------------------------------------------------------------
(* dependency_closure: a request for some sections of those available.     *)

AskClosure(roots, available) ==
    /\ phase = "accepted"
    /\ StrictlyAscending(roots)
    /\ request' = [roots |-> roots, available |-> available]
    /\ pending' = Reverse(roots)
    /\ closed' = {}
    /\ phase' = "asked"
    /\ UNCHANGED <<wire, index, colors, stack>>

MutantCloseNext ==                                  \* does not ask whether it is available
    /\ phase = "asked" /\ pending # <<>>
    /\ LET id == Last(pending)
       IN IF id \notin Ids(Entries)
          THEN phase' = "incomplete" /\ UNCHANGED <<pending, closed>>
          ELSE /\ closed' = closed \cup {id}
               /\ pending' = IF id \in closed THEN Front(pending)
                             ELSE Front(pending) \o Reverse(Deps(id))
               /\ UNCHANGED phase
    /\ UNCHANGED <<wire, index, colors, stack, request>>

MutantCloseAgain ==                                 \* leaves a visited id where it was
    /\ phase = "asked" /\ pending # <<>>
    /\ LET id == Last(pending)
       IN IF id \notin Ids(Entries) \cap request.available
          THEN phase' = "incomplete" /\ UNCHANGED <<pending, closed>>
          ELSE /\ closed' = closed \cup {id}
               /\ pending' = IF id \in closed THEN pending
                             ELSE Front(pending) \o Reverse(Deps(id))
               /\ UNCHANGED phase
    /\ UNCHANGED <<wire, index, colors, stack, request>>

CloseNext ==
    /\ phase = "asked" /\ pending # <<>>
    /\ LET id == Last(pending)
       IN IF id \notin Ids(Entries) \cap request.available
          THEN phase' = "incomplete" /\ UNCHANGED <<pending, closed>>
          ELSE /\ closed' = closed \cup {id}
               /\ pending' = IF id \in closed THEN Front(pending)
                             ELSE Front(pending) \o Reverse(Deps(id))
               /\ UNCHANGED phase
    /\ UNCHANGED <<wire, index, colors, stack, request>>

CloseDone ==
    /\ phase = "asked" /\ pending = <<>>
    /\ phase' = "closed"
    /\ UNCHANGED <<wire, index, colors, stack, request, pending, closed>>

InventoryNext ==
    \/ DecodeEntry \/ DecodeWhole
    \/ StartRoot \/ LeaveSection \/ VisitDependency
    \/ \E ask \in Requests : AskClosure(ask.roots, ask.available)
    \/ CloseNext \/ CloseDone

\* The loops are one thread's: they run on until they return.
InventorySpec ==
    InventoryInit /\ [][InventoryNext]_inventoryVars /\ WF_inventoryVars(InventoryNext)

-----------------------------------------------------------------------------
(* Correctness                                                             *)

Verdicts == {"rejected", "accepted", "asked", "closed", "incomplete"}

\* The decoder accepts exactly what the encoder would have written: neither
\* of the two validators lets through what the other refuses
\* (bootstrap.py:744, 950).
DecoderAgreesWithEncoder ==
    phase \in Verdicts => ((phase # "rejected") <=> Encodes(wire))

\* A closed request is the least set that holds the roots and every
\* dependency of a member, all of it available; a refused one could not be.
ClosureExact ==
    LET reach == Reachable(DependsOn(Entries), ToSet(request.roots))
    IN /\ phase = "closed" => closed = reach /\ reach \subseteq request.available
       /\ phase = "incomplete" => ~(reach \subseteq request.available \cap Ids(Entries))

\* Every inventory gets a verdict and every request an answer: neither loop
\* goes round a cycle for ever.
EveryInputAnswered ==
    /\ <>(phase \in Verdicts)
    /\ phase = "asked" ~> phase \in {"closed", "incomplete"}
=============================================================================
