--------------------------- MODULE BootstrapProofs ---------------------------
(***************************************************************************)
(* bootstrap.py, for any carriers, sections, inventories and packages.     *)
(* The observation decoder, with any code of distance four and whatever    *)
(* the channel delivers: nothing is settled by a vote, arrival order does  *)
(* not matter, the artifact state tells the truth and damage stays where   *)
(* it is.  The inventory it starts from: encoder and decoder agree, and a  *)
(* closed request is exact.  The recipe machine: what an accepted package  *)
(* declares holds for every run of it, and every run that ends has covered *)
(* its outputs.                                                            *)
(***************************************************************************)
EXTENDS SectionReceiver, InventoryRules, RecipeMachine, WellFoundedInduction, FiniteSetTheorems, TLAPS

States == {"unread", "missing", "corrupt", "incomplete", "ambiguous", "absent",
           "verified", "recovered"}

TypeOK ==
    /\ profile \in {"hier", "copies"}
    /\ stage \in {"inventory", "sections", "decide", "done"}
    /\ DOMAIN arrived \subseteq DOMAIN Deliveries
    /\ \A unit \in DOMAIN arrived : arrived[unit] \in Deliveries[unit]
    /\ DOMAIN copies = Copies(Inventory)
    /\ inventory \subseteq Sources
    /\ sections \in [Sections -> [state : States, envelope : SUBSET Sources]]
    /\ rivals \in [Sections -> SUBSET Blocks]
    /\ intact \subseteq Sections
    /\ streams \in [required : BOOLEAN, all : BOOLEAN]

(* A section is released exactly when it has an envelope, and then nothing *)
(* of it proved another one; it is ambiguous only when two were proved.    *)
Vetted(answer, proved) ==
    /\ Released(answer.state) <=> answer.envelope # {}
    /\ answer.envelope # {} => proved \subseteq answer.envelope
    /\ answer.state = "ambiguous" => \E a, b \in proved : a # b

SectionsVetted == \A s \in Sections : Vetted(sections[s], rivals[s])

(* Under an inventory nothing is released but with the layout it declares. *)
AgreedWith(envelope, s, found) ==
    found # {} => \A source \in envelope :
                     AgreesWithInventory(source, s, CHOOSE x \in found : TRUE)

Agreed == \A s \in Sections : AgreedWith(sections[s].envelope, s, inventory)

(* The copies hold what was delivered to them, or know of a conflict.      *)
Agree(B) == \A x, y \in B : /\ Identity(x) = Identity(y)
                            /\ x.fragment = y.fragment => x = y

Files(copy, B) ==
    IF Agree(B)
    THEN copy = [identity |-> {Identity(x) : x \in B}, held |-> B, conflict |-> FALSE]
    ELSE "conflict" \in DOMAIN copy /\ copy.conflict

Filed == \A c \in Copies(Inventory) : Files(copies[c], DeliveredBlocks(c))

(* Nothing is reported before its stage.                                   *)
Staged ==
    /\ stage \in {"inventory", "sections"} =>
          artifact = "none" /\ ~streams.required /\ ~streams.all
    /\ stage = "inventory" => intact = {} /\ \A s \in Sections : sections[s] = Unread
    /\ stage # "done" => decision.selected = "none"

(* What was read as sent is released as sent, if the inventory was.        *)
Contained ==
    Inventory \in intact =>
        inventory = {Sent} /\ \A s \in intact : sections[s].envelope = {Sent}

IInv == /\ TypeOK /\ SectionsVetted /\ Agreed /\ Filed /\ Staged
        /\ ArtifactHonest /\ Contained /\ DamageContained

-----------------------------------------------------------------------------
(* Carriers.                                                               *)

LEMMA SentIsCarrier == Sent \in Sources /\ Sources \subseteq Blocks /\ IsFiniteSet(Sources)
  BY RolesAssumption, CodeAssumption, FS_Subset DEF Sent

(* An envelope of the expected length is one the inventory agrees with.    *)
LEMMA LengthSettles ==
    ASSUME NEW s \in Sections, NEW source \in Sources, NEW expected \in Sources,
           Layout[source][s].length = Layout[expected][s].length
    PROVE  AgreesWithInventory(source, s, expected)
  <1> DEFINE mine == Layout[source][s]
             theirs == Layout[expected][s]
  <1>1. mine \in [EntryFields -> Nat] /\ theirs \in [EntryFields -> Nat]
    BY LayoutAssumption
  <1>2. \A field \in EntryFields : mine[field] = theirs[field]
    BY LayoutAssumption DEF EntryFields
  <1>3. mine = theirs
    <2> HIDE DEF mine, theirs
    <2> QED  BY <1>1, <1>2
  <1> QED  BY <1>3 DEF AgreesWithInventory

LEMMA Geometry ==
    ASSUME NEW s \in Sections
    PROVE  /\ Fragments(s) # {} /\ 0 \in Fragments(s)
           /\ Fragments(s) \subseteq Nat /\ IsFiniteSet(Fragments(s))
           /\ Copies(s) # {} /\ Copies(s) \subseteq Nat
           /\ Copies(Inventory) = {0, 1} /\ Cardinality(Copies(Inventory)) = 2
           /\ Inventory \in Sections
  <1> DEFINE source == CHOOSE x \in Sources : TRUE
  <1>1. source \in Sources
    BY SentIsCarrier
  <1>2. Entry(s) = Layout[source][s] /\ Entry(Inventory) = Layout[source][Inventory]
    BY DEF Entry
  <1> HIDE DEF source
  <1>3. Inventory \in Sections
    BY LayoutAssumption
  <1>4. /\ Entry(s).fragments \in Nat /\ Entry(s).fragments > 0
        /\ Entry(s).copies \in 1 .. 3 /\ Entry(Inventory).copies = 2
    <2>1. Layout[source][s] \in [EntryFields -> Nat]
      BY <1>1, LayoutAssumption
    <2> QED  BY <1>1, <1>2, <1>3, <2>1, LayoutAssumption DEF EntryFields
  <1>5. Copies(Inventory) = 0 .. 1
    BY <1>4 DEF Copies
  <1>6. Copies(Inventory) = {0, 1}
    BY <1>5
  <1>7. Cardinality(Copies(Inventory)) = 2
    <2>1. Cardinality(0 .. 1) = IF 0 > 1 THEN 0 ELSE 1 - 0 + 1
      BY FS_Interval, 0 \in Int, 1 \in Int, Zenon
    <2> QED  BY <1>5, <2>1
  <1>8. IsFiniteSet(Fragments(s))
    <2>1. Entry(s).fragments - 1 \in Int /\ 0 \in Int
      BY <1>4
    <2> QED  BY <2>1, FS_Interval, Zenon DEF Fragments
  <1>9. /\ 0 \in Fragments(s) /\ Fragments(s) \subseteq Nat
        /\ 0 \in Copies(s) /\ Copies(s) \subseteq Nat
    BY <1>4 DEF Fragments, Copies
  <1> QED  BY <1>3, <1>6, <1>7, <1>8, <1>9

-----------------------------------------------------------------------------
(* Words and lanes.                                                        *)

(* The distance of the code: no word decodes to two blocks.                *)
THEOREM DecodesToOne ==
    ASSUME NEW w, NEW a \in Decoded(w), NEW b \in Decoded(w)
    PROVE  a = b
  <1> SUFFICES ASSUME a # b PROVE FALSE
    OBVIOUS
  <1> DEFINE A == Errors(w, a)
             B == Errors(w, b)
             E == Erasures(w)
             D == {i \in WordBits : Code[a][i] # Code[b][i]}
  <1>1. a \in Blocks /\ b \in Blocks
    BY DEF Decoded
  <1>2. /\ 2 * Cardinality(A) + Cardinality(E) < 4
        /\ 2 * Cardinality(B) + Cardinality(E) < 4
    BY DEF Decoded
  <1>3. Cardinality(D) >= 4
    BY <1>1, CodeAssumption DEF Distance
  <1>4. D \subseteq (A \cup B) \cup E
    BY DEF Errors
  <1>5. A \subseteq WordBits /\ B \subseteq WordBits /\ E \subseteq WordBits
    BY DEF Errors, Erasures
  <1> HIDE DEF A, B, E, D
  <1>6. IsFiniteSet(A) /\ IsFiniteSet(B) /\ IsFiniteSet(E)
    BY <1>5, CodeAssumption, FS_Subset
  <1>7. /\ IsFiniteSet(A \cup B)
        /\ Cardinality(A \cup B) = Cardinality(A) + Cardinality(B) - Cardinality(A \cap B)
    BY <1>6, FS_Union
  <1>8. /\ IsFiniteSet((A \cup B) \cup E)
        /\ Cardinality((A \cup B) \cup E)
             = Cardinality(A \cup B) + Cardinality(E) - Cardinality((A \cup B) \cap E)
    BY <1>6, <1>7, FS_Union
  <1>9. IsFiniteSet(A \cap B) /\ IsFiniteSet((A \cup B) \cap E)
    <2>1. A \cap B \subseteq A /\ (A \cup B) \cap E \subseteq E
      OBVIOUS
    <2> QED  BY <1>6, <2>1, FS_Subset
  <1>10. /\ IsFiniteSet(D)
         /\ Cardinality(D) <= Cardinality((A \cup B) \cup E)
    BY <1>4, <1>8, FS_Subset
  <1>11. /\ Cardinality(A) \in Nat /\ Cardinality(B) \in Nat /\ Cardinality(E) \in Nat
         /\ Cardinality(A \cup B) \in Nat /\ Cardinality((A \cup B) \cup E) \in Nat
         /\ Cardinality(A \cap B) \in Nat /\ Cardinality((A \cup B) \cap E) \in Nat
         /\ Cardinality(D) \in Nat
    BY <1>6, <1>7, <1>8, <1>9, <1>10, FS_CardinalityType
  <1> QED  BY <1>2, <1>3, <1>7, <1>8, <1>10, <1>11

(* What the rest of the decoder relies on when it reads a place: a         *)
(* released place stands for one block, which all its evidence proves.     *)
Sound(outcome) ==
    IF Released(outcome.state)
    THEN /\ \E b : outcome.chosen = {b}
         /\ \A e \in outcome.evidence : e.block \in outcome.chosen
    ELSE outcome.chosen = {}

LEMMA AggregateSound ==
    ASSUME NEW lanes
    PROVE  /\ Sound(Aggregate(lanes))
           /\ \A e \in Aggregate(lanes).evidence : e.block \in Blocks
  <1> DEFINE all == Candidates(lanes)
  <1>1. all \subseteq Blocks
    <2>1. \A e \in Evidence(lanes) : e.block \in Blocks
      BY DEF Evidence, Decoded
    <2>2. Repeated(lanes) \subseteq Blocks
      BY DEF Repeated, Decoded
    <2> QED  BY <2>1, <2>2 DEF Candidates
  <1>2. \A e \in Evidence(lanes) : e.block \in all
    BY DEF Candidates
  <1>3. IsFiniteSet(all)
    BY <1>1, CodeAssumption, FS_Subset
  <1>4. /\ Aggregate(lanes).state = GroupState(lanes)
        /\ Aggregate(lanes).evidence = Evidence(lanes)
        /\ Aggregate(lanes).chosen = IF Released(GroupState(lanes)) THEN all ELSE {}
    BY DEF Aggregate, Chosen
  <1>5. Released(GroupState(lanes)) => ~(Cardinality(all) > 1) /\ all # {}
    BY DEF Released, GroupState
  <1> HIDE DEF all
  <1>6. ASSUME Released(GroupState(lanes)) PROVE \E b : all = {b}
    <2>1. Cardinality(all) \in Nat
      BY <1>3, FS_CardinalityType
    <2>2. Cardinality(all) # 0
      BY <1>3, <1>5, <1>6, FS_EmptySet
    <2>3. Cardinality(all) = 1
      BY <1>5, <1>6, <2>1, <2>2
    <2> QED  BY <1>3, <2>3, FS_Singleton
  <1>7. Sound(Aggregate(lanes))
    BY <1>2, <1>4, <1>6 DEF Sound
  <1> QED  BY <1>1, <1>2, <1>4, <1>7

LEMMA ReadingSound ==
    ASSUME NEW s \in Sections, NEW reading \in Readings(s), profile \in {"hier", "copies"}
    PROVE  /\ DOMAIN reading = Places(s)
           /\ \A p \in Places(s) : /\ Sound(reading[p])
                                   /\ \A e \in reading[p].evidence : e.block \in Blocks
  <1>1. Factor(s) \in DOMAIN Observations
    BY RolesAssumption DEF Factor
  <1>2. \A p \in Places(s) : \E lanes : reading[p] = Aggregate(lanes)
    BY <1>1 DEF Readings, Outcomes
  <1> QED  BY <1>2, AggregateSound DEF Readings

LEMMA CarriedIs ==
    ASSUME TypeOK, NEW unit \in DOMAIN arrived
    PROVE  LET d == arrived[unit]
           IN  /\ d.state \in {"missing", "corrupt", "recovered", "verified"}
               /\ d.carried \subseteq SectionBlocks(Inventory)
               /\ d.carried # {} => Released(d.state) /\ \E b \in d.carried : d.carried = {b}
  <1>1. unit \in DOMAIN Deliveries /\ arrived[unit] \in Deliveries[unit]
    BY DEF TypeOK
  <1> DEFINE d == arrived[unit]
  <1>2. /\ d \in [state : {"missing", "corrupt", "recovered", "verified"},
                  carried : SUBSET SectionBlocks(Inventory)]
        /\ d.carried # {} => /\ d.state \in {"recovered", "verified"}
                            /\ \E b \in d.carried : d.carried = {b}
    BY <1>1, RolesAssumption
  <1> HIDE DEF d
  <1> QED  BY <1>2 DEF Released, d

LEMMA ArrivedSound ==
    ASSUME TypeOK, DOMAIN arrived = DOMAIN Deliveries
    PROVE  /\ DOMAIN ArrivedReading = InventoryPlaces
           /\ \A p \in InventoryPlaces : Sound(ArrivedReading[p])
  <1>1. ASSUME NEW p \in InventoryPlaces PROVE Sound(ArrivedReading[p])
    <2> DEFINE d == arrived[p]
               own == {b \in d.carried : <<b.copy, b.fragment>> = p}
               state == IF own = {} /\ d.state # "missing" THEN "corrupt" ELSE d.state
    <2>1. p \in DOMAIN arrived
      BY RolesAssumption
    <2>2. /\ d.state \in {"missing", "corrupt", "recovered", "verified"}
          /\ d.carried # {} => Released(d.state) /\ \E b \in d.carried : d.carried = {b}
      BY <2>1, CarriedIs
    <2>3. /\ ArrivedReading[p].state = state
          /\ ArrivedReading[p].chosen = {b.source : b \in own}
          /\ ArrivedReading[p].evidence =
                {[block |-> b.source, verified |-> d.state = "verified"] : b \in own}
      BY DEF ArrivedReading
    <2>4. own = {} \/ (Released(d.state) /\ \E b \in own : own = {b})
      BY <2>2
    <2> HIDE DEF own, d
    <2>5. CASE own = {}
      BY <2>3, <2>5 DEF Sound, Released
    <2>6. CASE own # {}
      <3>1. PICK b \in own : own = {b}
        BY <2>4, <2>6
      <3>2. ArrivedReading[p].chosen = {b.source} /\ Released(ArrivedReading[p].state)
        BY <2>3, <2>4, <2>6, <3>1
      <3>3. \A e \in ArrivedReading[p].evidence : e.block = b.source
        BY <2>3, <3>1
      <3> QED  BY <3>2, <3>3 DEF Sound
    <2> QED  BY <2>5, <2>6
  <1> QED  BY <1>1 DEF ArrivedReading

-----------------------------------------------------------------------------
(* The assembly of one semantic copy is blind to the order of its blocks.  *)

LEMMA AddBlockFiles ==
    ASSUME NEW copy, NEW B, NEW b, Files(copy, B)
    PROVE  Files(AddBlock(copy, b), B \cup {b})
  <1> DEFINE held == {x \in copy.held : x.fragment = b.fragment}
             clash == copy.identity \notin {{}, {Identity(b)}} \/ held \notin {{}, {b}}
  <1>1. AddBlock(copy, b) =
           IF copy.conflict \/ clash THEN [copy EXCEPT !.conflict = TRUE]
           ELSE [identity |-> {Identity(b)}, held |-> copy.held \cup {b}, conflict |-> FALSE]
    BY DEF AddBlock
  <1>2. "conflict" \in DOMAIN copy
    BY DEF Files
  <1>3. /\ "conflict" \in DOMAIN [copy EXCEPT !.conflict = TRUE]
        /\ [copy EXCEPT !.conflict = TRUE].conflict
    BY <1>2
  <1>4. CASE ~Agree(B)
    <2>1. ~Agree(B \cup {b})
      BY <1>4 DEF Agree
    <2>2. copy.conflict
      BY <1>4 DEF Files
    <2>3. AddBlock(copy, b) = [copy EXCEPT !.conflict = TRUE]
      BY <1>1, <2>2
    <2> QED  BY <1>3, <2>1, <2>3 DEF Files
  <1>5. CASE Agree(B)
    <2>1. copy.identity = {Identity(x) : x \in B} /\ copy.held = B /\ ~copy.conflict
      BY <1>5 DEF Files
    <2>2. Agree(B \cup {b}) <=> /\ \A x \in B : Identity(x) = Identity(b)
                               /\ \A x \in B : x.fragment = b.fragment => x = b
      BY <1>5 DEF Agree
    <2>3. copy.identity \in {{}, {Identity(b)}} <=> \A x \in B : Identity(x) = Identity(b)
      BY <2>1
    <2>4. held \in {{}, {b}} <=> \A x \in B : x.fragment = b.fragment => x = b
      BY <2>1
    <2>5. clash <=> ~Agree(B \cup {b})
      BY <2>2, <2>3, <2>4
    <2> HIDE DEF clash, held
    <2>6. CASE clash
      <3>1. AddBlock(copy, b) = [copy EXCEPT !.conflict = TRUE]
        BY <1>1, <2>6
      <3> QED  BY <1>3, <2>5, <2>6, <3>1 DEF Files
    <2>7. CASE ~clash
      <3>1. {Identity(x) : x \in B \cup {b}} = {Identity(b)}
        BY <2>2, <2>5, <2>7
      <3>2. AddBlock(copy, b)
               = [identity |-> {Identity(b)}, held |-> B \cup {b}, conflict |-> FALSE]
        BY <1>1, <2>1, <2>7
      <3> QED  BY <2>5, <2>7, <3>1, <3>2 DEF Files
    <2> QED  BY <2>6, <2>7
  <1> QED  BY <1>4, <1>5

LEMMA OneCopyAgrees ==
    ASSUME NEW B, IsFiniteSet(B), B # {}
    PROVE  OneCopy(B) <=> Agree(B)
  <1> DEFINE ids == {Identity(b) : b \in B}
  <1>1. IsFiniteSet(ids)
    <2> DEFINE f == [b \in B |-> Identity(b)]
    <2>1. f \in Surjection(B, ids)
      BY DEF Surjection
    <2> HIDE DEF f, ids
    <2> QED  BY <2>1, FS_Surjection
  <1>2. Cardinality(ids) = 1 <=> \E x : ids = {x}
    <2> HIDE DEF ids
    <2> QED  BY <1>1, FS_Singleton
  <1>3. (\E x : ids = {x}) <=> \A x, y \in B : Identity(x) = Identity(y)
    OBVIOUS
  <1> QED  BY <1>2, <1>3 DEF OneCopy, Agree

-----------------------------------------------------------------------------
(* What a section yields from a sound reading of its places.               *)

Readable(s, reading) == \A p \in Places(s) : Sound(reading[p])

LEMMA PlacesAre ==
    ASSUME NEW s \in Sections, profile \in {"hier", "copies"}
    PROVE  /\ \A c \in CopyIds(s), f \in Fragments(s) : <<c, f>> \in Places(s)
           /\ \A p \in Places(s) : \E c \in CopyIds(s), f \in Fragments(s) : p = <<c, f>>
           /\ CopyIds(s) # {}
           /\ profile = "hier" => CopyIds(s) = {0}
  BY Geometry DEF Places, CopyIds

(* What is accepted at a place is all that was released there.             *)
LEMMA AcceptedIsChosen ==
    ASSUME NEW outcome, NEW s, NEW expected, Sound(outcome),
           Accepted(outcome, s, expected) # {}
    PROVE  /\ Released(outcome.state)
           /\ Accepted(outcome, s, expected) = outcome.chosen
           /\ \E b \in Sources : /\ outcome.chosen = {b}
                                 /\ Layout[b][s].length = Layout[expected][s].length
           /\ \A e \in outcome.evidence : e.block \in outcome.chosen
  BY DEF Sound, Accepted

LEMMA OneIsSome ==
    ASSUME NEW S, Cardinality(S) = 1
    PROVE  S # {}
  BY FS_EmptySet

LEMMA HierVetted ==
    ASSUME NEW s \in Sections, NEW reading, NEW expected \in Sources, profile = "hier",
           Readable(s, reading), DOMAIN reading = Places(s)
    PROVE  LET answer == HierResult(reading, s, expected)
           IN  /\ answer \in [state : States, envelope : SUBSET Sources]
               /\ Vetted(answer, Proved(reading))
               /\ \A source \in answer.envelope : AgreesWithInventory(source, s, expected)
  <1> DEFINE accepted(f) == Accepted(reading[<<0, f>>], s, expected)
             states == {PlaceState(reading[<<0, f>>], s, expected) : f \in Fragments(s)}
             joined == UNION {accepted(f) : f \in Fragments(s)}
             whole == /\ \A f \in Fragments(s) : accepted(f) # {}
                      /\ Cardinality(joined) = 1
                      /\ \A source \in joined : AgreesWithInventory(source, s, expected)
             answer == HierResult(reading, s, expected)
  <1>1. /\ whole => /\ answer = Result(IF states = {"verified"} THEN "verified" ELSE "recovered",
                                       joined)
        /\ ~whole => \/ answer = Result("corrupt", {})
                     \/ answer = Result("incomplete", {})
    BY DEF HierResult
  <1>2. joined \subseteq Sources
    BY DEF Accepted
  <1>3. ASSUME whole PROVE joined # {} /\ Proved(reading) \subseteq joined
    <2>1. joined # {}
      BY <1>3, OneIsSome
    <2>2. ASSUME NEW p \in Places(s), NEW e \in reading[p].evidence
          PROVE  e.block \in joined
      <3>1. PICK f \in Fragments(s) : p = <<0, f>>
        BY PlacesAre
      <3>2. Sound(reading[<<0, f>>])
        BY <3>1 DEF Readable
      <3>3. e.block \in accepted(f)
        BY <1>3, <2>2, <3>1, <3>2, AcceptedIsChosen
      <3> QED  BY <3>3
    <2> HIDE DEF joined
    <2> QED  BY <2>1, <2>2 DEF Proved
  <1>a. whole => \A source \in joined : AgreesWithInventory(source, s, expected)
    OBVIOUS
  <1> HIDE DEF joined, whole, states, answer
  <1>4. CASE whole
    <2>1. answer = [state |-> IF states = {"verified"} THEN "verified" ELSE "recovered",
                    envelope |-> joined]
      BY <1>1, <1>4 DEF Result
    <2> QED  BY <1>2, <1>3, <1>4, <1>a, <2>1 DEF Vetted, Released, States, answer
  <1>5. CASE ~whole
    <2>1. answer \in [state : States, envelope : SUBSET Sources] /\ answer.envelope = {}
          /\ ~Released(answer.state) /\ answer.state # "ambiguous"
      BY <1>1, <1>5 DEF Result, States, Released
    <2> QED  BY <2>1 DEF Vetted, answer
  <1> QED  BY <1>4, <1>5

LEMMA LogicalVetted ==
    ASSUME NEW witnesses, witnesses # {}, \A w \in witnesses : w.source \in Sources
    PROVE  LET answer == RecoverLogical(witnesses)
           IN  /\ answer \in [state : States, envelope : SUBSET Sources]
               /\ Vetted(answer, {w.source : w \in witnesses})
               /\ answer.envelope # {} => answer.envelope = {w.source : w \in witnesses}
  <1> DEFINE envelopes == {w.source : w \in witnesses}
             answer == RecoverLogical(witnesses)
  <1>1. envelopes \subseteq Sources
    OBVIOUS
  <1>2. answer = IF Cardinality(envelopes) # 1 THEN Result("ambiguous", {})
                 ELSE Result(IF \E w \in witnesses : w.verified THEN "verified" ELSE "recovered",
                             envelopes)
    BY DEF RecoverLogical
  <1> HIDE DEF envelopes, answer
  <1>3. CASE Cardinality(envelopes) # 1
    <2>1. PICK a \in envelopes : TRUE
      BY DEF envelopes
    <2>2. envelopes # {a}
      BY <1>3, FS_Singleton
    <2>3. \E b \in envelopes : b # a
      BY <2>1, <2>2
    <2>4. answer = [state |-> "ambiguous", envelope |-> {}]
      BY <1>2, <1>3 DEF Result
    <2> QED  BY <2>1, <2>3, <2>4 DEF States, Vetted, Released, answer, envelopes
  <1>4. CASE Cardinality(envelopes) = 1
    <2>1. envelopes # {}
      BY <1>4, OneIsSome
    <2>2. /\ answer.envelope = envelopes /\ answer.state \in {"verified", "recovered"}
          /\ answer \in [state : States, envelope : SUBSET Sources]
      BY <1>1, <1>2, <1>4 DEF Result, States
    <2> QED  BY <2>1, <2>2 DEF Vetted, Released, answer, envelopes
  <1> QED  BY <1>3, <1>4

(* A complete copy carries one envelope of the expected length.            *)
LEMMA WitnessesAgree ==
    ASSUME NEW s \in Sections, NEW reading, NEW expected \in Sources,
           NEW w \in Witnesses(reading, s, expected)
    PROVE  w.source \in Sources /\ AgreesWithInventory(w.source, s, expected)
  <1> DEFINE joined(c) == UNION {Accepted(reading[<<c, f>>], s, expected) : f \in Fragments(s)}
             unchanged(c) == \A f \in Fragments(s) : reading[<<c, f>>].state = "verified"
  <1>1. PICK c \in CopyIds(s) :
           w \in {[source |-> source, verified |-> unchanged(c)] : source \in joined(c)}
    BY DEF Witnesses
  <1>2. PICK f \in Fragments(s) : w.source \in Accepted(reading[<<c, f>>], s, expected)
    <2>1. PICK source \in joined(c) : w = [source |-> source, verified |-> unchanged(c)]
      BY <1>1
    <2> HIDE DEF unchanged
    <2>2. w.source \in joined(c)
      BY <2>1
    <2> QED  BY <2>2
  <1> QED  BY <1>2, LengthSettles DEF Accepted

LEMMA CopiesVetted ==
    ASSUME NEW s \in Sections, NEW reading, NEW expected \in Sources
    PROVE  LET answer == CopiesResult(reading, s, expected)
           IN  /\ answer \in [state : States, envelope : SUBSET Sources]
               /\ Vetted(answer, {w.source : w \in Witnesses(reading, s, expected)})
               /\ \A source \in answer.envelope : AgreesWithInventory(source, s, expected)
  <1> DEFINE all == Witnesses(reading, s, expected)
             answer == CopiesResult(reading, s, expected)
  <1>1. \A w \in all : w.source \in Sources /\ AgreesWithInventory(w.source, s, expected)
    BY WitnessesAgree
  <1>2. {w \in all : AgreesWithInventory(w.source, s, expected)} = all
    BY <1>1
  <1>3. /\ all # {} => answer = RecoverLogical(all)
        /\ all = {} => \/ answer = Result("corrupt", {})
                       \/ answer = Result("incomplete", {})
    BY <1>2 DEF CopiesResult
  <1> HIDE DEF all, answer
  <1>4. CASE all # {}
    <2>1. /\ answer \in [state : States, envelope : SUBSET Sources]
          /\ Vetted(answer, {w.source : w \in all})
          /\ answer.envelope # {} => answer.envelope = {w.source : w \in all}
      BY <1>1, <1>3, <1>4, LogicalVetted
    <2>2. \A source \in answer.envelope : AgreesWithInventory(source, s, expected)
      BY <1>1, <2>1
    <2> QED  BY <2>1, <2>2 DEF all, answer
  <1>5. CASE all = {}
    <2>1. answer \in [state : States, envelope : SUBSET Sources] /\ answer.envelope = {}
          /\ ~Released(answer.state) /\ answer.state # "ambiguous"
      BY <1>3, <1>5 DEF Result, States, Released
    <2> QED  BY <2>1 DEF Vetted, answer
  <1> QED  BY <1>4, <1>5

LEMMA RawVetted ==
    ASSUME NEW s \in Sections, NEW read, profile \in {"hier", "copies"},
           \A r \in read : r.block.source \in Sources /\ r.block.copy \in CopyIds(s)
    PROVE  /\ RawResult(read, s) \in [state : States, envelope : SUBSET Sources]
           /\ RawRivals(read, s) \subseteq Sources
           /\ Vetted(RawResult(read, s), RawRivals(read, s))
  <1> DEFINE all == RawWitnesses(read, s)
             told == {w.source : w \in all}
             answer == RawResult(read, s)
             mine(c) == {r \in read : r.block.copy = c}
             blocks(c) == {r.block : r \in mine(c)}
             unchanged(c) == \A r \in mine(c) : r.verified
             of(c) == {[source |-> source, verified |-> unchanged(c)] :
                         source \in AssembleSet(blocks(c), s)}
  <1>1. all = UNION {of(c) : c \in CopyIds(s)}
    BY DEF RawWitnesses
  <1>2. \A c, source : source \in AssembleSet(blocks(c), s) =>
           AssembleSet(blocks(c), s) = {b.source : b \in blocks(c)}
    BY DEF AssembleSet, Checked
  <1>3. ASSUME NEW w \in all
        PROVE  \E c \in CopyIds(s) : w.source \in AssembleSet(blocks(c), s)
    <2>1. PICK c \in CopyIds(s) : w \in of(c)
      BY <1>1
    <2>2. PICK source \in AssembleSet(blocks(c), s) :
             w = [source |-> source, verified |-> unchanged(c)]
      BY <2>1
    <2> HIDE DEF unchanged, blocks
    <2>3. w.source = source
      BY <2>2
    <2> QED  BY <2>2, <2>3
  <1>4. ASSUME NEW c \in CopyIds(s), NEW source \in AssembleSet(blocks(c), s)
        PROVE  source \in told
    <2> HIDE DEF unchanged, blocks
    <2>1. [source |-> source, verified |-> unchanged(c)] \in of(c)
      OBVIOUS
    <2> HIDE DEF of, all
    <2>2. [source |-> source, verified |-> unchanged(c)] \in all
      BY <1>1, <2>1
    <2>3. [source |-> source, verified |-> unchanged(c)].source = source
      OBVIOUS
    <2> QED  BY <2>2, <2>3
  <1>5. \A w \in all : w.source \in Sources
    <2> SUFFICES ASSUME NEW w \in all PROVE w.source \in Sources
      OBVIOUS
    <2>1. PICK c \in CopyIds(s) : w.source \in AssembleSet(blocks(c), s)
      BY <1>3
    <2>2. w.source \in {b.source : b \in blocks(c)}
      BY <1>2, <2>1
    <2> QED  BY <2>2
  <1>6. /\ all = {} => answer = Result("absent", {})
        /\ all # {} => answer = RecoverLogical(all)
    BY DEF RawResult
  <1>7. RawRivals(read, s) = IF profile = "hier" THEN {r.block.source : r \in read} ELSE told
    BY DEF RawRivals
  <1>8. RawRivals(read, s) \subseteq Sources
    BY <1>5, <1>7
  <1>9. ASSUME profile = "hier", all # {} PROVE {r.block.source : r \in read} = told
    <2>1. CopyIds(s) = {0} /\ mine(0) = read
      BY <1>9, PlacesAre
    <2>2. PICK w \in all : w.source \in AssembleSet(blocks(0), s)
      BY <1>3, <1>9, <2>1
    <2>3. AssembleSet(blocks(0), s) = {b.source : b \in blocks(0)}
      BY <1>2, <2>2
    <2>4. {b.source : b \in blocks(0)} = {r.block.source : r \in read}
      BY <2>1
    <2>5. told \subseteq AssembleSet(blocks(0), s)
      <3> HIDE DEF blocks, all
      <3> QED  BY <1>3, <2>1
    <2>6. AssembleSet(blocks(0), s) \subseteq told
      <3> HIDE DEF blocks, told
      <3> QED  BY <1>4, <2>1
    <2> HIDE DEF told, blocks, all
    <2> QED  BY <2>3, <2>4, <2>5, <2>6
  <1> HIDE DEF all, answer
  <1>10. CASE all = {}
    <2>1. /\ answer \in [state : States, envelope : SUBSET Sources] /\ answer.envelope = {}
          /\ ~Released(answer.state) /\ answer.state # "ambiguous"
      BY <1>6, <1>10 DEF Result, States, Released
    <2> QED  BY <1>8, <2>1 DEF Vetted, answer
  <1>11. CASE all # {}
    <2>1. RawRivals(read, s) = told
      BY <1>7, <1>9, <1>11
    <2>2. /\ answer \in [state : States, envelope : SUBSET Sources]
          /\ Vetted(answer, told)
      BY <1>5, <1>6, <1>11, LogicalVetted
    <2> QED  BY <1>8, <2>1, <2>2 DEF answer
  <1> QED  BY <1>10, <1>11

-----------------------------------------------------------------------------
(* A section that was read as sent is released as sent, whatever the other *)
(* copies of it say.                                                       *)

LEMMA HierSent ==
    ASSUME NEW s \in Sections, NEW reading, profile = "hier", ReadAsSent(reading, s)
    PROVE  HierResult(reading, s, Sent).envelope = {Sent}
  <1> DEFINE accepted(f) == Accepted(reading[<<0, f>>], s, Sent)
             joined == UNION {accepted(f) : f \in Fragments(s)}
             states == {PlaceState(reading[<<0, f>>], s, Sent) : f \in Fragments(s)}
  <1>1. \A f \in Fragments(s) : reading[<<0, f>>].chosen = {Sent}
    BY DEF ReadAsSent, CopyIds
  <1>2. \A f \in Fragments(s) : accepted(f) = {Sent}
    BY <1>1, SentIsCarrier DEF Accepted
  <1>3. joined = {Sent}
    BY <1>2, Geometry
  <1>4. Cardinality(joined) = 1
    BY <1>3, FS_Singleton
  <1>5. \A source \in joined : AgreesWithInventory(source, s, Sent)
    BY <1>3 DEF AgreesWithInventory
  <1>6. HierResult(reading, s, Sent)
           = Result(IF states = {"verified"} THEN "verified" ELSE "recovered", joined)
    BY <1>2, <1>4, <1>5 DEF HierResult
  <1> HIDE DEF joined, states
  <1> QED  BY <1>3, <1>6 DEF Result

LEMMA CopiesSent ==
    ASSUME NEW s \in Sections, NEW reading, profile = "copies",
           Readable(s, reading), ReadAsSent(reading, s)
    PROVE  CopiesResult(reading, s, Sent).envelope = {Sent}
  <1> DEFINE accepted(c, f) == Accepted(reading[<<c, f>>], s, Sent)
             joined(c) == UNION {accepted(c, f) : f \in Fragments(s)}
             unchanged(c) == \A f \in Fragments(s) : reading[<<c, f>>].state = "verified"
             whole(c) == Failed(reading, s, Sent, c) = {} /\ Cardinality(joined(c)) = 1
             of(c) == IF whole(c)
                      THEN {[source |-> source, verified |-> unchanged(c)] : source \in joined(c)}
                      ELSE {}
             all == Witnesses(reading, s, Sent)
  <1>1. all = UNION {of(c) : c \in CopyIds(s)}
    BY DEF Witnesses
  <1>2. \A c, f : <<c, f>> \in Places(s) => Sound(reading[<<c, f>>])
    BY DEF Readable
  <1>3. PICK c \in CopyIds(s) : \A f \in Fragments(s) : reading[<<c, f>>].chosen = {Sent}
    BY DEF ReadAsSent
  <1>4. ASSUME NEW d \in CopyIds(s), whole(d)
        PROVE  joined(d) = {Sent}
    <2>1. joined(d) \subseteq Sources
      BY DEF Accepted
    <2>2. IsFiniteSet(joined(d))
      BY <2>1, SentIsCarrier, FS_Subset
    <2>3. PICK x : joined(d) = {x}
      <3> DEFINE J == joined(d)
      <3>1. IsFiniteSet(J) /\ Cardinality(J) = 1
        BY <1>4, <2>2
      <3> HIDE DEF J
      <3>2. \E x : J = {x}
        BY <3>1, FS_Singleton
      <3> QED  BY <3>2 DEF J
    <2>4. ASSUME NEW f \in Fragments(s) PROVE reading[<<d, f>>].chosen = {x}
      <3>1. accepted(d, f) # {}
        BY <1>4 DEF Failed
      <3>2. Sound(reading[<<d, f>>])
        BY <1>2, PlacesAre
      <3>3. /\ accepted(d, f) = reading[<<d, f>>].chosen
            /\ \E b \in Sources : reading[<<d, f>>].chosen = {b}
        BY <3>1, <3>2, AcceptedIsChosen
      <3>4. accepted(d, f) \subseteq joined(d)
        OBVIOUS
      <3> HIDE DEF accepted, joined
      <3> QED  BY <2>3, <3>3, <3>4
    <2>5. x \in Sources
      BY <2>1, <2>3
    <2>6. x = Sent
      BY <2>4, <2>5 DEF ReadAsSent
    <2> QED  BY <2>3, <2>6
  <1>5. whole(c)
    <2>1. \A f \in Fragments(s) : accepted(c, f) = {Sent}
      BY <1>3, SentIsCarrier DEF Accepted
    <2>2. joined(c) = {Sent}
      BY <2>1, Geometry
    <2>3. Cardinality(joined(c)) = 1
      BY <2>2, FS_Singleton
    <2> QED  BY <2>1, <2>3 DEF Failed
  <1>6. /\ \A w \in all : w.source = Sent
        /\ \E w \in all : TRUE
    <2>1. ASSUME NEW w \in all PROVE w.source = Sent
      <3>1. PICK d \in CopyIds(s) : w \in of(d)
        BY <1>1
      <3>2. whole(d) /\ joined(d) = {Sent}
        BY <1>4, <3>1
      <3>3. w = [source |-> Sent, verified |-> unchanged(d)]
        BY <3>1, <3>2
      <3> HIDE DEF unchanged
      <3> QED  BY <3>3
    <2>2. [source |-> Sent, verified |-> unchanged(c)] \in of(c)
      BY <1>4, <1>5
    <2>3. [source |-> Sent, verified |-> unchanged(c)] \in all
      <3> HIDE DEF of, all, unchanged
      <3> QED  BY <1>1, <2>2
    <2> QED  BY <2>1, <2>3
  <1>7. {w \in all : AgreesWithInventory(w.source, s, Sent)} = all
    BY <1>6 DEF AgreesWithInventory
  <1>8. CopiesResult(reading, s, Sent) = RecoverLogical(all)
    BY <1>6, <1>7 DEF CopiesResult
  <1> HIDE DEF all
  <1>9. {w.source : w \in all} = {Sent}
    BY <1>6
  <1>10. Cardinality({w.source : w \in all}) = 1
    BY <1>9, FS_Singleton
  <1> QED  BY <1>8, <1>9, <1>10 DEF RecoverLogical, Result

-----------------------------------------------------------------------------
(* What a look at a section notes.                                         *)

Judged(s, answer, proved, found, asSent) ==
    /\ answer \in [state : States, envelope : SUBSET Sources]
    /\ proved \in SUBSET Blocks
    /\ Vetted(answer, proved)
    /\ AgreedWith(answer.envelope, s, found)
    /\ found = {Sent} /\ asSent => answer.envelope = {Sent}

Noted(s, found, asSent) ==
    /\ \E answer, proved : /\ Judged(s, answer, proved, found, asSent)
                           /\ sections' = [sections EXCEPT ![s] = answer]
                           /\ rivals' = [rivals EXCEPT ![s] = proved]
    /\ intact' = IF asSent THEN intact \cup {s} ELSE intact

LEMMA NoteJudged ==
    ASSUME NEW s, NEW answer, NEW told, NEW found, NEW asSent,
           Note(s, answer, told, asSent), Judged(s, answer, told, found, asSent)
    PROVE  Noted(s, found, asSent)
  <1> DEFINE proved == IF Released(answer.state) \/ answer.state = "ambiguous" THEN told ELSE {}
  <1>1. /\ sections' = [sections EXCEPT ![s] = answer]
        /\ rivals' = [rivals EXCEPT ![s] = proved]
        /\ intact' = IF asSent THEN intact \cup {s} ELSE intact
    BY DEF Note
  <1>2. Judged(s, answer, proved, found, asSent)
    BY DEF Judged, Vetted
  <1> HIDE DEF proved
  <1> QED  BY <1>1, <1>2 DEF Noted

(* Under an inventory.                                                     *)
LEMMA Looked ==
    ASSUME TypeOK, NEW s \in Sections, NEW reading, NEW found \in SUBSET Sources,
           NEW asSent, found # {}, asSent => ReadAsSent(reading, s),
           Readable(s, reading), DOMAIN reading = Places(s),
           profile = "hier" =>
              \A p \in Places(s) : \A e \in reading[p].evidence : e.block \in Blocks,
           Look(s, reading, found, asSent)
    PROVE  Noted(s, found, asSent)
  <1> DEFINE expected == CHOOSE x \in found : TRUE
             answer == SectionResult(reading, s, expected)
             told == RivalsOf(reading, s, expected)
  <1>1. Note(s, answer, told, asSent)
    BY DEF Look
  <1>2. profile \in {"hier", "copies"}
    BY DEF TypeOK
  <1>3. expected \in Sources /\ (found = {Sent} => expected = Sent)
    OBVIOUS
  <1>4. CASE profile = "hier"
    <2>1. answer = HierResult(reading, s, expected) /\ told = Proved(reading)
      BY <1>4 DEF SectionResult, RivalsOf
    <2>2. /\ answer \in [state : States, envelope : SUBSET Sources]
          /\ Vetted(answer, told)
          /\ \A source \in answer.envelope : AgreesWithInventory(source, s, expected)
      BY <1>3, <1>4, <2>1, HierVetted
    <2>3. found = {Sent} /\ asSent => answer.envelope = {Sent}
      BY <1>3, <1>4, <2>1, HierSent
    <2>4. told \subseteq Blocks
      BY <1>4, <2>1 DEF Proved
    <2>5. AgreedWith(answer.envelope, s, found)
      BY <2>2 DEF AgreedWith
    <2> HIDE DEF answer, told, expected
    <2> QED  BY <1>1, <2>2, <2>3, <2>4, <2>5, NoteJudged DEF Judged
  <1>5. CASE profile = "copies"
    <2>1. /\ answer = CopiesResult(reading, s, expected)
          /\ told = {w.source : w \in Witnesses(reading, s, expected)}
      BY <1>5 DEF SectionResult, RivalsOf
    <2>2. /\ answer \in [state : States, envelope : SUBSET Sources]
          /\ Vetted(answer, told)
          /\ \A source \in answer.envelope : AgreesWithInventory(source, s, expected)
      <3> HIDE DEF answer, told, expected
      <3> QED  BY <1>3, <2>1, CopiesVetted
    <2>3. found = {Sent} /\ asSent => answer.envelope = {Sent}
      BY <1>3, <1>5, <2>1, CopiesSent
    <2>4. told \subseteq Blocks
      BY <1>3, <2>1, WitnessesAgree, SentIsCarrier
    <2>5. AgreedWith(answer.envelope, s, found)
      BY <2>2 DEF AgreedWith
    <2> HIDE DEF answer, told, expected
    <2> QED  BY <1>1, <2>2, <2>3, <2>4, <2>5, NoteJudged DEF Judged
  <1> QED  BY <1>2, <1>4, <1>5

(* Without one.                                                            *)
LEMMA Diagnosed ==
    ASSUME TypeOK, NEW s \in Sections, NEW reading \in Readings(s),
           NEW misplaced \in Misplaced[s], NEW read,
           read = PlaceBlocks(reading, s)
                     \cup {m \in misplaced : m.block.copy \in CopyIds(s)}
    PROVE  Judged(s, RawResult(read, s), RawRivals(read, s), {}, ReadAsSent(reading, s))
  <1>1. profile \in {"hier", "copies"}
    BY DEF TypeOK
  <1>2. DOMAIN reading = Places(s)
    BY <1>1, ReadingSound
  <1>3. ASSUME NEW r \in read
        PROVE  r.block.source \in Sources /\ r.block.copy \in CopyIds(s)
    <2>1. CASE r \in PlaceBlocks(reading, s)
      <3>1. PICK p \in DOMAIN reading : \E e \in reading[p].evidence :
               /\ e.block \in Sources
               /\ r = [block |-> Block(e.block, s, p[1], p[2]), verified |-> e.verified]
        BY <2>1 DEF PlaceBlocks
      <3>2. PICK e \in reading[p].evidence :
               /\ e.block \in Sources
               /\ r = [block |-> Block(e.block, s, p[1], p[2]), verified |-> e.verified]
        BY <3>1
      <3>3. p[1] \in CopyIds(s)
        BY <1>2, <3>1 DEF Places
      <3>4. r.block = Block(e.block, s, p[1], p[2])
        BY <3>2
      <3> QED  BY <3>2, <3>3, <3>4 DEF Block
    <2>2. CASE r \in misplaced /\ r.block.copy \in CopyIds(s)
      <3>1. r.block \in SectionBlocks(s)
        BY <2>2, RolesAssumption
      <3> QED  BY <2>2, <3>1 DEF SectionBlocks, Block
    <2> QED  BY <2>1, <2>2
  <1>4. /\ RawResult(read, s) \in [state : States, envelope : SUBSET Sources]
        /\ RawRivals(read, s) \subseteq Sources
        /\ Vetted(RawResult(read, s), RawRivals(read, s))
    BY <1>1, <1>3, RawVetted
  <1> QED  BY <1>4, SentIsCarrier DEF Judged, AgreedWith

-----------------------------------------------------------------------------
(* The inventory of a copies profile, from the copies as assembled.        *)

LEMMA DeliveredIs ==
    ASSUME TypeOK, NEW c, NEW b \in DeliveredBlocks(c)
    PROVE  /\ b.source \in Sources /\ b.fragment \in Fragments(Inventory) /\ b.copy = c
           /\ b = Block(b.source, Inventory, c, b.fragment)
  <1>1. PICK unit \in DOMAIN arrived : b \in arrived[unit].carried
    BY DEF DeliveredBlocks
  <1>2. b \in SectionBlocks(Inventory) /\ b.copy = c
    BY <1>1, CarriedIs DEF DeliveredBlocks
  <1>3. PICK source \in Sources, k \in Copies(Inventory), f \in Fragments(Inventory) :
           b = Block(source, Inventory, k, f)
    BY <1>2 DEF SectionBlocks
  <1>4. b.source = source /\ b.copy = k /\ b.fragment = f
    BY <1>3 DEF Block
  <1> QED  BY <1>2, <1>3, <1>4

(* What was carried for one copy is the whole envelope of one carrier.     *)
Carried(c, source) ==
    DeliveredBlocks(c) = {Block(source, Inventory, c, f) : f \in Fragments(Inventory)}

LEMMA WitnessBlocks ==
    ASSUME TypeOK, Filed, NEW w \in InventoryWitnesses
    PROVE  w.source \in Sources /\ \E c \in Copies(Inventory) : Carried(c, w.source)
  <1> DEFINE unchanged(c) == \A u \in DeliveredTo(c) : arrived[u].state = "verified"
             of(c) == {[source |-> source, verified |-> unchanged(c)] :
                          source \in Assemble(copies[c], Inventory)}
  <1>1. InventoryWitnesses = UNION {of(c) : c \in Copies(Inventory)}
    BY DEF InventoryWitnesses, TypeOK
  <1>2. PICK c \in Copies(Inventory) : w.source \in Assemble(copies[c], Inventory)
    <2>1. PICK c \in Copies(Inventory) : w \in of(c)
      BY <1>1
    <2>2. PICK source \in Assemble(copies[c], Inventory) :
             w = [source |-> source, verified |-> unchanged(c)]
      BY <2>1
    <2> HIDE DEF unchanged
    <2>3. w.source = source
      BY <2>2
    <2> QED  BY <2>2, <2>3
  <1> DEFINE B == DeliveredBlocks(c)
             origins == {b.source : b \in B}
  <1>3. copies[c].held = B /\ ~copies[c].conflict
    <2> DEFINE copy == copies[c]
    <2>1. ~copy.conflict
      BY <1>2 DEF Assemble
    <2>2. Files(copy, B)
      BY DEF Filed
    <2> HIDE DEF copy, B
    <2>3. copy.held = B
      BY <2>1, <2>2 DEF Files
    <2> QED  BY <2>1, <2>3 DEF copy
  <1>4. Complete(B, Inventory) /\ w.source \in Checked(B)
    BY <1>2, <1>3 DEF Assemble
  <1>5. Cardinality(origins) = 1 /\ w.source \in origins
    BY <1>4 DEF Checked
  <1>6. origins \subseteq Sources
    BY DeliveredIs
  <1>7. \A b \in B : b.source \in origins
    OBVIOUS
  <1> HIDE DEF origins
  <1>8. IsFiniteSet(origins)
    BY <1>6, SentIsCarrier, FS_Subset
  <1>9. origins = {w.source}
    BY <1>5, <1>8, FS_Singleton
  <1>10. ASSUME NEW f \in Fragments(Inventory)
         PROVE  Block(w.source, Inventory, c, f) \in B
    <2>1. PICK b \in B : b.fragment = f
      BY <1>4 DEF Complete
    <2>2. b.source = w.source /\ b = Block(b.source, Inventory, c, b.fragment)
      BY <1>7, <1>9, DeliveredIs
    <2> HIDE DEF B
    <2> QED  BY <2>1, <2>2
  <1>11. ASSUME NEW b \in B
         PROVE  b \in {Block(w.source, Inventory, c, f) : f \in Fragments(Inventory)}
    BY <1>7, <1>9, DeliveredIs
  <1>12. Carried(c, w.source)
    <2> HIDE DEF B
    <2>1. B = {Block(w.source, Inventory, c, f) : f \in Fragments(Inventory)}
      BY <1>10, <1>11
    <2> QED  BY <2>1 DEF Carried, B
  <1> QED  BY <1>5, <1>6, <1>12

LEMMA FoundIsKnown ==
    ASSUME TypeOK, Filed, InventoryWitnesses # {}
    PROVE  LET answer == RecoverLogical(InventoryWitnesses)
               told == {w.source : w \in InventoryWitnesses}
           IN  /\ answer \in [state : States, envelope : SUBSET Sources]
               /\ told \subseteq Sources
               /\ Vetted(answer, told)
               /\ answer.envelope # {} => answer.envelope = told
  <1> DEFINE witnesses == InventoryWitnesses
  <1>1. \A w \in witnesses : w.source \in Sources
    BY WitnessBlocks
  <1> HIDE DEF witnesses
  <1> QED  BY <1>1, LogicalVetted DEF witnesses

(* An inventory read as sent is found as sent, whichever units carried its *)
(* copies and whatever else they brought.                                  *)
LEMMA InventorySent ==
    ASSUME TypeOK, Filed, InventoryAsSent
    PROVE  InventoryWitnesses # {} /\ RecoverLogical(InventoryWitnesses).envelope = {Sent}
  <1>1. /\ \E c \in Copies(Inventory) : Carried(c, Sent)
        /\ \A c \in Copies(Inventory), b \in Sources : Carried(c, b) => b = Sent
    BY DEF InventoryAsSent, Carried
  <1>2. PICK c \in Copies(Inventory) : Carried(c, Sent)
    BY <1>1
  <1> DEFINE B == DeliveredBlocks(c)
             F == Fragments(Inventory)
  <1>3. B = {Block(Sent, Inventory, c, f) : f \in F} /\ 0 \in F
    BY <1>2, Geometry, LayoutAssumption DEF Carried
  <1>4. \A b \in B : b.source = Sent /\ b.section = Inventory /\ b.copy = c /\ b.fragment \in F
    BY <1>3 DEF Block
  <1>5. Agree(B)
    <2>1. \A x, y \in B : Identity(x) = Identity(y)
      BY <1>4 DEF Identity
    <2>2. ASSUME NEW x \in B, NEW y \in B, x.fragment = y.fragment PROVE x = y
      <3>1. PICK f \in F : x = Block(Sent, Inventory, c, f)
        BY <1>3
      <3>2. PICK g \in F : y = Block(Sent, Inventory, c, g)
        BY <1>3
      <3>3. f = x.fragment /\ g = y.fragment
        BY <3>1, <3>2 DEF Block
      <3> QED  BY <2>2, <3>1, <3>2, <3>3
    <2> HIDE DEF B
    <2> QED  BY <2>1, <2>2 DEF Agree
  <1>6. copies[c].held = B /\ copies[c].conflict = FALSE
    <2>1. Files(copies[c], B)
      BY DEF Filed
    <2> HIDE DEF B
    <2> QED  BY <1>5, <2>1 DEF Files
  <1>7. {b.source : b \in B} = {Sent} /\ {b.fragment : b \in B} = F
    <2>1. \A f \in F : Block(Sent, Inventory, c, f) \in B /\ Block(Sent, Inventory, c, f).fragment = f
      BY <1>3 DEF Block
    <2>2. \E b \in B : TRUE
      BY <1>3, <2>1
    <2> HIDE DEF B, F
    <2> QED  BY <1>4, <2>1, <2>2
  <1>8. Assemble(copies[c], Inventory) = {Sent}
    <2>1. Cardinality({Sent}) = 1
      BY FS_Singleton
    <2> HIDE DEF B
    <2> QED  BY <1>6, <1>7, <2>1 DEF Assemble, Complete, Checked
  <1>9. \E w \in InventoryWitnesses : TRUE
    <2> DEFINE unchanged(k) == \A u \in DeliveredTo(k) : arrived[u].state = "verified"
               of(k) == {[source |-> source, verified |-> unchanged(k)] :
                            source \in Assemble(copies[k], Inventory)}
    <2>1. InventoryWitnesses = UNION {of(k) : k \in Copies(Inventory)}
      BY DEF InventoryWitnesses, TypeOK
    <2>2. [source |-> Sent, verified |-> unchanged(c)] \in of(c)
      BY <1>8
    <2> HIDE DEF of, unchanged
    <2> QED  BY <2>1, <2>2
  <1>10. ASSUME NEW w \in InventoryWitnesses PROVE w.source = Sent
    BY <1>1, WitnessBlocks
  <1> DEFINE witnesses == InventoryWitnesses
  <1>11. {w.source : w \in witnesses} = {Sent}
    BY <1>9, <1>10
  <1>12. Cardinality({w.source : w \in witnesses}) = 1
    BY <1>11, FS_Singleton
  <1> HIDE DEF witnesses
  <1>13. RecoverLogical(witnesses).envelope = {Sent}
    BY <1>11, <1>12 DEF RecoverLogical, Result
  <1> QED  BY <1>9, <1>13 DEF witnesses

-----------------------------------------------------------------------------
(* The steps.                                                              *)

LEMMA DeliverStep ==
    ASSUME TypeOK, Filed, NEW unit \in DOMAIN Deliveries, NEW d \in Deliveries[unit],
           Deliver(unit, d)
    PROVE  Filed' /\ TypeOK'
  <1> DEFINE after == [u \in DOMAIN arrived \cup {unit} |-> IF u = unit THEN d ELSE arrived[u]]
             mine(c) == {b \in d.carried : b.copy = c}
             filed(c) == IF mine(c) = {} THEN copies[c]
                         ELSE AddBlock(copies[c], CHOOSE b \in mine(c) : TRUE)
  <1>1. /\ arrived' = after /\ unit \notin DOMAIN arrived
        /\ copies' = [c \in DOMAIN copies |-> filed(c)]
    BY DEF Deliver
  <1>2. /\ DOMAIN arrived' = DOMAIN arrived \cup {unit}
        /\ arrived'[unit] = d
        /\ \A u \in DOMAIN arrived : arrived'[u] = arrived[u]
    BY <1>1
  <1>3. DOMAIN copies' = DOMAIN copies /\ DOMAIN copies = Copies(Inventory)
    BY <1>1 DEF TypeOK
  <1>4. TypeOK'
    BY <1>2, <1>3 DEF TypeOK, Deliver
  <1>5. \A c : DeliveredBlocks(c)' = DeliveredBlocks(c) \cup mine(c)
    <2> HIDE DEF after
    <2> QED  BY <1>1, <1>2 DEF DeliveredBlocks
  <1>6. ASSUME NEW c \in Copies(Inventory)
        PROVE  Files(copies'[c], DeliveredBlocks(c)')
    <2> DEFINE before == DeliveredBlocks(c)
               now == DeliveredBlocks(c)'
    <2>1. Files(copies[c], before)
      BY DEF Filed
    <2>2. now = before \cup mine(c)
      BY <1>5
    <2>3. copies'[c] = filed(c)
      BY <1>1, <1>3
    <2>4. d.carried # {} => \E b \in d.carried : d.carried = {b}
      BY RolesAssumption
    <2> HIDE DEF before, now
    <2>5. CASE mine(c) = {}
      BY <2>1, <2>2, <2>3, <2>5 DEF before, now
    <2>6. CASE mine(c) # {}
      <3>1. PICK b \in d.carried : d.carried = {b}
        BY <2>4, <2>6
      <3>2. mine(c) = {b}
        BY <2>6, <3>1
      <3>3. copies'[c] = AddBlock(copies[c], b)
        <4>1. copies'[c] = AddBlock(copies[c], CHOOSE x \in mine(c) : TRUE)
          BY <2>3, <2>6
        <4> HIDE DEF mine
        <4>2. (CHOOSE x \in mine(c) : TRUE) = b
          BY <3>2
        <4> QED  BY <4>1, <4>2
      <3> HIDE DEF mine
      <3>4. Files(AddBlock(copies[c], b), before \cup {b})
        <4> USE <2>1
        <4> HIDE DEF filed
        <4> QED  BY AddBlockFiles
      <3> QED  BY <2>2, <3>2, <3>3, <3>4 DEF before, now
    <2> QED  BY <2>5, <2>6 DEF now
  <1> QED  BY <1>4, <1>6 DEF Filed

(* While sections are still being looked at nothing is reported.           *)
LEMMA EarlyStep ==
    ASSUME Staged, stage \in {"inventory", "sections"}, stage' = "sections",
           UNCHANGED <<streams, artifact, decision>>
    PROVE  Staged' /\ ArtifactHonest' /\ DamageContained'
  <1>1. /\ artifact' = "none" /\ ~streams'.required /\ ~streams'.all
        /\ decision'.selected = "none"
    BY DEF Staged
  <1>2. Staged'
    BY <1>1 DEF Staged
  <1>3. ArtifactHonest'
    BY <1>1 DEF ArtifactHonest
  <1>4. DamageContained'
    BY DEF DamageContained
  <1> QED  BY <1>2, <1>3, <1>4

(* What was noted of a section keeps the invariant.                        *)
LEMMA NotedKept ==
    ASSUME IInv, NEW s \in Sections, NEW asSent, Noted(s, inventory', asSent),
           \/ /\ stage = "inventory" /\ s = Inventory
              /\ asSent => inventory' = {Sent}
           \/ /\ stage = "sections" /\ s # Inventory
              /\ inventory' = inventory /\ sections[s] = Unread,
           stage' = "sections", inventory' \in SUBSET Sources,
           UNCHANGED <<profile, streams, artifact, decision>>,
           DOMAIN arrived' \subseteq DOMAIN Deliveries,
           \A unit \in DOMAIN arrived' : arrived'[unit] \in Deliveries[unit],
           DOMAIN copies' = Copies(Inventory), Filed'
    PROVE  IInv'
  <1>1. TypeOK /\ SectionsVetted /\ Agreed /\ Staged /\ Contained
    BY DEF IInv
  <1>2. PICK answer, proved :
           /\ Judged(s, answer, proved, inventory', asSent)
           /\ sections' = [sections EXCEPT ![s] = answer]
           /\ rivals' = [rivals EXCEPT ![s] = proved]
    BY DEF Noted
  <1>3. intact' = IF asSent THEN intact \cup {s} ELSE intact
    BY DEF Noted
  <1>4. /\ answer \in [state : States, envelope : SUBSET Sources] /\ proved \in SUBSET Blocks
        /\ Vetted(answer, proved)
        /\ AgreedWith(answer.envelope, s, inventory')
        /\ inventory' = {Sent} /\ asSent => answer.envelope = {Sent}
    BY <1>2 DEF Judged
  <1>5. /\ sections' \in [Sections -> [state : States, envelope : SUBSET Sources]]
        /\ rivals' \in [Sections -> SUBSET Blocks]
        /\ sections'[s] = answer /\ rivals'[s] = proved
        /\ \A t \in Sections \ {s} : sections'[t] = sections[t] /\ rivals'[t] = rivals[t]
    BY <1>1, <1>2, <1>4 DEF TypeOK
  <1>6. TypeOK'
    <2>1. intact' \subseteq Sections
      BY <1>1, <1>3 DEF TypeOK
    <2> QED  BY <1>1, <1>5, <2>1 DEF TypeOK
  <1>7. SectionsVetted'
    BY <1>1, <1>4, <1>5 DEF SectionsVetted
  <1>8. Agreed'
    <2> SUFFICES ASSUME NEW t \in Sections, t # s
                 PROVE  AgreedWith(sections'[t].envelope, t, inventory')
      BY <1>4, <1>5 DEF Agreed
    <2>1. CASE stage = "inventory"
      <3>1. sections'[t] = Unread
        BY <1>1, <1>5, <2>1 DEF Staged
      <3> QED  BY <3>1 DEF AgreedWith, Unread
    <2>2. CASE stage = "sections"
      BY <1>1, <1>5, <2>2 DEF Agreed
    <2> QED  BY <2>1, <2>2
  <1>9. Contained'
    <2> SUFFICES ASSUME Inventory \in intact'
                 PROVE  inventory' = {Sent} /\ \A t \in intact' : sections'[t].envelope = {Sent}
      BY DEF Contained
    <2>1. CASE stage = "inventory"
      <3>1. asSent /\ intact' = {Inventory} /\ s = Inventory
        BY <1>1, <1>3, <2>1 DEF Staged
      <3> QED  BY <1>4, <1>5, <2>1, <3>1
    <2>2. CASE stage = "sections"
      <3>1. Inventory \in intact
        BY <1>3, <2>2
      <3>2. inventory = {Sent} /\ \A t \in intact : sections[t].envelope = {Sent}
        BY <1>1, <3>1 DEF Contained
      <3>3. s \notin intact
        BY <2>2, <3>2 DEF Unread
      <3>4. \A t \in intact : sections'[t].envelope = {Sent}
        BY <1>1, <1>5, <3>2, <3>3 DEF TypeOK
      <3>5. asSent => sections'[s].envelope = {Sent}
        BY <1>4, <1>5, <2>2, <3>2
      <3> QED  BY <1>3, <2>2, <3>2, <3>4, <3>5
    <2> QED  BY <2>1, <2>2
  <1>10. Staged' /\ ArtifactHonest' /\ DamageContained'
    BY <1>1, EarlyStep
  <1> QED  BY <1>6, <1>7, <1>8, <1>9, <1>10 DEF IInv

LEMMA HierInventoryStep ==
    ASSUME IInv, RecoverInventoryHier
    PROVE  IInv'
  <1>1. /\ profile = "hier" /\ stage = "inventory" /\ stage' = "sections"
        /\ UNCHANGED <<profile, arrived, copies, streams, artifact, decision>>
    BY DEF RecoverInventoryHier
  <1>2. PICK reading \in Readings(Inventory) :
           LET found == JoinedInventory(reading)
               asSent == ReadAsSent(reading, Inventory)
           IN /\ inventory' = found
              /\ IF found # {} THEN Look(Inventory, reading, found, asSent)
                 ELSE Note(Inventory, Result(HierInventoryState(reading), {}), {}, asSent)
    BY DEF RecoverInventoryHier
  <1> DEFINE joined == UNION {reading[p].chosen : p \in DOMAIN reading}
             found == JoinedInventory(reading)
             asSent == ReadAsSent(reading, Inventory)
  <1>3. TypeOK /\ Inventory \in Sections
    BY LayoutAssumption DEF IInv
  <1>4. /\ DOMAIN reading = Places(Inventory)
        /\ Readable(Inventory, reading)
        /\ \A p \in Places(Inventory) : \A e \in reading[p].evidence : e.block \in Blocks
    BY <1>3, ReadingSound DEF Readable, TypeOK
  <1>5. found \in SUBSET Sources
    BY DEF JoinedInventory
  <1>6. asSent => found = {Sent}
    <2> SUFFICES ASSUME asSent PROVE found = {Sent}
      OBVIOUS
    <2>1. \A f \in Fragments(Inventory) : reading[<<0, f>>].chosen = {Sent}
      BY <1>1 DEF ReadAsSent, CopyIds
    <2>2. \A p \in DOMAIN reading : reading[p].chosen = {Sent}
      BY <1>1, <1>3, <1>4, <2>1, PlacesAre
    <2>3. \A p \in DOMAIN reading : Released(reading[p].state)
      BY <1>4, <2>2 DEF Readable, Sound
    <2>4. \E p \in DOMAIN reading : TRUE
      BY <1>1, <1>3, <1>4, PlacesAre, Geometry
    <2>5. joined = {Sent}
      BY <2>2, <2>4
    <2>6. Cardinality(joined) = 1
      BY <2>5, FS_Singleton
    <2>7. found = joined \cap Sources
      BY <2>3, <2>6 DEF JoinedInventory
    <2> HIDE DEF joined, found
    <2> QED  BY <2>5, <2>7, SentIsCarrier
  <1>7. Noted(Inventory, found, asSent)
    <2>1. CASE found # {}
      BY <1>2, <1>3, <1>4, <1>5, <2>1, Looked
    <2>2. CASE found = {}
      <3> DEFINE answer == Result(HierInventoryState(reading), {})
      <3>1. Note(Inventory, answer, {}, asSent)
        BY <1>2, <2>2
      <3>2. HierInventoryState(reading) \in {"corrupt", "incomplete"}
        BY DEF HierInventoryState
      <3>3. /\ answer \in [state : States, envelope : SUBSET Sources] /\ answer.envelope = {}
            /\ ~Released(answer.state) /\ answer.state # "ambiguous"
        BY <3>2 DEF Result, States, Released
      <3>4. Judged(Inventory, answer, {}, found, asSent)
        <4> HIDE DEF answer, found, asSent
        <4> QED  BY <2>2, <3>3 DEF Judged, Vetted, AgreedWith
      <3> HIDE DEF answer, found, asSent
      <3> QED  BY <3>1, <3>4, NoteJudged
    <2> QED  BY <2>1, <2>2
  <1>8. inventory' = found
    BY <1>2
  <1>9. Filed' /\ DOMAIN copies' = Copies(Inventory) /\ DOMAIN arrived' \subseteq DOMAIN Deliveries
        /\ \A unit \in DOMAIN arrived' : arrived'[unit] \in Deliveries[unit]
    BY <1>1 DEF IInv, TypeOK, Filed, DeliveredBlocks
  <1> HIDE DEF found, asSent
  <1> QED  BY <1>1, <1>3, <1>5, <1>6, <1>7, <1>8, <1>9, NotedKept

LEMMA CopiesInventoryStep ==
    ASSUME IInv, RecoverInventoryCopies
    PROVE  IInv'
  <1> DEFINE witnesses == InventoryWitnesses
             logical == IF witnesses = {} THEN Result("absent", {})
                        ELSE RecoverLogical(witnesses)
             told == {w.source : w \in witnesses}
             found == logical.envelope
             asSent == InventoryAsSent
  <1>1. /\ profile = "copies" /\ stage = "inventory" /\ stage' = "sections"
        /\ DOMAIN arrived = DOMAIN Deliveries /\ inventory' = found
        /\ arrived' = <<>> /\ copies' = [c \in DOMAIN copies |-> NoBlocks]
        /\ UNCHANGED <<profile, streams, artifact, decision>>
        /\ IF found # {} THEN Look(Inventory, ArrivedReading, found, asSent)
           ELSE Note(Inventory, logical, told, asSent)
    BY DEF RecoverInventoryCopies
  <1>2. TypeOK /\ Filed /\ Inventory \in Sections
    BY LayoutAssumption DEF IInv
  <1>3. /\ logical \in [state : States, envelope : SUBSET Sources]
        /\ told \subseteq Sources
        /\ Vetted(logical, told)
    <2>1. CASE witnesses = {}
      <3>1. logical = [state |-> "absent", envelope |-> {}]
        BY <2>1 DEF Result
      <3>2. told = {}
        BY <2>1
      <3> HIDE DEF logical, told
      <3> QED  BY <3>1, <3>2 DEF States, Vetted, Released
    <2>2. CASE witnesses # {}
      <3>1. logical = RecoverLogical(InventoryWitnesses)
        BY <2>2
      <3>2. LET answer == RecoverLogical(InventoryWitnesses)
            IN /\ answer \in [state : States, envelope : SUBSET Sources]
               /\ told \subseteq Sources
               /\ Vetted(answer, told)
        BY <1>2, <2>2, FoundIsKnown
      <3> HIDE DEF logical, told
      <3> QED  BY <3>1, <3>2
    <2> QED  BY <2>1, <2>2
  <1>4. found \in SUBSET Sources
    <2> HIDE DEF logical
    <2> QED  BY <1>3
  <1>5. asSent => found = {Sent}
    BY <1>2, InventorySent
  <1>6. /\ Filed' /\ DOMAIN copies' = Copies(Inventory) /\ DOMAIN arrived' = {}
    <2>1. DOMAIN arrived' = {} /\ DOMAIN copies' = Copies(Inventory)
      BY <1>1, <1>2 DEF TypeOK
    <2>2. \A c : DeliveredBlocks(c)' = {}
      BY <2>1 DEF DeliveredBlocks
    <2>3. Files(NoBlocks, {})
      BY DEF Files, NoBlocks, Agree
    <2>4. \A c \in Copies(Inventory) : copies'[c] = NoBlocks
      BY <1>1, <1>2 DEF TypeOK
    <2> QED  BY <2>1, <2>2, <2>3, <2>4 DEF Filed
  <1>7. asSent => ReadAsSent(ArrivedReading, Inventory)
    BY DEF InventoryAsSent
  <1> HIDE DEF found, logical, witnesses, told, asSent
  <1>8. Noted(Inventory, found, asSent)
    <2>1. CASE found # {}
      <3>1. Places(Inventory) = InventoryPlaces
        BY <1>1 DEF Places, InventoryPlaces, CopyIds
      <3>2. DOMAIN ArrivedReading = Places(Inventory) /\ Readable(Inventory, ArrivedReading)
        BY <1>1, <1>2, <3>1, ArrivedSound DEF Readable
      <3>3. Look(Inventory, ArrivedReading, found, asSent)
        BY <1>1, <2>1
      <3> QED  BY <1>1, <1>2, <1>4, <1>7, <2>1, <3>2, <3>3, Looked
    <2>2. CASE found = {}
      <3>1. Note(Inventory, logical, told, asSent)
        BY <1>1, <2>2
      <3>2. asSent => logical.envelope = {Sent}
        BY <1>5 DEF found
      <3>3. Judged(Inventory, logical, told, found, asSent)
        BY <1>3, <2>2, <3>2, SentIsCarrier DEF Judged, AgreedWith
      <3> QED  BY <3>1, <3>3, NoteJudged
    <2> QED  BY <2>1, <2>2
  <1> QED  BY <1>1, <1>2, <1>4, <1>5, <1>6, <1>8, NotedKept

LEMMA SectionStep ==
    ASSUME IInv, NEW s \in Sections \ {Inventory}, RecoverSection(s) \/ DiagnoseSection(s)
    PROVE  IInv'
  <1>1. /\ stage = "sections" /\ stage' = "sections" /\ sections[s] = Unread
        /\ UNCHANGED <<profile, arrived, copies, inventory, streams, artifact, decision>>
    BY DEF RecoverSection, DiagnoseSection, IsNext
  <1>2. TypeOK /\ s \in Sections /\ inventory \in SUBSET Sources
    BY DEF IInv, TypeOK
  <1>3. PICK asSent : Noted(s, inventory, asSent)
    <2>1. CASE RecoverSection(s)
      <3>1. PICK reading \in Readings(s) : Look(s, reading, inventory, ReadAsSent(reading, s))
        BY <2>1 DEF RecoverSection
      <3>2. inventory # {}
        BY <2>1 DEF RecoverSection
      <3>3. /\ DOMAIN reading = Places(s) /\ Readable(s, reading)
            /\ \A p \in Places(s) : \A e \in reading[p].evidence : e.block \in Blocks
        BY <1>2, ReadingSound DEF Readable, TypeOK
      <3>4. Noted(s, inventory, ReadAsSent(reading, s))
        BY <1>2, <3>1, <3>2, <3>3, Looked
      <3> QED  BY <3>4
    <2>2. CASE DiagnoseSection(s)
      <3>1. inventory = {}
        BY <2>2 DEF DiagnoseSection
      <3>2. PICK reading \in Readings(s), misplaced \in Misplaced[s] :
               LET read == PlaceBlocks(reading, s)
                           \cup {m \in misplaced : m.block.copy \in CopyIds(s)}
               IN Note(s, RawResult(read, s), RawRivals(read, s), ReadAsSent(reading, s))
        BY <2>2 DEF DiagnoseSection
      <3> DEFINE read == PlaceBlocks(reading, s)
                         \cup {m \in misplaced : m.block.copy \in CopyIds(s)}
      <3>3. Judged(s, RawResult(read, s), RawRivals(read, s), {}, ReadAsSent(reading, s))
        BY <1>2, Diagnosed
      <3>4. Noted(s, {}, ReadAsSent(reading, s))
        BY <3>2, <3>3, NoteJudged
      <3> QED  BY <3>1, <3>4
    <2> QED  BY <2>1, <2>2
  <1>4. Filed' /\ DOMAIN copies' = Copies(Inventory) /\ DOMAIN arrived' \subseteq DOMAIN Deliveries
        /\ \A unit \in DOMAIN arrived' : arrived'[unit] \in Deliveries[unit]
    BY <1>1 DEF IInv, TypeOK, Filed, DeliveredBlocks
  <1>5. Noted(s, inventory', asSent) /\ inventory' \in SUBSET Sources
    BY <1>1, <1>2, <1>3
  <1> QED  BY <1>1, <1>2, <1>4, <1>5, NotedKept

-----------------------------------------------------------------------------
(* Streams and the artifact.                                               *)

LEMMA BodiesAre ==
    ASSUME NEW frame \in {RequiredFrame, AllFrame}
    PROVE  Bodies(frame) \cup {frame} \subseteq Sections
  BY LayoutAssumption DEF Bodies

LEMMA VerdictsHonest ==
    ASSUME NEW frame, NEW released, TRUE \in StreamVerdicts(frame, released)
    PROVE  \A s \in Bodies(frame) \cup {frame} : released[s] # {}
  BY DEF StreamVerdicts

LEMMA VerdictsSent ==
    ASSUME NEW frame, NEW released,
           \A s \in Bodies(frame) \cup {frame} : released[s] = {Sent}
    PROVE  StreamVerdicts(frame, released) = {TRUE}
  <1> DEFINE sources == {released[s] : s \in Bodies(frame) \cup {frame}}
  <1>1. sources = {{Sent}}
    OBVIOUS
  <1>2. Cardinality(sources) = 1
    BY <1>1, FS_Singleton
  <1>3. {} \notin sources
    BY <1>1
  <1> QED  BY <1>2, <1>3 DEF StreamVerdicts

(* Under an inventory, sections that are all released are whole.           *)
LEMMA ReleasedIsWhole ==
    ASSUME Agreed, inventory # {}, NEW ids \in SUBSET Sections,
           \A s \in ids : sections[s].envelope # {}
    PROVE  WholeTier(ids)
  <1> DEFINE source == CHOOSE x \in inventory : TRUE
  <1>1. source \in inventory
    OBVIOUS
  <1>2. \A s \in ids : \A e \in sections[s].envelope : AgreesWithInventory(e, s, source)
    BY DEF Agreed, AgreedWith
  <1> HIDE DEF source
  <1> QED  BY <1>1, <1>2 DEF WholeTier

(* A stream that was joined is one of a whole tier.                        *)
LEMMA VerdictIsWhole ==
    ASSUME Agreed, inventory # {}, NEW frame \in {RequiredFrame, AllFrame},
           TRUE \in StreamVerdicts(frame, Envelopes)
    PROVE  WholeTier(Bodies(frame) \cup {frame})
  <1>1. \A s \in Bodies(frame) \cup {frame} : Envelopes[s] # {}
    BY VerdictsHonest, Zenon
  <1>2. Bodies(frame) \cup {frame} \subseteq Sections
    BY BodiesAre
  <1>3. \A s \in Bodies(frame) \cup {frame} : sections[s].envelope # {}
    BY <1>1, <1>2 DEF Envelopes
  <1> QED  BY <1>2, <1>3, ReleasedIsWhole

LEMMA TiersStep ==
    ASSUME IInv, RecoverContentTiers
    PROVE  IInv'
  <1>1. PICK required \in StreamVerdicts(RequiredFrame, Envelopes),
             all \in StreamVerdicts(AllFrame, Envelopes) :
           LET whole == all /\ (required \/ profile = "copies")
           IN IF inventory = {}
              THEN /\ artifact' = IF \E s \in Sections : sections[s].state = "ambiguous"
                                  THEN "ambiguous" ELSE "failure"
                   /\ UNCHANGED streams
              ELSE /\ streams' = [required |-> required, all |-> whole]
                   /\ artifact' =
                        IF \E s \in Sections : sections[s].state = "ambiguous"
                        THEN "ambiguous"
                        ELSE IF /\ required /\ whole
                                /\ \A s \in Sections : Released(sections[s].state)
                        THEN "exact"
                        ELSE IF required THEN "degraded" ELSE "failure"
    BY DEF RecoverContentTiers
  <1> DEFINE whole == all /\ (required \/ profile = "copies")
  <1>2. /\ stage = "sections" /\ stage' = "decide"
        /\ UNCHANGED <<profile, arrived, copies, inventory, sections, rivals, intact, decision>>
    BY DEF RecoverContentTiers
  <1>3. /\ TypeOK /\ SectionsVetted /\ Agreed /\ Contained
        /\ ~streams.required /\ ~streams.all /\ decision.selected = "none"
    BY <1>2 DEF IInv, Staged
  <1>4. required \in BOOLEAN /\ all \in BOOLEAN
    BY DEF StreamVerdicts
  <1>5. SectionsVetted' /\ Agreed' /\ Contained'
    BY <1>2, <1>3 DEF SectionsVetted, Agreed, Contained
  <1>6. Filed'
    BY <1>2 DEF IInv, Filed, DeliveredBlocks
  <1>7. TypeOK'
    <2>1. streams' \in [required : BOOLEAN, all : BOOLEAN]
      <3>1. CASE inventory = {}
        BY <1>1, <1>3, <3>1 DEF TypeOK
      <3>2. CASE inventory # {}
        <4>1. streams' = [required |-> required, all |-> whole]
          BY <1>1, <3>2
        <4>2. whole \in BOOLEAN
          BY <1>4
        <4> HIDE DEF whole
        <4> QED  BY <1>4, <4>1, <4>2
      <3> QED  BY <3>1, <3>2
    <2> QED  BY <1>2, <1>3, <2>1 DEF TypeOK
  <1>8. Staged'
    BY <1>2, <1>3 DEF Staged
  <1>9. \A s \in Sections : Envelopes[s] = sections[s].envelope
    BY DEF Envelopes
  <1>10. RequiredFrame \in Sections /\ AllFrame \in Sections /\ Inventory \in Sections
    BY LayoutAssumption
  <1>a. (\E s \in Sections : sections[s].state = "ambiguous") => Disputed
    BY <1>3 DEF SectionsVetted, Vetted, Disputed
  <1>11. ArtifactHonest'
    <2>0. /\ Disputed' = Disputed
          /\ \A ids \in SUBSET Sections : WholeTier(ids)' = WholeTier(ids)
      BY <1>2 DEF Disputed, WholeTier
    <2>b. /\ Bodies(RequiredFrame) \cup {RequiredFrame} \subseteq Sections
          /\ Bodies(AllFrame) \cup {AllFrame} \subseteq Sections
      BY BodiesAre
    <2>1. CASE inventory = {}
      <3>1. /\ ~streams'.required /\ ~streams'.all
            /\ artifact' \in {"ambiguous", "failure"}
            /\ artifact' = "ambiguous" => Disputed
        BY <1>1, <1>3, <1>a, <2>1
      <3> QED  BY <1>2, <1>3, <2>0, <3>1 DEF ArtifactHonest
    <2>2. CASE inventory # {}
      <3>1. /\ streams'.required = required /\ streams'.all = whole
            /\ artifact' = "exact" => /\ required /\ whole
                                      /\ \A s \in Sections : Released(sections[s].state)
            /\ artifact' = "degraded" => required
            /\ artifact' = "ambiguous" => Disputed
        BY <1>1, <1>a, <2>2
      <3>2. required => WholeTier(Bodies(RequiredFrame) \cup {RequiredFrame})
        <4> SUFFICES ASSUME required
                     PROVE  WholeTier(Bodies(RequiredFrame) \cup {RequiredFrame})
          OBVIOUS
        <4>1. TRUE \in StreamVerdicts(RequiredFrame, Envelopes)
          BY <1>4
        <4> QED  BY <1>3, <2>2, <4>1, VerdictIsWhole
      <3>3. whole => WholeTier(Bodies(AllFrame) \cup {AllFrame})
        <4> SUFFICES ASSUME all
                     PROVE  WholeTier(Bodies(AllFrame) \cup {AllFrame})
          OBVIOUS
        <4>1. TRUE \in StreamVerdicts(AllFrame, Envelopes)
          BY <1>4
        <4> QED  BY <1>3, <2>2, <4>1, VerdictIsWhole
      <3>4. artifact' = "exact" => WholeTier(Sections)
        <4>1. (\A s \in Sections : Released(sections[s].state)) =>
                 \A s \in Sections : sections[s].envelope # {}
          BY <1>3 DEF SectionsVetted, Vetted
        <4> QED  BY <1>3, <2>2, <3>1, <4>1, ReleasedIsWhole
      <3> HIDE DEF whole
      <3>5. /\ streams'.required => WholeTier(Bodies(RequiredFrame) \cup {RequiredFrame})'
            /\ streams'.all => WholeTier(Bodies(AllFrame) \cup {AllFrame})'
            /\ artifact' = "exact" => streams'.required /\ streams'.all /\ WholeTier(Sections)'
            /\ artifact' = "degraded" => streams'.required
            /\ artifact' = "ambiguous" => Disputed'
        BY <2>0, <2>b, <3>1, <3>2, <3>3, <3>4 DEF Bodies
      <3> QED  BY <1>2, <1>3, <3>5 DEF ArtifactHonest
    <2> QED  BY <2>1, <2>2
  <1>12. DamageContained'
    <2>1. ASSUME {Inventory, RequiredFrame} \cup Bodies(RequiredFrame) \subseteq intact
          PROVE  inventory = {Sent} /\ streams'.required /\ required
      <3>1. inventory = {Sent} /\ \A s \in intact : sections[s].envelope = {Sent}
        BY <1>3, <2>1 DEF Contained
      <3>2. \A s \in Bodies(RequiredFrame) \cup {RequiredFrame} : Envelopes[s] = {Sent}
        BY <1>9, <2>1, <3>1, BodiesAre
      <3>3. required
        <4>1. StreamVerdicts(RequiredFrame, Envelopes) = {TRUE}
          BY <3>2, VerdictsSent, Zenon
        <4> QED  BY <4>1
      <3>4. streams' = [required |-> required, all |-> whole]
        BY <1>1, <3>1
      <3> HIDE DEF whole
      <3> QED  BY <3>1, <3>3, <3>4
    <2>2. ASSUME Sections \subseteq intact PROVE artifact' = "exact"
      <3>1. Bodies(RequiredFrame) \subseteq intact
        BY <2>2, BodiesAre
      <3>2. inventory = {Sent} /\ required
        BY <1>10, <2>1, <2>2, <3>1
      <3>3. \A s \in Sections : sections[s].envelope = {Sent}
        BY <1>3, <1>10, <2>2 DEF Contained
      <3>4. \A s \in Bodies(AllFrame) \cup {AllFrame} : Envelopes[s] = {Sent}
        BY <1>9, <3>3, BodiesAre
      <3>5. all
        <4>1. StreamVerdicts(AllFrame, Envelopes) = {TRUE}
          BY <3>4, VerdictsSent, Zenon
        <4> QED  BY <4>1
      <3>6. \A s \in Sections : Released(sections[s].state)
        BY <1>3, <3>3 DEF SectionsVetted, Vetted
      <3>7. ~\E s \in Sections : sections[s].state = "ambiguous"
        BY <3>6 DEF Released
      <3> QED  BY <1>1, <3>2, <3>5, <3>6, <3>7
    <2> QED  BY <1>2, <2>1, <2>2 DEF DamageContained, Bodies
  <1> QED  BY <1>5, <1>6, <1>7, <1>8, <1>11, <1>12 DEF IInv

LEMMA DecideStep ==
    ASSUME IInv, NEW selected, NEW state, Decide(selected, state),
           selected = "this" => state = artifact \/ state = "failure"
    PROVE  IInv'
  <1>1. /\ stage = "decide" /\ stage' = "done"
        /\ decision' = [selected |-> selected, artifact |-> state]
        /\ UNCHANGED <<profile, arrived, copies, inventory, sections, rivals, intact,
                       streams, artifact>>
    BY DEF Decide
  <1>2. TypeOK' /\ SectionsVetted' /\ Agreed' /\ Contained'
    BY <1>1 DEF IInv, TypeOK, SectionsVetted, Agreed, Contained
  <1>3. Filed'
    BY <1>1 DEF IInv, Filed, DeliveredBlocks
  <1>4. Staged' /\ DamageContained'
    BY <1>1 DEF IInv, Staged, DamageContained, Bodies
  <1>5. ArtifactHonest'
    <2>1. decision'.selected = selected /\ decision'.artifact = state
      BY <1>1
    <2>2. ArtifactHonest /\ decision.selected = "none"
      BY <1>1 DEF IInv, Staged
    <2> QED  BY <1>1, <2>1, <2>2 DEF ArtifactHonest, WholeTier, Disputed, Bodies
  <1> QED  BY <1>2, <1>3, <1>4, <1>5 DEF IInv

-----------------------------------------------------------------------------
LEMMA Inductive == (Init => IInv) /\ (IInv /\ [Next]_vars => IInv')
  <1>1. ASSUME Init PROVE IInv
    <2>1. TypeOK
      BY <1>1 DEF Init, TypeOK, Unread, States
    <2>2. SectionsVetted /\ Agreed /\ Staged /\ ArtifactHonest /\ Contained /\ DamageContained
      BY <1>1 DEF Init, SectionsVetted, Vetted, Agreed, AgreedWith, Released, Unread, Staged,
                  ArtifactHonest, Contained, DamageContained
    <2>3. Filed
      <3>1. DOMAIN arrived = {}
        BY <1>1 DEF Init
      <3>2. \A c : DeliveredBlocks(c) = {}
        BY <3>1 DEF DeliveredBlocks
      <3>3. Files(NoBlocks, {})
        BY DEF Files, NoBlocks, Agree
      <3> QED  BY <1>1, <3>2, <3>3 DEF Init, Filed
    <2> QED  BY <2>1, <2>2, <2>3 DEF IInv
  <1>2. ASSUME IInv, [Next]_vars PROVE IInv'
    <2>1. ASSUME NEW unit \in DOMAIN Deliveries, NEW d \in Deliveries[unit], Deliver(unit, d)
          PROVE  IInv'
      <3>1. TypeOK' /\ Filed'
        BY <1>2, <2>1, DeliverStep DEF IInv
      <3>2. UNCHANGED <<profile, stage, inventory, sections, rivals, intact, streams,
                        artifact, decision>>
        BY <2>1 DEF Deliver
      <3>3. SectionsVetted' /\ Agreed' /\ Staged' /\ Contained' /\ DamageContained'
        BY <1>2, <3>2 DEF IInv, SectionsVetted, Agreed, Staged, Contained, DamageContained, Bodies
      <3>4. ArtifactHonest'
        BY <1>2, <3>2 DEF IInv, ArtifactHonest, WholeTier, Disputed, Bodies
      <3> QED  BY <3>1, <3>3, <3>4 DEF IInv
    <2>2. CASE RecoverInventoryHier
      BY <1>2, <2>2, HierInventoryStep
    <2>3. CASE RecoverInventoryCopies
      BY <1>2, <2>3, CopiesInventoryStep
    <2>4. ASSUME NEW s \in Sections \ {Inventory}, RecoverSection(s) \/ DiagnoseSection(s)
          PROVE  IInv'
      BY <1>2, <2>4, SectionStep
    <2>5. CASE RecoverContentTiers
      BY <1>2, <2>5, TiersStep
    <2>6. ASSUME NEW rival \in Rivals, DecideUnits(rival) \/ DecideSquare(rival)
          PROVE  IInv'
      <3>1. \/ Decide("this", artifact) \/ Decide("none", "ambiguous")
            \/ Decide("rival", "rival") \/ Decide("none", "failure") \/ Decide("this", "failure")
        BY <2>6 DEF DecideUnits, DecideSquare, Rivals
      <3> QED  BY <1>2, <3>1, DecideStep
    <2>8. CASE UNCHANGED vars
      <3>1. TypeOK' /\ SectionsVetted' /\ Agreed' /\ Filed' /\ Staged' /\ Contained'
            /\ DamageContained'
        BY <1>2, <2>8 DEF vars, IInv, TypeOK, SectionsVetted, Agreed, Filed, DeliveredBlocks,
                          Staged, Contained, DamageContained, Bodies
      <3>2. ArtifactHonest'
        BY <1>2, <2>8 DEF vars, IInv, ArtifactHonest, WholeTier, Disputed, Bodies
      <3> QED  BY <3>1, <3>2 DEF IInv
    <2>9. Done => UNCHANGED vars
      BY DEF Done
    <2> QED  BY <1>2, <2>1, <2>2, <2>3, <2>4, <2>5, <2>6, <2>8, <2>9 DEF Next
  <1> QED  BY <1>1, <1>2

(* What holds of every observation, however damaged.                       *)
THEOREM Invariant == Spec => []IInv
  BY Inductive, PTL DEF Spec

(* A released section has no rival: no unit of its groups, no complete     *)
(* copy of it proved another envelope, however few they are.               *)
THEOREM NothingIsOutvoted == Spec => []NeverOutvoted
  <1>1. IInv => NeverOutvoted
    BY DEF IInv, SectionsVetted, Vetted, NeverOutvoted
  <1> QED  BY <1>1, Invariant, PTL

(* The inventory's copies come out as the set of the blocks that arrived   *)
(* says, in whatever order, repeated or crossed over.                      *)
THEOREM OrderDoesNotMatter == Spec => []AssemblyOrderBlind
  <1>1. ASSUME IInv PROVE AssemblyOrderBlind
    <2> SUFFICES ASSUME NEW c \in Copies(Inventory), DeliveredTo(c) # {}
                 PROVE  /\ copies[c].conflict <=> ~OneCopy(DeliveredBlocks(c))
                        /\ Assemble(copies[c], Inventory) =
                              AssembleSet(DeliveredBlocks(c), Inventory)
      BY <1>1 DEF IInv, TypeOK, AssemblyOrderBlind
    <2> DEFINE B == DeliveredBlocks(c)
               copy == copies[c]
    <2>1. Files(copy, B)
      BY <1>1 DEF IInv, Filed
    <2>0. /\ DeliveredTo(c) \subseteq DOMAIN arrived
          /\ \A unit \in DeliveredTo(c) :
                /\ \E b \in B : b \in arrived[unit].carried
                /\ \A b, e \in arrived[unit].carried : b = e
      BY <1>1, CarriedIs DEF DeliveredTo, DeliveredBlocks, IInv
    <2>2. B # {}
      BY <2>0
    <2>3. IsFiniteSet(B)
      <3>1. IsFiniteSet(DeliveredTo(c))
        <4>1. DeliveredTo(c) \subseteq DOMAIN Deliveries /\ IsFiniteSet(DOMAIN Deliveries)
          BY <1>1, RolesAssumption DEF DeliveredTo, IInv, TypeOK
        <4> QED  BY <4>1, FS_Subset
      <3> DEFINE f == [unit \in DeliveredTo(c) |-> CHOOSE b \in arrived[unit].carried : TRUE]
      <3>2. \A b \in B : \E unit \in DeliveredTo(c) : b \in arrived[unit].carried
        BY DEF DeliveredTo, DeliveredBlocks
      <3>3. \A b \in B : \E unit \in DeliveredTo(c) : f[unit] = b
        <4> HIDE DEF B
        <4> QED  BY <2>0, <3>2
      <3>4. \A unit \in DeliveredTo(c) : f[unit] \in B
        <4> HIDE DEF B
        <4> QED  BY <2>0
      <3>5. f \in Surjection(DeliveredTo(c), B)
        <4> HIDE DEF B
        <4> QED  BY <3>3, <3>4 DEF Surjection
      <3> HIDE DEF f, B
      <3> QED  BY <3>1, <3>5, FS_Surjection
    <2>4. OneCopy(B) <=> Agree(B)
      BY <2>2, <2>3, OneCopyAgrees
    <2> HIDE DEF B, copy
    <2>5. copy.conflict <=> ~Agree(B)
      BY <2>1 DEF Files
    <2>6. Agree(B) => copy.held = B
      BY <2>1 DEF Files
    <2>7. Assemble(copy, Inventory) = AssembleSet(B, Inventory)
      BY <2>4, <2>5, <2>6 DEF Assemble, AssembleSet
    <2> QED  BY <2>4, <2>5, <2>7 DEF B, copy
  <1> QED  BY <1>1, Invariant, PTL

(* The artifact state claims no more than was released, each stream comes  *)
(* from a whole tier, and an ambiguity has two proved envelopes.           *)
THEOREM ArtifactIsHonest == Spec => []ArtifactHonest
  <1>1. IInv => ArtifactHonest
    BY DEF IInv
  <1> QED  BY <1>1, Invariant, PTL

(* What was read as sent is released, whatever came in every other unit;   *)
(* an inventory in copies is read as sent only when no foreign block, from *)
(* whatever unit, was filed against the copy that came through.            *)
THEOREM DamageStays == Spec => []DamageContained
  <1>1. IInv => DamageContained
    BY DEF IInv
  <1> QED  BY <1>1, Invariant, PTL

-----------------------------------------------------------------------------
(* The inventory: what can be reached over its dependencies.               *)

LEMMA ReachLeast ==
    ASSUME NEW relation, NEW from, NEW ids, from \subseteq ids, ClosedUnder(relation, ids)
    PROVE  Reachable(relation, from) \subseteq ids
  <1> DEFINE all == from \cup {p[2] : p \in relation}
             here == ids \cap all
  <1>1. here \in SUBSET all /\ from \subseteq here /\ ClosedUnder(relation, here)
    BY DEF ClosedUnder
  <1> QED
    BY <1>1 DEF Reachable

LEMMA ReachCloses ==
    ASSUME NEW relation, NEW from
    PROVE  /\ from \subseteq Reachable(relation, from)
           /\ ClosedUnder(relation, Reachable(relation, from))
  <1> DEFINE all == from \cup {p[2] : p \in relation}
  <1>1. from \subseteq Reachable(relation, from)
    BY DEF Reachable
  <1>2. ASSUME NEW p \in relation, p[1] \in Reachable(relation, from)
        PROVE  p[2] \in Reachable(relation, from)
    <2>1. p[2] \in all
      OBVIOUS
    <2>2. ASSUME NEW ids \in SUBSET all, from \subseteq ids, ClosedUnder(relation, ids)
          PROVE  p[2] \in ids
      <3>1. p[1] \in ids
        BY <1>2, <2>2 DEF Reachable
      <3> QED
        BY <2>2, <3>1 DEF ClosedUnder
    <2> QED
      BY <2>1, <2>2 DEF Reachable
  <1> QED
    BY <1>1, <1>2 DEF ClosedUnder

LEMMA ReachTransitive ==
    ASSUME NEW relation, NEW from, NEW more, more \subseteq Reachable(relation, from)
    PROVE  Reachable(relation, more) \subseteq Reachable(relation, from)
  BY ReachCloses, ReachLeast

-----------------------------------------------------------------------------
(* What the search relies on.                                              *)

Walks(value) == DependsOn(value.entries)
DepsIn(value, id) == ToSet(EntryAt(value.entries, id).deps)

LEMMA EntriesKnown ==
    ASSUME NEW value \in Inventories, NEW id \in Ids(value.entries)
    PROVE  /\ EntryAt(value.entries, id) \in Fields
           /\ EntryAt(value.entries, id).id = id
           /\ \E i \in DOMAIN value.entries : EntryAt(value.entries, id) = value.entries[i]
           /\ id \in Nat
  <1> DEFINE entries == value.entries
             i == CHOOSE i \in DOMAIN entries : entries[i].id = id
  <1>1. entries \in Seq(Fields)
    BY InventoriesTyped
  <1>2. i \in DOMAIN entries /\ entries[i].id = id
    BY DEF Ids
  <1>3. EntryAt(entries, id) = entries[i]
    BY DEF EntryAt
  <1> HIDE DEF i
  <1>4. entries[i] \in Fields
    BY <1>1, <1>2
  <1>5. entries[i].id \in Nat
    BY <1>4 DEF Fields
  <1> QED
    BY <1>2, <1>3, <1>4, <1>5

(* All that the encoder asks but the absence of cycles.                    *)
Contract(value) ==
    LET entries == value.entries
    IN  /\ value.version \in {0, 1}
        /\ Len(entries) >= 3
        /\ \A i \in DOMAIN entries : EncodesEntry(entries, value.version, i)
        /\ OrdinalsComplete(entries)
        /\ FixedEntries(entries, value.version)
        /\ entries[1].size = "own"

LEMMA ContractOf ==
    ASSUME NEW value
    PROVE  Encodes(value) <=> Contract(value) /\ Acyclic(value.entries)
  BY DEF Encodes, Contract

PreviousId(entries, i) == IF i = 1 THEN 0 ELSE entries[i - 1].id

LEMMA EntryReads ==
    ASSUME NEW value, NEW i \in DOMAIN value.entries, value.version \in {0, 1}
    PROVE  EncodesEntry(value.entries, value.version, i) <=>
             /\ ReadsEntry(value.entries[i], PreviousId(value.entries, i), value.version)
             /\ ToSet(value.entries[i].deps) \subseteq Ids(value.entries)
             /\ value.entries[i].type \in {1, 2, 3} => value.entries[i].size # "zero"
  BY DEF EncodesEntry, ReadsEntry, PreviousId

(* Within a contract every dependency is an entry, and a pair of the walk. *)
LEMMA DependenciesKnown ==
    ASSUME NEW value \in Inventories, Contract(value), NEW id \in Ids(value.entries)
    PROVE  /\ DepsIn(value, id) \subseteq Ids(value.entries)
           /\ \A d : d \in DepsIn(value, id) <=> <<id, d>> \in Walks(value)
  <1>1. PICK i \in DOMAIN value.entries : EntryAt(value.entries, id) = value.entries[i]
    BY EntriesKnown
  <1>2. ToSet(value.entries[i].deps) \subseteq Ids(value.entries)
    BY <1>1 DEF Contract, EncodesEntry
  <1>3. DepsIn(value, id) \subseteq Ids(value.entries)
    BY <1>1, <1>2 DEF DepsIn
  <1>4. ASSUME NEW d PROVE d \in DepsIn(value, id) <=> <<id, d>> \in Walks(value)
    BY <1>3 DEF Walks, DependsOn, DepsIn
  <1> QED
    BY <1>3, <1>4

(* A set with the dependencies of its members is closed.                   *)
LEMMA ClosedByDependencies ==
    ASSUME NEW value, NEW ids, \A id \in ids \cap Ids(value.entries) : DepsIn(value, id) \subseteq ids
    PROVE  ClosedUnder(Walks(value), ids)
  BY DEF ClosedUnder, Walks, DependsOn, DepsIn

LEMMA LeastId ==
    ASSUME NEW T, T \subseteq Nat, T # {}
    PROVE  \E x \in T : \A y \in T : x <= y
  <1>1. PICK x \in T : \A y \in T : ~(<<y, x>> \in OpToRel(<, Nat))
    BY NatLessThanWellFounded, WFMin
  <1>2. \A a, b \in Nat : a < b => <<a, b>> \in OpToRel(<, Nat)
    BY DEF OpToRel
  <1>3. ASSUME NEW y \in T, ~(x <= y) PROVE FALSE
    <2>1. y \in Nat /\ x \in Nat /\ y < x
      BY <1>3
    <2> QED
      BY <1>1, <1>2, <2>1
  <1> QED
    BY <1>3

-----------------------------------------------------------------------------
(* Stacks and worklists.                                                   *)

LEMMA TopOf ==
    ASSUME NEW S, NEW s \in Seq(S), s # <<>>
    PROVE  /\ Len(s) \in Nat /\ Len(s) >= 1 /\ DOMAIN s = 1 .. Len(s)
           /\ Last(s) = s[Len(s)] /\ Last(s) \in S
           /\ Front(s) \in Seq(S) /\ Len(Front(s)) = Len(s) - 1
           /\ \A i \in 1 .. Len(s) - 1 : Front(s)[i] = s[i]
  <1>1. Len(s) \in Nat /\ Len(s) >= 1 /\ DOMAIN s = 1 .. Len(s)
    OBVIOUS
  <1>2. Last(s) = s[Len(s)] /\ Last(s) \in S
    BY <1>1 DEF Last
  <1>3. Front(s) = SubSeq(s, 1, Len(s) - 1)
    BY DEF Front
  <1>4. /\ Front(s) \in Seq(S) /\ Len(Front(s)) = Len(s) - 1
        /\ \A i \in 1 .. Len(s) - 1 : Front(s)[i] = s[i]
    BY <1>1, <1>3
  <1> QED
    BY <1>1, <1>2, <1>4

LEMMA TopRemoved ==
    ASSUME NEW S, NEW s \in Seq(S), s # <<>>
    PROVE  Front(s) \in Seq(S) /\ ToSet(s) = ToSet(Front(s)) \cup {Last(s)}
  <1>1. /\ Len(s) \in Nat /\ Len(s) >= 1 /\ DOMAIN s = 1 .. Len(s)
        /\ Last(s) = s[Len(s)] /\ Front(s) \in Seq(S) /\ Len(Front(s)) = Len(s) - 1
        /\ \A i \in 1 .. Len(s) - 1 : Front(s)[i] = s[i]
    BY TopOf
  <1>2. DOMAIN Front(s) = 1 .. Len(s) - 1
    BY <1>1
  <1>3. \A x : x \in ToSet(s) <=> \E i \in 1 .. Len(s) : s[i] = x
    BY <1>1 DEF ToSet
  <1>4. \A x : x \in ToSet(Front(s)) <=> \E i \in 1 .. Len(s) - 1 : s[i] = x
    BY <1>1, <1>2 DEF ToSet
  <1>5. \A i \in 1 .. Len(s) : i \in 1 .. Len(s) - 1 \/ i = Len(s)
    <2>1. Len(s) \in Nat
      OBVIOUS
    <2> QED
      BY <2>1
  <1>6. \A i \in 1 .. Len(s) - 1 : i \in 1 .. Len(s)
    BY <1>1
  <1>7. Len(s) \in 1 .. Len(s)
    BY <1>1
  <1>8. \A x : x \in ToSet(s) <=> x \in ToSet(Front(s)) \/ x = Last(s)
    BY <1>1, <1>3, <1>4, <1>5, <1>6, <1>7, Zenon
  <1> QED
    BY <1>1, <1>8

LEMMA ReversedMembers ==
    ASSUME NEW S, NEW s \in Seq(S)
    PROVE  Reverse(s) \in Seq(S) /\ ToSet(Reverse(s)) = ToSet(s)
  <1> DEFINE r == Reverse(s)
             n == Len(s)
  <1>1. n \in Nat /\ DOMAIN s = 1 .. n /\ r = [i \in 1 .. n |-> s[(n - i) + 1]]
    BY DEF Reverse
  <1>2. \A i \in 1 .. n : (n - i) + 1 \in 1 .. n /\ (n - ((n - i) + 1)) + 1 = i
    BY <1>1
  <1>3. \A i \in 1 .. n : s[i] \in S
    OBVIOUS
  <1>4. r \in Seq(S)
    <2>1. \A i \in 1 .. n : s[(n - i) + 1] \in S
      BY <1>2, <1>3
    <2> QED
      BY <1>1, <2>1
  <1>5. DOMAIN r = 1 .. n /\ \A i \in 1 .. n : r[i] = s[(n - i) + 1]
    BY <1>1
  <1>6. \A i \in 1 .. n : s[i] = r[(n - i) + 1]
    BY <1>2, <1>5
  <1> HIDE DEF r, n
  <1>7. \A x : x \in ToSet(r) <=> x \in ToSet(s)
    BY <1>1, <1>2, <1>5, <1>6 DEF ToSet
  <1> QED
    BY <1>4, <1>7 DEF r

LEMMA JoinedMembers ==
    ASSUME NEW S, NEW s \in Seq(S), NEW t \in Seq(S)
    PROVE  s \o t \in Seq(S) /\ ToSet(s \o t) = ToSet(s) \cup ToSet(t)
  <1> DEFINE j == s \o t
  <1>1. /\ j \in Seq(S) /\ Len(j) = Len(s) + Len(t)
        /\ Len(s) \in Nat /\ Len(t) \in Nat
        /\ DOMAIN s = 1 .. Len(s) /\ DOMAIN t = 1 .. Len(t) /\ DOMAIN j = 1 .. Len(s) + Len(t)
        /\ \A i \in 1 .. Len(s) : j[i] = s[i]
        /\ \A i \in 1 .. Len(t) : j[Len(s) + i] = t[i]
    OBVIOUS
  <1> HIDE DEF j
  <1>2. \A i \in 1 .. Len(s) : i \in DOMAIN j
    BY <1>1
  <1>3. \A i \in 1 .. Len(t) : Len(s) + i \in DOMAIN j
    BY <1>1
  <1>4. \A i \in DOMAIN j : \/ i \in 1 .. Len(s)
                            \/ i - Len(s) \in 1 .. Len(t) /\ Len(s) + (i - Len(s)) = i
    BY <1>1
  <1>5. \A x : x \in ToSet(s) => x \in ToSet(j)
    BY <1>1, <1>2 DEF ToSet
  <1>6. \A x : x \in ToSet(t) => x \in ToSet(j)
    BY <1>1, <1>3 DEF ToSet
  <1>7. \A x : x \in ToSet(j) => x \in ToSet(s) \/ x \in ToSet(t)
    BY <1>1, <1>4 DEF ToSet
  <1> QED
    BY <1>1, <1>5, <1>6, <1>7 DEF j

-----------------------------------------------------------------------------
(* The inductive invariant.                                                *)

Rests == {"accepted", "asked", "closed", "incomplete"}
Phases == {"entries", "closure", "rejected"} \cup Rests

ReadSoFar ==
    phase = "entries" =>
        /\ index \in 1 .. Len(Entries) + 1 /\ stack = <<>>
        /\ \A i \in 1 .. index - 1 :
              DecodeHeader /\ ReadsEntry(Entries[i], PreviousId(Entries, i), wire.version)

(* The search: grey is what the stack holds, and the stack is a walk; what *)
(* is black leads to black only, and so back to no start.                  *)
DepsOf(value, id) == EntryAt(value.entries, id).deps

Black(value, colored) == {id \in Ids(value.entries) : colored[id] = "black"}

Greys(value, colored, walked) ==
    \A id \in Ids(value.entries) :
        colored[id] = "grey" <=> \E k \in DOMAIN walked : walked[k][1] = id

OnceEach(walked) == \A j, k \in DOMAIN walked : walked[j][1] = walked[k][1] => j = k

Blacks(value, colored) ==
    \A id \in Black(value, colored) :
        /\ DepsIn(value, id) \subseteq Black(value, colored)
        /\ id \notin Reachable(Walks(value), DepsIn(value, id))

Passed(value, colored, walked, k) ==
    LET deps == DepsOf(value, walked[k][1])
    IN  /\ walked[k][2] \in 1 .. Len(deps) + 1
        /\ \A i \in 1 .. walked[k][2] - 1 :
              \/ deps[i] \in Black(value, colored)
              \/ k < Len(walked) /\ walked[k + 1][1] = deps[i]

IsWalk(value, walked) ==
    \A j, k \in DOMAIN walked :
        j < k => walked[k][1] \in Reachable(Walks(value), DepsIn(value, walked[j][1]))

Searched(value, colored, walked) ==
    /\ colored \in [Ids(value.entries) -> {"white", "grey", "black"}]
    /\ walked \in Seq(Ids(value.entries) \X Nat)
    /\ Greys(value, colored, walked)
    /\ OnceEach(walked)
    /\ Blacks(value, colored)
    /\ IsWalk(value, walked)
    /\ \A k \in DOMAIN walked : Passed(value, colored, walked, k)

(* The worklist: what is closed leads to closed or pending ids, and both   *)
(* can be reached.                                                         *)
Closing ==
    /\ request.roots \in Seq(Nat) /\ pending \in Seq(Nat)
    /\ closed \subseteq Ids(Entries) \cap request.available
    /\ ToSet(request.roots) \subseteq closed \cup ToSet(pending)
    /\ \A id \in closed : DepsIn(wire, id) \subseteq closed \cup ToSet(pending)
    /\ closed \cup ToSet(pending) \subseteq Reachable(Walks(wire), ToSet(request.roots))
    /\ phase = "closed" => pending = <<>>
    /\ phase = "incomplete" =>
          \E id \in ToSet(pending) : id \notin Ids(Entries) \cap request.available

InventoryIInv ==
    /\ wire \in Inventories /\ phase \in Phases
    /\ ReadSoFar
    /\ phase \in {"closure"} \cup Rests => Contract(wire)
    /\ phase = "rejected" => ~Encodes(wire)
    /\ phase = "closure" => Searched(wire, colors, stack)
    /\ phase \in Rests => Acyclic(Entries)
    /\ phase \in {"asked", "closed", "incomplete"} => Closing

LEMMA InventoryOpens == InventoryInit => InventoryIInv
  <1> SUFFICES ASSUME InventoryInit PROVE InventoryIInv
    OBVIOUS
  <1>1. Len(Entries) \in Nat
    BY InventoriesTyped DEF InventoryInit, Entries
  <1>2. ReadSoFar
    BY <1>1 DEF InventoryInit, ReadSoFar
  <1> QED
    BY <1>2 DEF InventoryInit, InventoryIInv, Phases, Rests

LEMMA DecodeEntryKept == InventoryIInv /\ DecodeEntry => InventoryIInv'
  <1> SUFFICES ASSUME InventoryIInv, DecodeEntry PROVE InventoryIInv'
    OBVIOUS
  <1> DEFINE reads == ReadsEntry(Entries[index], PreviousId(Entries, index), wire.version)
  <1>1. /\ wire \in Inventories /\ phase = "entries" /\ wire' = wire
        /\ Len(Entries) \in Nat /\ DOMAIN Entries = 1 .. Len(Entries)
        /\ index \in 1 .. Len(Entries) /\ Entries' = Entries /\ stack' = <<>>
        /\ \A i \in 1 .. index - 1 :
              DecodeHeader /\ ReadsEntry(Entries[i], PreviousId(Entries, i), wire.version)
    <2>1. /\ wire \in Inventories /\ phase = "entries" /\ wire' = wire
          /\ index <= Len(Entries) /\ stack' = stack
      BY DEF InventoryIInv, DecodeEntry
    <2>2. Entries \in Seq(Fields) /\ Entries' = Entries
      BY <2>1, InventoriesTyped DEF Entries
    <2> QED
      BY <2>1, <2>2 DEF InventoryIInv, ReadSoFar
  <1>2. CASE DecodeHeader /\ reads
    <2>1. index' = index + 1 /\ phase' = "entries"
      BY <1>1, <1>2 DEF DecodeEntry, PreviousId
    <2>2. \A i \in 1 .. index : i \in 1 .. index - 1 \/ i = index
      BY <1>1
    <2>3. \A i \in 1 .. index :
              DecodeHeader /\ ReadsEntry(Entries[i], PreviousId(Entries, i), wire.version)
      BY <1>1, <1>2, <2>2
    <2>4. index' \in 1 .. Len(Entries) + 1 /\ index' - 1 = index
      BY <1>1, <2>1
    <2>5. DecodeHeader' = DecodeHeader
      BY <1>1 DEF DecodeHeader, Entries
    <2>6. ReadSoFar'
      BY <1>1, <2>1, <2>3, <2>4, <2>5 DEF ReadSoFar
    <2> QED
      BY <1>1, <2>1, <2>6 DEF InventoryIInv, Phases, Rests
  <1>3. CASE ~(DecodeHeader /\ reads)
    <2>1. phase' = "rejected"
      BY <1>1, <1>3 DEF DecodeEntry, PreviousId
    <2>2. ~Contract(wire)
      <3>1. Contract(wire) => DecodeHeader
        BY DEF Contract, DecodeHeader, Entries
      <3>2. Contract(wire) => reads
        <4>1. Contract(wire) =>
                wire.version \in {0, 1} /\ EncodesEntry(Entries, wire.version, index)
          BY <1>1 DEF Contract, Entries
        <4> QED
          BY <1>1, <4>1, EntryReads DEF Entries
      <3> QED
        BY <1>3, <3>1, <3>2
    <2>3. ~Encodes(wire)
      BY <2>2, ContractOf
    <2> QED
      BY <1>1, <2>1, <2>3 DEF InventoryIInv, ReadSoFar, Phases, Rests
  <1> QED
    BY <1>2, <1>3

LEMMA DecodeWholeKept == InventoryIInv /\ DecodeWhole => InventoryIInv'
  <1> SUFFICES ASSUME InventoryIInv, DecodeWhole PROVE InventoryIInv'
    OBVIOUS
  <1>1. /\ wire \in Inventories /\ phase = "entries" /\ wire' = wire /\ Entries' = Entries
        /\ Len(Entries) \in Nat /\ DOMAIN Entries = 1 .. Len(Entries)
        /\ index - 1 = Len(Entries) /\ stack' = <<>>
        /\ \A i \in 1 .. Len(Entries) :
              DecodeHeader /\ ReadsEntry(Entries[i], PreviousId(Entries, i), wire.version)
    <2>1. /\ wire \in Inventories /\ phase = "entries" /\ wire' = wire
          /\ index > Len(Entries) /\ stack' = stack
      BY DEF InventoryIInv, DecodeWhole
    <2>2. Entries \in Seq(Fields) /\ Entries' = Entries
      BY <2>1, InventoriesTyped DEF Entries
    <2>3. index - 1 = Len(Entries)
      BY <2>1, <2>2 DEF InventoryIInv, ReadSoFar
    <2> QED
      BY <2>1, <2>2, <2>3 DEF InventoryIInv, ReadSoFar
  <1>2. CASE ReadsWhole(wire)
    <2>1. phase' = "closure" /\ colors' = [id \in Ids(Entries) |-> "white"]
      BY <1>1, <1>2 DEF DecodeWhole
    <2>2. /\ OrdinalsComplete(Entries) /\ FixedEntries(Entries, wire.version)
          /\ Entries[1].size = "own"
          /\ \A i \in DOMAIN Entries :
                /\ ToSet(Entries[i].deps) \subseteq Ids(Entries)
                /\ Entries[i].type \in {1, 2, 3} => Entries[i].size # "zero"
      BY <1>2 DEF ReadsWhole, Entries
    <2>3. DecodeHeader
      <3>1. 1 \in Ids(Entries)
        BY <2>2 DEF FixedEntries
      <3>2. DOMAIN Entries # {}
        BY <3>1 DEF Ids
      <3> QED
        BY <1>1, <3>2
    <2>4. wire.version \in {0, 1} /\ Len(Entries) >= 3
      BY <2>3 DEF DecodeHeader
    <2>5. \A i \in DOMAIN Entries : EncodesEntry(Entries, wire.version, i)
      BY <1>1, <2>2, <2>4, EntryReads DEF Entries
    <2>6. Contract(wire)
      BY <2>2, <2>4, <2>5 DEF Contract, Entries
    <2>7. Searched(wire', colors', stack')
      <3>1. /\ colors' \in [Ids(wire.entries) -> {"white", "grey", "black"}]
            /\ Black(wire, colors') = {} /\ Greys(wire, colors', stack')
        BY <1>1, <2>1 DEF Black, Entries, Greys
      <3>2. DOMAIN stack' = {} /\ stack' \in Seq(Ids(wire.entries) \X Nat)
        BY <1>1
      <3> QED
        BY <1>1, <3>1, <3>2 DEF Searched, OnceEach, Blacks, IsWalk
    <2> QED
      BY <1>1, <2>1, <2>6, <2>7 DEF InventoryIInv, ReadSoFar, Phases, Rests
  <1>3. CASE ~ReadsWhole(wire)
    <2>1. phase' = "rejected"
      BY <1>1, <1>3 DEF DecodeWhole
    <2>2. ~Contract(wire)
      BY <1>3, <1>1 DEF Contract, ReadsWhole, EncodesEntry, Entries
    <2>3. ~Encodes(wire)
      BY <2>2, ContractOf
    <2> QED
      BY <1>1, <2>1, <2>3 DEF InventoryIInv, ReadSoFar, Phases, Rests
  <1> QED
    BY <1>2, <1>3

-----------------------------------------------------------------------------
(* The search.                                                             *)

(* Steps of the search leave everything but its colours and stack alone.   *)
LEMMA SearchStepKept ==
    ASSUME InventoryIInv, phase = "closure", wire' = wire, phase' = "closure",
           Searched(wire, colors', stack')
    PROVE  InventoryIInv'
  BY DEF InventoryIInv, ReadSoFar, Phases, Rests, Entries

LEMMA DepsKnown ==
    ASSUME NEW value \in Inventories, NEW id \in Ids(value.entries)
    PROVE  /\ DepsOf(value, id) \in Seq(Nat) /\ Len(DepsOf(value, id)) \in Nat
           /\ DOMAIN DepsOf(value, id) = 1 .. Len(DepsOf(value, id))
           /\ DepsIn(value, id) = ToSet(DepsOf(value, id))
           /\ \A i \in 1 .. Len(DepsOf(value, id)) : DepsOf(value, id)[i] \in DepsIn(value, id)
  <1>1. DepsOf(value, id) \in Seq(Nat)
    BY EntriesKnown DEF DepsOf, Fields
  <1>2. DepsIn(value, id) = ToSet(DepsOf(value, id))
    BY DEF DepsIn, DepsOf
  <1>3. DOMAIN DepsOf(value, id) = 1 .. Len(DepsOf(value, id)) /\ Len(DepsOf(value, id)) \in Nat
    BY <1>1
  <1> QED
    BY <1>1, <1>2, <1>3 DEF ToSet

(* A new start: one grey section, nothing passed.                          *)
LEMMA RootKept ==
    ASSUME NEW value \in Inventories, NEW colored, NEW root \in Ids(value.entries),
           Searched(value, colored, <<>>), colored[root] = "white"
    PROVE  Searched(value, [colored EXCEPT ![root] = "grey"], <<<<root, 1>>>>)
  <1> DEFINE painted == [colored EXCEPT ![root] = "grey"]
             walked == <<<<root, 1>>>>
  <1>1. colored \in [Ids(value.entries) -> {"white", "grey", "black"}]
    BY DEF Searched
  <1>2. \A id \in Ids(value.entries) : colored[id] # "grey"
    BY DEF Searched, Greys
  <1>3. /\ painted \in [Ids(value.entries) -> {"white", "grey", "black"}]
        /\ \A id \in Ids(value.entries) : painted[id] = IF id = root THEN "grey" ELSE colored[id]
    BY <1>1
  <1>4. /\ DOMAIN walked = {1} /\ walked[1] = <<root, 1>> /\ walked[1][1] = root
        /\ walked[1][2] = 1 /\ Len(walked) = 1 /\ walked \in Seq(Ids(value.entries) \X Nat)
    OBVIOUS
  <1> HIDE DEF painted, walked
  <1>5. Black(value, painted) = Black(value, colored)
    BY <1>3 DEF Black
  <1>6. Greys(value, painted, walked)
    BY <1>2, <1>3, <1>4 DEF Greys
  <1>7. OnceEach(walked) /\ IsWalk(value, walked)
    BY <1>4 DEF OnceEach, IsWalk
  <1>8. Blacks(value, painted)
    BY <1>5 DEF Searched, Blacks
  <1>9. Passed(value, painted, walked, 1)
    <2>1. Len(DepsOf(value, root)) \in Nat
      BY DepsKnown
    <2>2. 1 \in 1 .. Len(DepsOf(value, root)) + 1 /\ 1 .. (1 - 1) = {}
      BY <2>1
    <2> QED
      BY <1>4, <2>2 DEF Passed
  <1>10. Searched(value, painted, walked)
    BY <1>3, <1>4, <1>6, <1>7, <1>8, <1>9 DEF Searched
  <1> QED
    BY <1>10 DEF painted, walked

LEMMA StartRootKept == InventoryIInv /\ StartRoot => InventoryIInv'
  <1> SUFFICES ASSUME InventoryIInv, StartRoot PROVE InventoryIInv'
    OBVIOUS
  <1>1. /\ wire \in Inventories /\ phase = "closure" /\ wire' = wire /\ stack = <<>>
        /\ Contract(wire) /\ Searched(wire, colors, <<>>)
        /\ colors \in [Ids(wire.entries) -> {"white", "grey", "black"}]
    BY DEF InventoryIInv, StartRoot, Searched
  <1>2. \A id \in Ids(wire.entries) : colors[id] # "grey"
    BY <1>1 DEF Searched, Greys
  <1>3. CASE \E id \in DOMAIN colors : White(id)
    <2> DEFINE root == CHOOSE id \in DOMAIN colors :
                          White(id) /\ \A o \in DOMAIN colors : White(o) => id <= o
    <2>1. root \in Ids(wire.entries) /\ colors[root] = "white"
      <3> DEFINE whites == {id \in DOMAIN colors : White(id)}
      <3>1. whites \subseteq Nat /\ whites # {}
        BY <1>1, <1>3, EntriesKnown
      <3>2. \E x \in whites : \A y \in whites : x <= y
        BY <3>1, LeastId
      <3>3. \E id \in DOMAIN colors :
                White(id) /\ \A o \in DOMAIN colors : White(o) => id <= o
        BY <3>2
      <3>4. root \in DOMAIN colors /\ White(root)
        BY <3>3
      <3> QED
        BY <1>1, <3>4 DEF White
    <2>2. /\ colors' = [colors EXCEPT ![root] = "grey"] /\ stack' = <<<<root, 1>>>>
          /\ phase' = "closure"
      BY <1>1, <1>3 DEF StartRoot
    <2> HIDE DEF root
    <2>3. Searched(wire, colors', stack')
      BY <1>1, <2>1, <2>2, RootKept
    <2> QED
      BY <1>1, <2>2, <2>3, SearchStepKept
  <1>4. CASE ~\E id \in DOMAIN colors : White(id)
    <2>1. phase' = "accepted"
      BY <1>1, <1>4 DEF StartRoot
    <2>2. \A id \in Ids(wire.entries) : id \in Black(wire, colors)
      BY <1>1, <1>2, <1>4 DEF White, Black
    <2>3. Acyclic(Entries)
      BY <1>1, <2>2 DEF Searched, Blacks, Acyclic, Walks, DepsIn, Entries
    <2>4. Acyclic(Entries)'
      BY <1>1, <2>3 DEF Entries
    <2> QED
      BY <1>1, <2>1, <2>4 DEF InventoryIInv, ReadSoFar, Phases, Rests
  <1> QED
    BY <1>3, <1>4

(* A section left when every dependency is passed: black, and on no cycle. *)
LEMMA LeaveKept ==
    ASSUME NEW value \in Inventories, NEW colored, NEW walked,
           Searched(value, colored, walked), walked # <<>>,
           Last(walked)[2] > Len(DepsOf(value, Last(walked)[1]))
    PROVE  Searched(value, [colored EXCEPT ![Last(walked)[1]] = "black"], Front(walked))
  <1> DEFINE n == Len(walked)
             t == walked[n][1]
             painted == [colored EXCEPT ![t] = "black"]
             shorter == Front(walked)
             ids == Ids(value.entries)
  <1>1. /\ colored \in [ids -> {"white", "grey", "black"}]
        /\ walked \in Seq(ids \X Nat)
        /\ Greys(value, colored, walked) /\ OnceEach(walked) /\ Blacks(value, colored)
        /\ IsWalk(value, walked)
        /\ \A k \in DOMAIN walked : Passed(value, colored, walked, k)
    BY DEF Searched
  <1>2. /\ n \in Nat /\ n >= 1 /\ DOMAIN walked = 1 .. n /\ Last(walked) = walked[n]
        /\ walked[n] \in ids \X Nat
        /\ shorter \in Seq(ids \X Nat) /\ Len(shorter) = n - 1
        /\ \A i \in 1 .. n - 1 : shorter[i] = walked[i]
    BY <1>1, TopOf, ZenonT(30)
  <1>3. DOMAIN shorter = 1 .. n - 1
    BY <1>2
  <1>4. walked[n][2] > Len(DepsOf(value, t)) /\ t \in ids
    BY <1>2
  <1>5. painted = [colored EXCEPT ![Last(walked)[1]] = "black"] /\ shorter = Front(walked)
    BY <1>2
  <1> HIDE DEF painted, shorter, n
  <1>6. n \in 1 .. n /\ n - 1 \in Nat /\ \A k \in 1 .. n - 1 : k \in 1 .. n /\ k # n /\ k < n
    BY <1>2
  <1>7. \A k \in 1 .. n : k \in 1 .. n - 1 \/ k = n
    BY <1>2
  <1>8. /\ painted \in [ids -> {"white", "grey", "black"}]
        /\ \A id \in ids : painted[id] = IF id = t THEN "black" ELSE colored[id]
    BY <1>1, <1>4 DEF painted
  <1>9. colored[t] = "grey"
    BY <1>1, <1>2, <1>4, <1>6 DEF Greys
  <1> HIDE DEF t
  <1>10. t \notin Black(value, colored) /\ Black(value, painted) = Black(value, colored) \cup {t}
    BY <1>4, <1>8, <1>9 DEF Black
  <1>11. Greys(value, painted, shorter)
    <2> SUFFICES ASSUME NEW id \in ids
                 PROVE  painted[id] = "grey" <=> \E k \in DOMAIN shorter : shorter[k][1] = id
      BY DEF Greys
    <2>1. CASE id = t
      <3>1. \A k \in 1 .. n - 1 : walked[k][1] # t
        BY <1>1, <1>2, <1>6 DEF OnceEach, t
      <3>2. \A k \in 1 .. n - 1 : shorter[k][1] # t
        BY <1>2, <3>1
      <3> QED
        BY <1>3, <1>8, <2>1, <3>2
    <2>2. CASE id # t
      <3>1. colored[id] = "grey" <=> \E k \in 1 .. n : walked[k][1] = id
        BY <1>1, <1>2 DEF Greys
      <3>2. (\E k \in 1 .. n : walked[k][1] = id) <=> (\E k \in 1 .. n - 1 : walked[k][1] = id)
        BY <1>6, <1>7, <2>2, Zenon DEF t
      <3>3. (\E k \in 1 .. n - 1 : walked[k][1] = id) <=> (\E k \in DOMAIN shorter : shorter[k][1] = id)
        BY <1>2, <1>3
      <3>4. painted[id] = colored[id]
        BY <1>8, <2>2
      <3> QED
        BY <3>1, <3>2, <3>3, <3>4
    <2> QED
      BY <2>1, <2>2
  <1>12. OnceEach(shorter)
    <2> SUFFICES ASSUME NEW j \in 1 .. n - 1, NEW k \in 1 .. n - 1, shorter[j][1] = shorter[k][1]
                 PROVE  j = k
      BY <1>3 DEF OnceEach
    <2>1. walked[j][1] = walked[k][1] /\ j \in DOMAIN walked /\ k \in DOMAIN walked
      BY <1>2, <1>6
    <2> QED
      BY <1>1, <2>1 DEF OnceEach
  <1>13. IsWalk(value, shorter)
    <2> SUFFICES ASSUME NEW j \in 1 .. n - 1, NEW k \in 1 .. n - 1, j < k
                 PROVE  shorter[k][1] \in Reachable(Walks(value), DepsIn(value, shorter[j][1]))
      BY <1>3 DEF IsWalk
    <2>1. shorter[j] = walked[j] /\ shorter[k] = walked[k] /\ j \in DOMAIN walked /\ k \in DOMAIN walked
      BY <1>2, <1>6
    <2> QED
      BY <1>1, <2>1 DEF IsWalk
  <1>14. DepsIn(value, t) \subseteq Black(value, colored)
    <2>1. Passed(value, colored, walked, n)
      BY <1>1, <1>2, <1>6
    <2>2. /\ DepsIn(value, t) = ToSet(DepsOf(value, t)) /\ Len(DepsOf(value, t)) \in Nat
          /\ DOMAIN DepsOf(value, t) = 1 .. Len(DepsOf(value, t))
      BY <1>4, DepsKnown
    <2>3. walked[n][2] \in 1 .. Len(DepsOf(value, t)) + 1
      BY <2>1 DEF Passed, t
    <2>4. walked[n][2] - 1 = Len(DepsOf(value, t))
      BY <1>4, <2>2, <2>3
    <2>5. ~(n < Len(walked))
      BY <1>2 DEF n
    <2>6. \A i \in 1 .. Len(DepsOf(value, t)) : DepsOf(value, t)[i] \in Black(value, colored)
      BY <2>1, <2>4, <2>5 DEF Passed, t
    <2> QED
      BY <2>2, <2>6 DEF ToSet
  <1>15. Blacks(value, painted)
    <2>1. ClosedUnder(Walks(value), Black(value, colored))
      <3>1. \A id \in Black(value, colored) : DepsIn(value, id) \subseteq Black(value, colored)
        BY <1>1 DEF Blacks
      <3> QED
        BY <3>1, ClosedByDependencies
    <2>2. Reachable(Walks(value), DepsIn(value, t)) \subseteq Black(value, colored)
      BY <1>14, <2>1, ReachLeast
    <2> QED
      BY <1>1, <1>10, <1>14, <2>2 DEF Blacks
  <1>16. ASSUME NEW k \in 1 .. n - 1 PROVE Passed(value, painted, shorter, k)
    <2> DEFINE deps == DepsOf(value, walked[k][1])
    <2>1. Passed(value, colored, walked, k) /\ shorter[k] = walked[k]
      BY <1>1, <1>2, <1>6
    <2>2. walked[k][2] \in 1 .. Len(deps) + 1
      BY <2>1 DEF Passed
    <2>3. ASSUME NEW i \in 1 .. walked[k][2] - 1
          PROVE  deps[i] \in Black(value, painted) \/ (k < Len(shorter) /\ shorter[k + 1][1] = deps[i])
      <3>1. deps[i] \in Black(value, colored) \/ walked[k + 1][1] = deps[i]
        BY <2>1 DEF Passed
      <3>2. CASE deps[i] \in Black(value, colored)
        BY <1>10, <3>2
      <3>3. CASE walked[k + 1][1] = deps[i] /\ k + 1 = n
        BY <1>10, <3>3 DEF t
      <3>4. CASE walked[k + 1][1] = deps[i] /\ k + 1 # n
        <4>1. k + 1 \in 1 .. n - 1
          BY <1>2, <3>4
        <4>2. k < n - 1
          BY <1>2, <4>1
        <4>3. shorter[k + 1] = walked[k + 1]
          BY <1>2, <4>1
        <4> QED
          BY <1>2, <3>4, <4>2, <4>3
      <3> QED
        BY <3>1, <3>2, <3>3, <3>4
    <2> HIDE DEF deps
    <2>4. shorter[k][2] = walked[k][2] /\ DepsOf(value, shorter[k][1]) = deps
      BY <2>1 DEF deps
    <2> QED
      BY <2>2, <2>3, <2>4 DEF Passed
  <1>17. Searched(value, painted, shorter)
    BY <1>2, <1>3, <1>8, <1>11, <1>12, <1>13, <1>15, <1>16 DEF Searched
  <1> QED
    BY <1>5, <1>17

LEMMA LeaveSectionKept == InventoryIInv /\ LeaveSection => InventoryIInv'
  <1> SUFFICES ASSUME InventoryIInv, LeaveSection PROVE InventoryIInv'
    OBVIOUS
  <1>1. /\ wire \in Inventories /\ phase = "closure" /\ phase' = "closure" /\ wire' = wire
        /\ stack # <<>> /\ Searched(wire, colors, stack)
        /\ Last(stack)[2] > Len(DepsOf(wire, Last(stack)[1]))
        /\ colors' = [colors EXCEPT ![Last(stack)[1]] = "black"] /\ stack' = Front(stack)
    BY DEF InventoryIInv, LeaveSection, Deps, DepsOf, Entries
  <1>2. Searched(wire, colors', stack')
    BY <1>1, LeaveKept
  <1> QED
    BY <1>1, <1>2, SearchStepKept

(* The next dependency of the section on top: an entry, one step away.     *)
LEMMA NextDependency ==
    ASSUME NEW value \in Inventories, Contract(value), NEW colored, NEW walked,
           Searched(value, colored, walked), walked # <<>>,
           Last(walked)[2] <= Len(DepsOf(value, Last(walked)[1]))
    PROVE  LET n == Len(walked)
               t == walked[n][1]
               next == DepsOf(value, t)[walked[n][2]]
           IN  /\ n \in Nat /\ n >= 1 /\ DOMAIN walked = 1 .. n /\ Last(walked) = walked[n]
               /\ t \in Ids(value.entries) /\ walked[n][2] \in Nat
               /\ walked[n][2] + 1 \in 1 .. Len(DepsOf(value, t)) + 1
               /\ next \in Ids(value.entries) /\ next \in DepsIn(value, t)
               /\ \A k \in 1 .. n : k < n => next \in Reachable(Walks(value), DepsIn(value, walked[k][1]))
               /\ \A i \in 1 .. walked[n][2] : i = walked[n][2] \/ DepsOf(value, t)[i] \in Black(value, colored)
  <1> DEFINE n == Len(walked)
             t == walked[n][1]
             at == walked[n][2]
             next == DepsOf(value, t)[at]
             ids == Ids(value.entries)
  <1>1. /\ walked \in Seq(ids \X Nat) /\ IsWalk(value, walked)
        /\ \A k \in DOMAIN walked : Passed(value, colored, walked, k)
    BY DEF Searched
  <1>2. /\ n \in Nat /\ n >= 1 /\ DOMAIN walked = 1 .. n /\ Last(walked) = walked[n]
        /\ walked[n] \in ids \X Nat
    BY <1>1, TopOf
  <1>3. t \in ids /\ at \in Nat /\ at <= Len(DepsOf(value, t))
    BY <1>2
  <1>4. n \in 1 .. n /\ ~(n < Len(walked))
    BY <1>2
  <1>5. Passed(value, colored, walked, n)
    BY <1>1, <1>2, <1>4
  <1> HIDE DEF n
  <1>6. /\ at \in 1 .. Len(DepsOf(value, t)) + 1
        /\ \A i \in 1 .. at - 1 : DepsOf(value, t)[i] \in Black(value, colored)
    BY <1>4, <1>5 DEF Passed
  <1>7. Len(DepsOf(value, t)) \in Nat
    BY <1>3, DepsKnown
  <1> HIDE DEF t, at
  <1>8. at \in 1 .. Len(DepsOf(value, t)) /\ at + 1 \in 1 .. Len(DepsOf(value, t)) + 1
    BY <1>3, <1>6, <1>7
  <1>9. next \in DepsIn(value, t)
    BY <1>3, <1>8, DepsKnown
  <1>10. next \in ids /\ <<t, next>> \in Walks(value)
    BY <1>3, <1>9, DependenciesKnown
  <1> HIDE DEF next
  <1>11. ASSUME NEW k \in 1 .. n, k < n
         PROVE  next \in Reachable(Walks(value), DepsIn(value, walked[k][1]))
    <2>1. t \in Reachable(Walks(value), DepsIn(value, walked[k][1]))
      BY <1>1, <1>2, <1>4, <1>11 DEF IsWalk, t
    <2>2. ClosedUnder(Walks(value), Reachable(Walks(value), DepsIn(value, walked[k][1])))
      BY ReachCloses
    <2> QED
      BY <1>10, <2>1, <2>2 DEF ClosedUnder
  <1>12. \A i \in 1 .. at : i = at \/ i \in 1 .. at - 1
    BY <1>3
  <1>13. \A i \in 1 .. at : i = at \/ DepsOf(value, t)[i] \in Black(value, colored)
    BY <1>6, <1>12
  <1> QED
    BY <1>2, <1>3, <1>8, <1>9, <1>10, <1>11, <1>13 DEF n, t, at, next

(* A dependency that is still grey lies on a cycle.                        *)
LEMMA GreyIsACycle ==
    ASSUME NEW value \in Inventories, Contract(value), NEW colored, NEW walked,
           Searched(value, colored, walked), walked # <<>>,
           Last(walked)[2] <= Len(DepsOf(value, Last(walked)[1])),
           colored[DepsOf(value, Last(walked)[1])[Last(walked)[2]]] = "grey"
    PROVE  ~Acyclic(value.entries)
  <1> DEFINE n == Len(walked)
             t == walked[n][1]
             next == DepsOf(value, t)[walked[n][2]]
  <1>1. /\ n \in Nat /\ DOMAIN walked = 1 .. n /\ Last(walked) = walked[n]
        /\ t \in Ids(value.entries)
        /\ next \in Ids(value.entries) /\ next \in DepsIn(value, t)
        /\ \A k \in 1 .. n : k < n => next \in Reachable(Walks(value), DepsIn(value, walked[k][1]))
    BY NextDependency
  <1>2. colored[next] = "grey"
    BY <1>1
  <1> HIDE DEF next
  <1>3. PICK k \in DOMAIN walked : walked[k][1] = next
    BY <1>1, <1>2 DEF Searched, Greys
  <1>4. k < n \/ k = n
    BY <1>1, <1>3
  <1>5. next \in Reachable(Walks(value), DepsIn(value, next))
    <2>1. CASE k < n
      BY <1>1, <1>3, <2>1
    <2>2. CASE k = n
      <3>1. next = t
        BY <1>3, <2>2
      <3> QED
        BY <1>1, <3>1, ReachCloses
    <2> QED
      BY <1>4, <2>1, <2>2
  <1> QED
    BY <1>1, <1>5 DEF Acyclic, Walks, DepsIn

(* The walk with its top moved past a dependency, and the next one pushed  *)
(* on it or not.                                                           *)
Moved(walked) == Append(Front(walked), <<Last(walked)[1], Last(walked)[2] + 1>>)

LEMMA MovedIs ==
    ASSUME NEW ids, NEW walked \in Seq(ids \X Nat), walked # <<>>
    PROVE  LET n == Len(walked)
           IN  /\ Moved(walked) \in Seq(ids \X Nat) /\ Len(Moved(walked)) = n
               /\ DOMAIN Moved(walked) = 1 .. n
               /\ \A k \in 1 .. n - 1 : Moved(walked)[k] = walked[k]
               /\ Moved(walked)[n] = <<walked[n][1], walked[n][2] + 1>>
               /\ \A k \in 1 .. n : Moved(walked)[k][1] = walked[k][1]
  <1> DEFINE n == Len(walked)
             front == Front(walked)
             top == <<walked[n][1], walked[n][2] + 1>>
  <1>1. /\ n \in Nat /\ n >= 1 /\ DOMAIN walked = 1 .. n /\ Last(walked) = walked[n]
        /\ Last(walked) \in ids \X Nat /\ front \in Seq(ids \X Nat) /\ Len(front) = n - 1
        /\ \A i \in 1 .. n - 1 : front[i] = walked[i]
    BY TopOf
  <1>2. Moved(walked) = Append(front, top)
    BY <1>1 DEF Moved
  <1>3. top \in ids \X Nat
    BY <1>1
  <1>4. top[1] = walked[n][1]
    OBVIOUS
  <1> HIDE DEF n, front, top
  <1>5. /\ Moved(walked) \in Seq(ids \X Nat) /\ Len(Moved(walked)) = Len(front) + 1
        /\ \A k \in 1 .. Len(front) : Moved(walked)[k] = front[k]
        /\ Moved(walked)[Len(front) + 1] = top
    BY <1>1, <1>2, <1>3
  <1>6. Len(front) + 1 = n
    BY <1>1
  <1>7. /\ Len(Moved(walked)) = n /\ Moved(walked)[n] = top
        /\ \A k \in 1 .. n - 1 : Moved(walked)[k] = walked[k]
    BY <1>1, <1>5, <1>6
  <1>8. DOMAIN Moved(walked) = 1 .. n
    BY <1>5, <1>7
  <1>9. \A k \in 1 .. n : k \in 1 .. n - 1 \/ k = n
    BY <1>1
  <1>10. \A k \in 1 .. n : Moved(walked)[k][1] = walked[k][1]
    BY <1>4, <1>7, <1>9
  <1> QED
    BY <1>5, <1>7, <1>8, <1>10 DEF n, top

(* A dependency that is already black is passed.                           *)
LEMMA BlackPassed ==
    ASSUME NEW value \in Inventories, Contract(value), NEW colored, NEW walked,
           Searched(value, colored, walked), walked # <<>>,
           Last(walked)[2] <= Len(DepsOf(value, Last(walked)[1])),
           colored[DepsOf(value, Last(walked)[1])[Last(walked)[2]]] = "black"
    PROVE  Searched(value, colored, Moved(walked))
  <1> DEFINE n == Len(walked)
             t == walked[n][1]
             at == walked[n][2]
             next == DepsOf(value, t)[at]
             moved == Moved(walked)
             ids == Ids(value.entries)
  <1>1. /\ colored \in [ids -> {"white", "grey", "black"}]
        /\ walked \in Seq(ids \X Nat)
        /\ Greys(value, colored, walked) /\ OnceEach(walked) /\ Blacks(value, colored)
        /\ IsWalk(value, walked)
        /\ \A k \in DOMAIN walked : Passed(value, colored, walked, k)
    BY DEF Searched
  <1>2. /\ n \in Nat /\ n >= 1 /\ DOMAIN walked = 1 .. n /\ Last(walked) = walked[n]
        /\ at \in Nat /\ at + 1 \in 1 .. Len(DepsOf(value, t)) + 1
        /\ next \in ids
        /\ \A i \in 1 .. at : i = at \/ DepsOf(value, t)[i] \in Black(value, colored)
    BY NextDependency
  <1>3. next \in Black(value, colored)
    BY <1>2 DEF Black
  <1>4. \A i \in 1 .. at : DepsOf(value, t)[i] \in Black(value, colored)
    BY <1>2, <1>3
  <1>5. /\ moved \in Seq(ids \X Nat) /\ Len(moved) = n /\ DOMAIN moved = 1 .. n
        /\ \A k \in 1 .. n - 1 : moved[k] = walked[k]
        /\ moved[n] = <<t, at + 1>>
        /\ \A k \in 1 .. n : moved[k][1] = walked[k][1]
    BY <1>1, MovedIs
  <1>6. n = Len(walked)
    OBVIOUS
  <1> HIDE DEF moved, next, n
  <1>7. Greys(value, colored, moved)
    <2> SUFFICES ASSUME NEW id \in ids
                 PROVE  colored[id] = "grey" <=> \E k \in 1 .. n : moved[k][1] = id
      BY <1>5 DEF Greys
    <2>1. colored[id] = "grey" <=> \E k \in 1 .. n : walked[k][1] = id
      BY <1>1, <1>2 DEF Greys
    <2>2. \A k \in 1 .. n : moved[k][1] = walked[k][1]
      BY <1>5
    <2> QED
      BY <2>1, <2>2, Zenon
  <1>8. OnceEach(moved)
    BY <1>1, <1>2, <1>5 DEF OnceEach
  <1>9. IsWalk(value, moved)
    BY <1>1, <1>2, <1>5 DEF IsWalk
  <1>10. ASSUME NEW k \in 1 .. n PROVE Passed(value, colored, moved, k)
    <2>1. CASE k = n
      <3>1. moved[n][1] = t /\ moved[n][2] = at + 1 /\ (at + 1) - 1 = at
        BY <1>2, <1>5
      <3> HIDE DEF t, at
      <3> QED
        BY <1>2, <1>4, <2>1, <3>1 DEF Passed
    <2>2. CASE k # n
      <3>1. k \in 1 .. n - 1 /\ k + 1 \in 1 .. n
        BY <1>2, <2>2
      <3>2. moved[k] = walked[k] /\ moved[k + 1][1] = walked[k + 1][1]
        BY <1>5, <3>1
      <3>3. Passed(value, colored, walked, k)
        BY <1>1, <1>2
      <3> QED
        BY <1>5, <1>6, <3>2, <3>3 DEF Passed
    <2> QED
      BY <2>1, <2>2
  <1>11. Searched(value, colored, moved)
    BY <1>1, <1>5, <1>7, <1>8, <1>9, <1>10 DEF Searched
  <1> QED
    BY <1>11 DEF moved

(* A dependency that is still white becomes the top.                       *)
LEMMA WhitePushed ==
    ASSUME NEW value \in Inventories, Contract(value), NEW colored, NEW walked,
           Searched(value, colored, walked), walked # <<>>,
           Last(walked)[2] <= Len(DepsOf(value, Last(walked)[1])),
           NEW next, next = DepsOf(value, Last(walked)[1])[Last(walked)[2]],
           colored[next] = "white"
    PROVE  Searched(value, [colored EXCEPT ![next] = "grey"], Append(Moved(walked), <<next, 1>>))
  <1> DEFINE n == Len(walked)
             t == walked[n][1]
             at == walked[n][2]
             moved == Moved(walked)
             pushed == Append(moved, <<next, 1>>)
             painted == [colored EXCEPT ![next] = "grey"]
             ids == Ids(value.entries)
  <1>1. /\ colored \in [ids -> {"white", "grey", "black"}]
        /\ walked \in Seq(ids \X Nat)
        /\ Greys(value, colored, walked) /\ OnceEach(walked) /\ Blacks(value, colored)
        /\ IsWalk(value, walked)
        /\ \A k \in DOMAIN walked : Passed(value, colored, walked, k)
    BY DEF Searched
  <1>2. /\ n \in Nat /\ n >= 1 /\ DOMAIN walked = 1 .. n /\ Last(walked) = walked[n]
        /\ at \in Nat /\ at + 1 \in 1 .. Len(DepsOf(value, t)) + 1
        /\ next \in ids /\ next \in DepsIn(value, t) /\ next = DepsOf(value, t)[at]
        /\ \A k \in 1 .. n : k < n => next \in Reachable(Walks(value), DepsIn(value, walked[k][1]))
        /\ \A i \in 1 .. at : i = at \/ DepsOf(value, t)[i] \in Black(value, colored)
    BY NextDependency
  <1>3. /\ moved \in Seq(ids \X Nat) /\ Len(moved) = n /\ DOMAIN moved = 1 .. n
        /\ \A k \in 1 .. n - 1 : moved[k] = walked[k]
        /\ moved[n] = <<t, at + 1>>
        /\ \A k \in 1 .. n : moved[k][1] = walked[k][1]
    BY <1>1, MovedIs
  <1>4. n = Len(walked) /\ next \in Reachable(Walks(value), DepsIn(value, t))
    BY <1>2, ReachCloses
  <1>5. /\ painted \in [ids -> {"white", "grey", "black"}]
        /\ \A id \in ids : painted[id] = IF id = next THEN "grey" ELSE colored[id]
    BY <1>1, <1>2
  <1> HIDE DEF moved, n, painted
  <1>6. <<next, 1>> \in ids \X Nat
    BY <1>2
  <1>7. /\ pushed \in Seq(ids \X Nat) /\ Len(pushed) = Len(moved) + 1
        /\ \A k \in 1 .. Len(moved) : pushed[k] = moved[k]
        /\ pushed[Len(moved) + 1] = <<next, 1>>
    BY <1>3, <1>6
  <1> HIDE DEF pushed
  <1>8. /\ Len(pushed) = n + 1 /\ pushed[n + 1] = <<next, 1>>
        /\ \A k \in 1 .. n : pushed[k] = moved[k]
    BY <1>3, <1>7
  <1>9. DOMAIN pushed = 1 .. n + 1
    BY <1>7, <1>8
  <1>10. \A k \in 1 .. n : pushed[k][1] = walked[k][1]
    BY <1>3, <1>8
  <1>11. pushed[n + 1][1] = next /\ pushed[n + 1][2] = 1
    BY <1>8
  <1>12. /\ \A k \in 1 .. n + 1 : k \in 1 .. n \/ k = n + 1
         /\ \A k \in 1 .. n : k \in 1 .. n + 1
         /\ n + 1 \in 1 .. n + 1
    BY <1>2
  <1>13. Black(value, painted) = Black(value, colored)
    BY <1>5 DEF Black
  <1>14. \A k \in 1 .. n : walked[k][1] # next
    BY <1>1, <1>2 DEF Greys
  <1>15. Greys(value, painted, pushed)
    <2> SUFFICES ASSUME NEW id \in ids
                 PROVE  painted[id] = "grey" <=> \E k \in 1 .. n + 1 : pushed[k][1] = id
      BY <1>9 DEF Greys
    <2>1. CASE id = next
      BY <1>5, <1>11, <1>12, <2>1
    <2>2. CASE id # next
      <3>1. colored[id] = "grey" <=> \E k \in 1 .. n : walked[k][1] = id
        BY <1>1, <1>2 DEF Greys
      <3>2. (\E k \in 1 .. n + 1 : pushed[k][1] = id) <=> (\E k \in 1 .. n : walked[k][1] = id)
        BY <1>10, <1>11, <1>12, <2>2, Zenon
      <3>3. painted[id] = colored[id]
        BY <1>5, <2>2
      <3> QED
        BY <3>1, <3>2, <3>3
    <2> QED
      BY <2>1, <2>2
  <1>16. OnceEach(pushed)
    <2> SUFFICES ASSUME NEW j \in 1 .. n + 1, NEW k \in 1 .. n + 1, pushed[j][1] = pushed[k][1]
                 PROVE  j = k
      BY <1>9 DEF OnceEach
    <2>1. CASE j \in 1 .. n /\ k \in 1 .. n
      BY <1>1, <1>2, <1>10, <2>1 DEF OnceEach
    <2>2. CASE j = n + 1 /\ k \in 1 .. n
      BY <1>10, <1>11, <1>14, <2>2
    <2>3. CASE j \in 1 .. n /\ k = n + 1
      BY <1>10, <1>11, <1>14, <2>3
    <2> QED
      BY <1>12, <2>1, <2>2, <2>3
  <1>17. IsWalk(value, pushed)
    <2> SUFFICES ASSUME NEW j \in 1 .. n + 1, NEW k \in 1 .. n + 1, j < k
                 PROVE  pushed[k][1] \in Reachable(Walks(value), DepsIn(value, pushed[j][1]))
      BY <1>9 DEF IsWalk
    <2>1. CASE k \in 1 .. n
      <3>1. j \in 1 .. n
        BY <1>2, <2>1
      <3> QED
        BY <1>1, <1>2, <1>10, <2>1, <3>1 DEF IsWalk
    <2>2. CASE k = n + 1
      <3>1. j \in 1 .. n /\ (j < n \/ j = n)
        BY <1>2, <2>2
      <3>2. next \in Reachable(Walks(value), DepsIn(value, walked[j][1]))
        BY <1>2, <1>4, <3>1, ZenonT(30)
      <3> QED
        BY <1>10, <1>11, <2>2, <3>1, <3>2
    <2> QED
      BY <1>12, <2>1, <2>2
  <1>18. Blacks(value, painted)
    BY <1>1, <1>13 DEF Blacks
  <1>19. ASSUME NEW k \in 1 .. n + 1 PROVE Passed(value, painted, pushed, k)
    <2>1. CASE k = n + 1
      <3>1. Len(DepsOf(value, next)) \in Nat
        BY <1>2, DepsKnown
      <3>2. 1 \in 1 .. Len(DepsOf(value, next)) + 1 /\ 1 .. (1 - 1) = {}
        BY <3>1
      <3> QED
        BY <1>11, <2>1, <3>2 DEF Passed
    <2>2. CASE k = n
      <3>1. pushed[n][1] = t /\ pushed[n][2] = at + 1 /\ (at + 1) - 1 = at
        BY <1>2, <1>3, <1>8
      <3>2. n < Len(pushed)
        BY <1>2, <1>8
      <3> HIDE DEF t, at
      <3>3. \A i \in 1 .. at : DepsOf(value, t)[i] \in Black(value, painted) \/ pushed[n + 1][1] = DepsOf(value, t)[i]
        BY <1>2, <1>11, <1>13
      <3> QED
        BY <1>2, <2>2, <3>1, <3>2, <3>3 DEF Passed
    <2>3. CASE k \in 1 .. n /\ k # n
      <3>1. k \in 1 .. n - 1 /\ k + 1 \in 1 .. n
        BY <1>2, <2>3
      <3>2. pushed[k] = walked[k] /\ pushed[k + 1][1] = walked[k + 1][1]
        BY <1>3, <1>8, <1>10, <2>3, <3>1
      <3>3. k < Len(pushed)
        BY <1>2, <1>8, <2>3
      <3>4. Passed(value, colored, walked, k)
        BY <1>1, <1>2, <2>3
      <3> QED
        BY <1>13, <3>2, <3>3, <3>4 DEF Passed
    <2> QED
      BY <1>12, <2>1, <2>2, <2>3
  <1>20. Searched(value, painted, pushed)
    BY <1>5, <1>7, <1>9, <1>15, <1>16, <1>17, <1>18, <1>19 DEF Searched
  <1> QED
    BY <1>20 DEF painted, pushed, moved

LEMMA VisitDependencyKept == InventoryIInv /\ VisitDependency => InventoryIInv'
  <1> SUFFICES ASSUME InventoryIInv, VisitDependency PROVE InventoryIInv'
    OBVIOUS
  <1> DEFINE next == DepsOf(wire, Last(stack)[1])[Last(stack)[2]]
  <1>1. /\ wire \in Inventories /\ Contract(wire) /\ phase = "closure" /\ wire' = wire
        /\ stack # <<>> /\ Searched(wire, colors, stack)
        /\ Last(stack)[2] <= Len(DepsOf(wire, Last(stack)[1]))
        /\ colors \in [Ids(wire.entries) -> {"white", "grey", "black"}]
    BY DEF InventoryIInv, VisitDependency, Deps, DepsOf, Entries, Searched
  <1>2. next \in Ids(wire.entries)
    BY <1>1, NextDependency
  <1>3. /\ colors[next] = "grey" => phase' = "rejected"
        /\ colors[next] = "white" =>
              /\ colors' = [colors EXCEPT ![next] = "grey"]
              /\ stack' = Append(Moved(stack), <<next, 1>>)
              /\ phase' = phase
        /\ colors[next] = "black" => stack' = Moved(stack) /\ phase' = phase /\ colors' = colors
    BY DEF VisitDependency, Deps, DepsOf, Entries, Moved
  <1> HIDE DEF next
  <1>4. colors[next] \in {"white", "grey", "black"}
    BY <1>1, <1>2
  <1>5. CASE colors[next] = "grey"
    <2>1. ~Acyclic(wire.entries)
      BY <1>1, <1>5, GreyIsACycle DEF next
    <2>2. ~Encodes(wire)
      BY <2>1, ContractOf
    <2> QED
      BY <1>1, <1>3, <1>5, <2>2 DEF InventoryIInv, ReadSoFar, Phases, Rests
  <1>6. CASE colors[next] = "white"
    <2>1. next = DepsOf(wire, Last(stack)[1])[Last(stack)[2]]
      BY DEF next
    <2>2. Searched(wire, [colors EXCEPT ![next] = "grey"], Append(Moved(stack), <<next, 1>>))
      BY <1>1, <1>6, <2>1, WhitePushed
    <2>3. Searched(wire, colors', stack')
      BY <1>3, <1>6, <2>2
    <2> QED
      BY <1>1, <1>3, <1>6, <2>3, SearchStepKept
  <1>7. CASE colors[next] = "black"
    <2>1. Searched(wire, colors', stack')
      BY <1>1, <1>3, <1>7, BlackPassed DEF next
    <2> QED
      BY <1>1, <1>3, <1>7, <2>1, SearchStepKept
  <1> QED
    BY <1>4, <1>5, <1>6, <1>7

-----------------------------------------------------------------------------
(* The worklist.                                                           *)

LEMMA AskClosureKept ==
    ASSUME InventoryIInv, NEW ask \in Requests, AskClosure(ask.roots, ask.available)
    PROVE  InventoryIInv'
  <1>1. /\ wire \in Inventories /\ phase = "accepted" /\ wire' = wire /\ Entries' = Entries
        /\ phase' = "asked" /\ closed' = {} /\ pending' = Reverse(ask.roots)
        /\ request' = [roots |-> ask.roots, available |-> ask.available]
        /\ Contract(wire) /\ Acyclic(Entries)
    BY DEF InventoryIInv, AskClosure, Rests, Entries
  <1>2. ask.roots \in Seq(Nat)
    BY RequestsTyped
  <1>3. request'.roots = ask.roots
    BY <1>1
  <1>4. pending' \in Seq(Nat) /\ ToSet(pending') = ToSet(ask.roots)
    BY <1>1, <1>2, ReversedMembers
  <1>5. ToSet(ask.roots) \subseteq Reachable(Walks(wire), ToSet(ask.roots))
    BY ReachCloses
  <1>6. Closing'
    BY <1>1, <1>2, <1>3, <1>4, <1>5 DEF Closing
  <1> QED
    BY <1>1, <1>6 DEF InventoryIInv, ReadSoFar, Phases, Rests

(* Steps of the worklist leave everything but their own variables alone.   *)
LEMMA ClosingStepKept ==
    ASSUME InventoryIInv, phase = "asked", wire' = wire,
           phase' \in {"asked", "closed", "incomplete"}, Closing'
    PROVE  InventoryIInv'
  BY DEF InventoryIInv, ReadSoFar, Phases, Rests, Entries

LEMMA CloseNextKept == InventoryIInv /\ CloseNext => InventoryIInv'
  <1> SUFFICES ASSUME InventoryIInv, CloseNext PROVE InventoryIInv'
    OBVIOUS
  <1> DEFINE id == Last(pending)
             rest == Front(pending)
             known == Ids(Entries) \cap request.available
             reach == Reachable(Walks(wire), ToSet(request.roots))
  <1>1. /\ wire \in Inventories /\ phase = "asked" /\ wire' = wire /\ request' = request
        /\ Contract(wire) /\ pending # <<>> /\ Closing
    BY DEF InventoryIInv, CloseNext, Rests
  <1>2. /\ request.roots \in Seq(Nat) /\ pending \in Seq(Nat) /\ closed \subseteq known
        /\ ToSet(request.roots) \subseteq closed \cup ToSet(pending)
        /\ \A c \in closed : DepsIn(wire, c) \subseteq closed \cup ToSet(pending)
        /\ closed \cup ToSet(pending) \subseteq reach
    BY <1>1 DEF Closing
  <1>3. rest \in Seq(Nat) /\ ToSet(pending) = ToSet(rest) \cup {id}
    BY <1>1, <1>2, TopRemoved
  <1>4. CASE id \notin known
    <2>1. phase' = "incomplete" /\ pending' = pending /\ closed' = closed
      BY <1>4 DEF CloseNext
    <2>2. id \in ToSet(pending)
      BY <1>3
    <2>3. Closing'
      <3>1. /\ Entries' = Entries /\ known' = known /\ reach' = reach
            /\ ToSet(pending)' = ToSet(pending) /\ ToSet(request.roots)' = ToSet(request.roots)
            /\ \A c : DepsIn(wire, c)' = DepsIn(wire, c)
        BY <1>1, <2>1 DEF Entries
      <3> QED
        BY <1>1, <1>2, <1>4, <2>1, <2>2, <3>1 DEF Closing
    <2> QED
      BY <1>1, <2>1, <2>3, ClosingStepKept
  <1>5. CASE id \in known
    <2>1. /\ phase' = "asked" /\ closed' = closed \cup {id}
          /\ pending' = IF id \in closed THEN rest ELSE rest \o Reverse(Deps(id))
      BY <1>1, <1>5 DEF CloseNext
    <2>2. id \in Ids(wire.entries) /\ Deps(id) = DepsOf(wire, id)
      BY <1>5 DEF Entries, Deps, DepsOf
    <2>3. Deps(id) \in Seq(Nat) /\ DepsIn(wire, id) = ToSet(Deps(id))
      BY <1>1, <2>2, DepsKnown
    <2>4. Reverse(Deps(id)) \in Seq(Nat) /\ ToSet(Reverse(Deps(id))) = DepsIn(wire, id)
      BY <2>3, ReversedMembers
    <2>5. /\ rest \o Reverse(Deps(id)) \in Seq(Nat)
          /\ ToSet(rest \o Reverse(Deps(id))) = ToSet(rest) \cup DepsIn(wire, id)
      BY <1>3, <2>4, JoinedMembers
    <2>6. /\ pending' \in Seq(Nat)
          /\ ToSet(pending') = ToSet(rest) \cup (IF id \in closed THEN {} ELSE DepsIn(wire, id))
      BY <1>3, <2>1, <2>5
    <2>7. DepsIn(wire, id) \subseteq reach
      <3>1. id \in reach
        BY <1>2, <1>3
      <3>2. \A d \in DepsIn(wire, id) : <<id, d>> \in Walks(wire)
        BY <1>1, <2>2, DependenciesKnown
      <3>3. ClosedUnder(Walks(wire), reach)
        BY ReachCloses
      <3> QED
        BY <3>1, <3>2, <3>3 DEF ClosedUnder
    <2> HIDE DEF reach, rest, id
    <2>8. closed' \subseteq known
      BY <1>2, <1>5, <2>1
    <2>9. ToSet(request.roots) \subseteq closed' \cup ToSet(pending')
      BY <1>2, <1>3, <2>1, <2>6
    <2>10. \A c \in closed' : DepsIn(wire, c) \subseteq closed' \cup ToSet(pending')
      BY <1>2, <1>3, <2>1, <2>6
    <2>11. closed' \cup ToSet(pending') \subseteq reach
      BY <1>2, <1>3, <2>1, <2>6, <2>7
    <2>12. Entries' = Entries
      BY <1>1 DEF Entries
    <2>13. Closing'
      BY <1>1, <1>2, <2>1, <2>6, <2>8, <2>9, <2>10, <2>11, <2>12 DEF Closing, reach
    <2> QED
      BY <1>1, <2>1, <2>13, ClosingStepKept
  <1> QED
    BY <1>4, <1>5

LEMMA CloseDoneKept == InventoryIInv /\ CloseDone => InventoryIInv'
  <1> SUFFICES ASSUME InventoryIInv, CloseDone PROVE InventoryIInv'
    OBVIOUS
  <1>1. /\ phase = "asked" /\ phase' = "closed" /\ pending = <<>> /\ pending' = pending
        /\ wire' = wire /\ request' = request /\ closed' = closed /\ Closing
    BY DEF InventoryIInv, CloseDone
  <1>2. Closing'
    BY <1>1 DEF Closing, Entries
  <1> QED
    BY <1>1, <1>2, ClosingStepKept

(* Inductive invariant of the decoder, the search and the worklist: what   *)
(* has been read is what the encoder would have written, what is black     *)
(* leads back to no start, what is closed leads to closed or pending ids.  *)
LEMMA InventoryInductive == InventorySpec => []InventoryIInv
  <1>1. InventoryInit => InventoryIInv
    BY InventoryOpens
  <1>2. InventoryIInv /\ [InventoryNext]_inventoryVars => InventoryIInv'
    <2> SUFFICES ASSUME InventoryIInv, [InventoryNext]_inventoryVars PROVE InventoryIInv'
      OBVIOUS
    <2>1. CASE DecodeEntry
      BY <2>1, DecodeEntryKept
    <2>2. CASE DecodeWhole
      BY <2>2, DecodeWholeKept
    <2>3. CASE StartRoot
      BY <2>3, StartRootKept
    <2>4. CASE LeaveSection
      BY <2>4, LeaveSectionKept
    <2>5. CASE VisitDependency
      BY <2>5, VisitDependencyKept
    <2>6. CASE \E ask \in Requests : AskClosure(ask.roots, ask.available)
      BY <2>6, AskClosureKept
    <2>7. CASE CloseNext
      BY <2>7, CloseNextKept
    <2>8. CASE CloseDone
      BY <2>8, CloseDoneKept
    <2>9. CASE UNCHANGED inventoryVars
      BY <2>9 DEF inventoryVars, InventoryIInv, ReadSoFar, DecodeHeader, Entries, Closing
    <2> QED
      BY <2>1, <2>2, <2>3, <2>4, <2>5, <2>6, <2>7, <2>8, <2>9 DEF InventoryNext
  <1> QED
    BY <1>1, <1>2, PTL DEF InventorySpec

(* Whatever the inventory, the decoder accepts exactly what the encoder    *)
(* would have written (bootstrap.py:744, 950): a cycle of dependencies is  *)
(* met grey by the search, and a search that ends has met none.            *)
THEOREM DecoderAgrees == InventorySpec => []DecoderAgreesWithEncoder
  <1>1. InventoryIInv => DecoderAgreesWithEncoder
    <2> SUFFICES ASSUME InventoryIInv PROVE DecoderAgreesWithEncoder
      OBVIOUS
    <2>1. phase = "rejected" => ~Encodes(wire)
      BY DEF InventoryIInv
    <2>2. phase \in Rests => Encodes(wire)
      BY ContractOf DEF InventoryIInv, Entries
    <2> QED
      BY <2>1, <2>2 DEF DecoderAgreesWithEncoder, Verdicts, Rests
  <1> QED
    BY <1>1, InventoryInductive, PTL

(* Whatever the inventory and the request, a closed request is the least   *)
(* set that holds the roots and every dependency of a member, all of it    *)
(* available, and a refused one could not be closed (bootstrap.py:1040).   *)
THEOREM ClosuresExact == InventorySpec => []ClosureExact
  <1>1. InventoryIInv => ClosureExact
    <2> SUFFICES ASSUME InventoryIInv PROVE ClosureExact
      OBVIOUS
    <2> DEFINE reach == Reachable(Walks(wire), ToSet(request.roots))
    <2>1. reach = Reachable(DependsOn(Entries), ToSet(request.roots))
      BY DEF Walks, Entries
    <2>2. CASE phase = "closed"
      <3>1. /\ closed \subseteq request.available /\ pending = <<>>
            /\ ToSet(request.roots) \subseteq closed \cup ToSet(pending)
            /\ \A c \in closed : DepsIn(wire, c) \subseteq closed \cup ToSet(pending)
            /\ closed \subseteq reach
        BY <2>2 DEF InventoryIInv, Closing
      <3>2. ToSet(pending) = {}
        BY <3>1 DEF ToSet
      <3>3. ToSet(request.roots) \subseteq closed /\ ClosedUnder(Walks(wire), closed)
        BY <3>1, <3>2, ClosedByDependencies
      <3>4. reach \subseteq closed
        BY <3>3, ReachLeast
      <3> QED
        BY <2>1, <2>2, <3>1, <3>4 DEF ClosureExact
    <2>3. CASE phase = "incomplete"
      <3>1. PICK id \in ToSet(pending) : id \notin Ids(Entries) \cap request.available
        BY <2>3 DEF InventoryIInv, Closing
      <3>2. id \in reach
        BY <2>3, <3>1 DEF InventoryIInv, Closing
      <3> QED
        BY <2>1, <2>3, <3>1, <3>2 DEF ClosureExact
    <2> QED
      BY <2>2, <2>3 DEF ClosureExact
  <1> QED
    BY <1>1, InventoryInductive, PTL

-----------------------------------------------------------------------------
(* Induction, and sums.                                                    *)

LEMMA LeastNumber ==
    ASSUME NEW T, T \subseteq Nat, T # {}
    PROVE  \E x \in T : \A y \in T : x <= y
  <1>1. PICK x \in T : \A y \in T : ~(<<y, x>> \in OpToRel(<, Nat))
    BY NatLessThanWellFounded, WFMin, Zenon
  <1>2. \A a, b \in Nat : a < b => <<a, b>> \in OpToRel(<, Nat)
    BY DEF OpToRel
  <1>3. ASSUME NEW y \in T, ~(x <= y) PROVE FALSE
    <2>1. y \in Nat /\ x \in Nat /\ y < x
      BY <1>3
    <2> QED
      BY <1>1, <1>2, <2>1, Zenon
  <1> QED
    BY <1>3

(* Induction over the naturals, for a set in place of a predicate.         *)
LEMMA EveryNumber ==
    ASSUME NEW S, 0 \in S, \A n \in Nat : n \in S => n + 1 \in S
    PROVE  Nat \subseteq S
  <1> SUFFICES ASSUME Nat \ S # {} PROVE FALSE
    OBVIOUS
  <1>1. PICK least \in Nat \ S : \A n \in Nat \ S : least <= n
    <2>1. Nat \ S \subseteq Nat
      OBVIOUS
    <2> QED
      BY <2>1, LeastNumber
  <1>2. least # 0 /\ least - 1 \in Nat /\ ~(least <= least - 1)
    BY <1>1
  <1>3. least - 1 \in S /\ (least - 1) + 1 = least
    BY <1>1, <1>2
  <1> QED
    BY <1>1, <1>2, <1>3

Weights(w, n) == \A i \in 1 .. n : w[i] \in Nat

(* A sum of the weights of every subset of the indices, in any order.      *)
Adds(sum, w, n) ==
    /\ sum \in [SUBSET (1 .. n) -> Nat]
    /\ sum[{}] = 0
    /\ \A s \in SUBSET (1 .. n) : \A x \in s : sum[s] = w[x] + sum[s \ {x}]

LEMMA AdditionExists ==
    ASSUME NEW w, NEW n \in Nat, Weights(w, n)
    PROVE  \E sum : Adds(sum, w, n)
  <1> DEFINE Good == {m \in Nat : m <= n => \E sum : Adds(sum, w, m)}
  <1>1. 0 \in Good
    <2> DEFINE sum == [s \in SUBSET (1 .. 0) |-> 0]
    <2>1. 1 .. 0 = {}
      OBVIOUS
    <2>2. Adds(sum, w, 0)
      BY <2>1 DEF Adds
    <2> QED
      BY <2>2
  <1>2. ASSUME NEW m \in Nat, m + 1 <= n, NEW old, Adds(old, w, m)
        PROVE  \E new : Adds(new, w, m + 1)
    <2> DEFINE top == m + 1
               sum == [s \in SUBSET (1 .. top) |->
                         IF top \in s THEN w[top] + old[s \ {top}] ELSE old[s]]
    <2>1. w[top] \in Nat
      BY <1>2 DEF Weights
    <2>2. /\ \A s \in SUBSET (1 .. top) : s \ {top} \in SUBSET (1 .. m)
          /\ \A s \in SUBSET (1 .. top) : top \notin s => s \in SUBSET (1 .. m)
      OBVIOUS
    <2>3. /\ old \in [SUBSET (1 .. m) -> Nat] /\ old[{}] = 0
          /\ \A s \in SUBSET (1 .. m) : \A x \in s : old[s] = w[x] + old[s \ {x}]
      BY <1>2 DEF Adds
    <2>4. sum \in [SUBSET (1 .. top) -> Nat]
      BY <2>1, <2>2, <2>3
    <2>5. \A s \in SUBSET (1 .. top) :
             sum[s] = IF top \in s THEN w[top] + old[s \ {top}] ELSE old[s]
      OBVIOUS
    <2>6. sum[{}] = 0
      BY <2>3, <2>5
    <2> HIDE DEF sum
    <2>7. ASSUME NEW s \in SUBSET (1 .. top), NEW x \in s
          PROVE  sum[s] = w[x] + sum[s \ {x}]
      <3>1. s \ {x} \in SUBSET (1 .. top)
        OBVIOUS
      <3>2. CASE x = top
        <4>1. sum[s \ {x}] = old[s \ {x}]
          BY <2>5, <3>1, <3>2
        <4> QED
          BY <2>5, <3>2, <4>1
      <3>3. CASE x # top /\ top \in s
        <4>1. sum[s] = w[top] + old[s \ {top}]
          BY <2>5, <3>3
        <4>2. sum[s \ {x}] = w[top] + old[(s \ {x}) \ {top}]
          BY <2>5, <3>1, <3>3
        <4>3. s \ {top} \in SUBSET (1 .. m) /\ x \in s \ {top}
          BY <2>2, <3>3
        <4>4. old[s \ {top}] = w[x] + old[(s \ {top}) \ {x}]
          BY <2>3, <4>3
        <4>5. (s \ {top}) \ {x} = (s \ {x}) \ {top}
          OBVIOUS
        <4>6. (s \ {x}) \ {top} \in SUBSET (1 .. m) /\ x \in 1 .. n
          BY <1>2, <4>3
        <4>7. w[x] \in Nat /\ old[(s \ {x}) \ {top}] \in Nat
          BY <2>3, <4>6 DEF Weights
        <4> HIDE DEF top
        <4> QED
          BY <2>1, <4>1, <4>2, <4>4, <4>5, <4>7
      <3>4. CASE top \notin s
        <4>1. s \in SUBSET (1 .. m) /\ top \notin s \ {x}
          BY <2>2, <3>4
        <4>2. sum[s] = old[s] /\ sum[s \ {x}] = old[s \ {x}]
          BY <2>5, <3>1, <3>4, <4>1
        <4>3. old[s] = w[x] + old[s \ {x}]
          BY <2>3, <4>1
        <4> QED
          BY <4>2, <4>3
      <3> QED
        BY <3>2, <3>3, <3>4
    <2>8. Adds(sum, w, top)
      BY <2>4, <2>6, <2>7, Zenon DEF Adds
    <2> QED
      BY <2>8, Zenon
  <1>3. ASSUME NEW m \in Nat, m \in Good PROVE m + 1 \in Good
    <2>1. m + 1 <= n => m <= n
      OBVIOUS
    <2> QED
      BY <1>2, <1>3, <2>1
  <1> HIDE DEF Good
  <1>4. n \in Good
    BY <1>1, <1>3, EveryNumber
  <1> QED
    BY <1>4 DEF Good

LEMMA SubsetsFinite ==
    ASSUME NEW n \in Nat, NEW S \in SUBSET (1 .. n)
    PROVE  \A s \in SUBSET S : IsFiniteSet(s)
  <1>1. IsFiniteSet(1 .. n)
    BY FS_Interval
  <1> QED
    BY <1>1, FS_Subset

(* What the library's sum is, whatever element it takes first.             *)
Summing(sum, w, S) ==
    sum = [s \in SUBSET S |->
             IF s = {} THEN 0
             ELSE w[CHOOSE x \in s : TRUE] + sum[s \ {CHOOSE x \in s : TRUE}]]

LEMMA SumIs ==
    ASSUME NEW w, NEW S
    PROVE  SumFunctionOnSet(w, S) = (CHOOSE sum : Summing(sum, w, S))[S]
  BY DEF SumFunctionOnSet, FoldFunctionOnSet, MapThenFoldSet, Summing

LEMMA OneSum ==
    ASSUME NEW w, NEW n \in Nat, NEW S \in SUBSET (1 .. n), NEW added, Adds(added, w, n),
           NEW sum, Summing(sum, w, S)
    PROVE  sum[S] = added[S]
  <1> DEFINE Good == {k \in Nat : \A s \in SUBSET S : Cardinality(s) = k => sum[s] = added[s]}
  <1>1. \A s \in SUBSET S : IsFiniteSet(s)
    BY SubsetsFinite
  <1>2. 0 \in Good
    <2>1. \A s \in SUBSET S : Cardinality(s) = 0 => s = {}
      BY <1>1, FS_EmptySet
    <2>2. sum[{}] = 0 /\ added[{}] = 0
      BY DEF Summing, Adds
    <2> QED
      BY <2>1, <2>2
  <1>3. ASSUME NEW k \in Nat, k \in Good PROVE k + 1 \in Good
    <2>1. ASSUME NEW s \in SUBSET S, Cardinality(s) = k + 1 PROVE sum[s] = added[s]
      <3> DEFINE x == CHOOSE x \in s : TRUE
      <3>1. s # {}
        BY <2>1, FS_EmptySet
      <3>2. x \in s
        BY <3>1
      <3>3. sum[s] = w[x] + sum[s \ {x}]
        BY <3>1 DEF Summing
      <3> HIDE DEF x
      <3>4. Cardinality(s \ {x}) = k
        <4>1. IsFiniteSet(s) /\ Cardinality(s \ {x}) = Cardinality(s) - 1
          BY <1>1, <3>2, FS_RemoveElement
        <4> QED
          BY <2>1, <4>1
      <3>5. sum[s \ {x}] = added[s \ {x}]
        BY <1>3, <3>4
      <3>6. added[s] = w[x] + added[s \ {x}]
        BY <3>2 DEF Adds
      <3> QED
        BY <3>3, <3>5, <3>6
    <2>2. k + 1 \in Nat
      OBVIOUS
    <2> QED
      BY <2>1, <2>2, Zenon
  <1> HIDE DEF Good
  <1>4. Nat \subseteq Good
    BY <1>2, <1>3, EveryNumber
  <1>5. Cardinality(S) \in Nat
    BY <1>1, FS_CardinalityType
  <1> QED
    BY <1>4, <1>5 DEF Good

LEMMA SumAdds ==
    ASSUME NEW w, NEW n \in Nat, Weights(w, n),
           NEW added, Adds(added, w, n), NEW S \in SUBSET (1 .. n)
    PROVE  SumFunctionOnSet(w, S) = added[S]
  <1> DEFINE sum == [s \in SUBSET S |-> added[s]]
  <1>1. Summing(sum, w, S)
    <2>1. ASSUME NEW s \in SUBSET S
          PROVE  added[s] = IF s = {} THEN 0
                            ELSE w[CHOOSE x \in s : TRUE] + sum[s \ {CHOOSE x \in s : TRUE}]
      <3>1. CASE s = {}
        BY <3>1 DEF Adds
      <3>2. CASE s # {}
        <4> DEFINE x == CHOOSE x \in s : TRUE
        <4>1. x \in s
          BY <3>2
        <4>2. s \ {x} \in SUBSET S
          OBVIOUS
        <4>3. sum[s \ {x}] = added[s \ {x}]
          BY <4>2
        <4>4. added[s] = w[x] + added[s \ {x}]
          BY <4>1 DEF Adds
        <4> HIDE DEF sum
        <4> QED
          BY <3>2, <4>3, <4>4
      <3> QED
        BY <3>1, <3>2
    <2> QED
      BY <2>1 DEF Summing
  <1> HIDE DEF sum
  <1>2. Summing(CHOOSE total : Summing(total, w, S), w, S)
    BY <1>1
  <1>3. (CHOOSE total : Summing(total, w, S))[S] = added[S]
    BY <1>2, OneSum
  <1> QED
    BY <1>3, SumIs

(* A sum is a number, nothing for nothing, and any summand comes off.      *)
LEMMA SumTakes ==
    ASSUME NEW w, NEW n \in Nat, Weights(w, n),
           NEW S \in SUBSET (1 .. n)
    PROVE  /\ SumFunctionOnSet(w, S) \in Nat
           /\ \A x \in S : SumFunctionOnSet(w, S) = w[x] + SumFunctionOnSet(w, S \ {x})
  <1>1. PICK added : Adds(added, w, n)
    BY AdditionExists
  <1>2. \A s \in SUBSET (1 .. n) : SumFunctionOnSet(w, s) = added[s]
    BY <1>1, SumAdds
  <1>3. \A x \in S : S \ {x} \in SUBSET (1 .. n)
    OBVIOUS
  <1> QED
    BY <1>1, <1>2, <1>3 DEF Adds

LEMMA NoSum ==
    ASSUME NEW w
    PROVE  SumFunctionOnSet(w, {}) = 0
  <1> DEFINE added == [s \in SUBSET {} |-> 0]
  <1>1. 1 .. 0 = {}
    OBVIOUS
  <1>2. Adds(added, w, 0)
    BY <1>1 DEF Adds
  <1>3. {} \in SUBSET (1 .. 0) /\ Weights(w, 0)
    BY <1>1 DEF Weights
  <1>4. added[{}] = 0
    OBVIOUS
  <1> HIDE DEF added
  <1> QED
    BY <1>2, <1>3, <1>4, SumAdds

(* The sum of a set of indices looks at their weights only.                *)
LEMMA SameSum ==
    ASSUME NEW v, NEW w, NEW n \in Nat, Weights(w, n),
           \A i \in 1 .. n : v[i] = w[i]
    PROVE  \A S \in SUBSET (1 .. n) : SumFunctionOnSet(v, S) = SumFunctionOnSet(w, S)
  <1>1. PICK added : Adds(added, w, n)
    BY AdditionExists
  <1>2. Adds(added, v, n)
    BY <1>1 DEF Adds
  <1>3. Weights(v, n)
    BY DEF Weights
  <1> QED
    BY <1>1, <1>2, <1>3, SumAdds

(* A subset takes its sum out of the whole.                                *)
LEMMA SumSplits ==
    ASSUME NEW w, NEW n \in Nat, Weights(w, n),
           NEW S \in SUBSET (1 .. n), NEW T \in SUBSET S
    PROVE  SumFunctionOnSet(w, S) = SumFunctionOnSet(w, T) + SumFunctionOnSet(w, S \ T)
  <1> DEFINE sum(s) == SumFunctionOnSet(w, s)
             Good == {k \in Nat : \A t \in SUBSET S : Cardinality(t) = k => sum(S) = sum(t) + sum(S \ t)}
  <1>1. \A t \in SUBSET S : IsFiniteSet(t)
    BY SubsetsFinite
  <1>2. /\ \A s \in SUBSET (1 .. n) : sum(s) \in Nat
        /\ sum({}) = 0
        /\ \A s \in SUBSET (1 .. n) : \A x \in s : sum(s) = w[x] + sum(s \ {x})
    <2>1. /\ \A s \in SUBSET (1 .. n) : SumFunctionOnSet(w, s) \in Nat
          /\ \A s \in SUBSET (1 .. n) : \A x \in s :
                SumFunctionOnSet(w, s) = w[x] + SumFunctionOnSet(w, s \ {x})
      <3>1. ASSUME NEW s \in SUBSET (1 .. n)
            PROVE  /\ SumFunctionOnSet(w, s) \in Nat
                   /\ \A x \in s : SumFunctionOnSet(w, s) = w[x] + SumFunctionOnSet(w, s \ {x})
        BY SumTakes
      <3> QED
        BY <3>1
    <2> QED
      BY <2>1, NoSum
  <1> HIDE DEF sum
  <1>3. 0 \in Good
    <2>1. \A t \in SUBSET S : Cardinality(t) = 0 => t = {}
      BY <1>1, FS_EmptySet
    <2>2. S \ {} = S /\ sum(S) \in Nat
      BY <1>2
    <2>3. sum(S) = sum({}) + sum(S \ {})
      BY <1>2, <2>2
    <2> QED
      BY <2>1, <2>3
  <1>4. ASSUME NEW k \in Nat, k \in Good PROVE k + 1 \in Good
    <2> SUFFICES ASSUME NEW t \in SUBSET S, Cardinality(t) = k + 1 PROVE sum(S) = sum(t) + sum(S \ t)
      OBVIOUS
    <2> t # {}
      BY FS_EmptySet
    <2>1. PICK x \in t : TRUE
      OBVIOUS
    <2>2. Cardinality(t \ {x}) = k
      <3>1. IsFiniteSet(t) /\ Cardinality(t \ {x}) = Cardinality(t) - 1
        BY <1>1, <2>1, FS_RemoveElement
      <3> QED
        BY <3>1
    <2>3. sum(S) = sum(t \ {x}) + sum(S \ (t \ {x}))
      BY <1>4, <2>2
    <2>4. sum(t) = w[x] + sum(t \ {x})
      BY <1>2, <2>1
    <2>5. x \in S \ (t \ {x}) /\ (S \ (t \ {x})) \ {x} = S \ t /\ S \ (t \ {x}) \in SUBSET (1 .. n)
      BY <2>1
    <2>6. sum(S \ (t \ {x})) = w[x] + sum(S \ t)
      BY <1>2, <2>5
    <2>7. w[x] \in Nat /\ sum(t \ {x}) \in Nat /\ sum(S \ t) \in Nat
      BY <1>2, <2>1 DEF Weights
    <2> QED
      BY <2>3, <2>4, <2>6, <2>7
  <1> HIDE DEF Good
  <1>5. Nat \subseteq Good
    BY <1>3, <1>4, EveryNumber
  <1>6. Cardinality(T) \in Nat
    BY <1>1, FS_CardinalityType
  <1>7. sum(S) = sum(T) + sum(S \ T)
    BY <1>5, <1>6 DEF Good
  <1> QED
    BY <1>7 DEF sum

-----------------------------------------------------------------------------
(* Largest members, and lists from the left.                               *)

LEMMA LargestOf ==
    ASSUME NEW n \in Nat, NEW s \in SUBSET (0 .. n), s # {}
    PROVE  Max(s) \in s /\ \A x \in s : x <= Max(s)
  <1> DEFINE Bounds == {m \in Nat : \A x \in s : x <= m}
  <1>1. Bounds \subseteq Nat /\ n \in Bounds
    OBVIOUS
  <1>2. PICK m \in Bounds : \A k \in Bounds : m <= k
    BY <1>1, LeastNumber
  <1>3. m \in s
    <2> SUFFICES ASSUME m \notin s PROVE FALSE
      OBVIOUS
    <2>1. \A x \in s : x \in Nat /\ x <= m /\ x # m
      BY <1>2
    <2>2. m \in Nat /\ m >= 1
      <3>1. PICK x \in s : TRUE
        OBVIOUS
      <3> QED
        BY <1>2, <2>1, <3>1
    <2>3. m - 1 \in Nat /\ \A x \in s : x <= m - 1
      BY <2>1, <2>2
    <2>4. m - 1 \in Bounds
      BY <2>3
    <2> QED
      BY <1>2, <2>2, <2>4
  <1>4. \E x \in s : \A y \in s : x >= y
    BY <1>2, <1>3
  <1>5. Max(s) \in s /\ \A y \in s : Max(s) >= y
    BY <1>4 DEF Max
  <1>6. \A y \in s : y \in Nat
    OBVIOUS
  <1>7. Max(s) \in Nat
    BY <1>5, <1>6
  <1> HIDE DEF Bounds
  <1>8. \A y \in s : y <= Max(s)
    BY <1>5, <1>6, <1>7
  <1> QED
    BY <1>5, <1>8

(* The largest of two or of three numbers.                                 *)
LEMMA MaxOfTwo ==
    ASSUME NEW a \in Nat, NEW b \in Nat
    PROVE  /\ Max({a, b}) \in Nat /\ a <= Max({a, b}) /\ b <= Max({a, b})
           /\ \A x \in Nat : a <= x /\ b <= x => Max({a, b}) <= x
  <1>1. {a, b} \in SUBSET (0 .. a + b) /\ {a, b} # {} /\ a + b \in Nat
    OBVIOUS
  <1>2. Max({a, b}) \in {a, b} /\ \A x \in {a, b} : x <= Max({a, b})
    BY <1>1, LargestOf
  <1> QED
    BY <1>2

LEMMA MaxOfThree ==
    ASSUME NEW a \in Nat, NEW b \in Nat, NEW c \in Nat
    PROVE  /\ Max({a, b, c}) \in Nat
           /\ a <= Max({a, b, c}) /\ b <= Max({a, b, c}) /\ c <= Max({a, b, c})
           /\ \A x \in Nat : a <= x /\ b <= x /\ c <= x => Max({a, b, c}) <= x
  <1>1. {a, b, c} \in SUBSET (0 .. a + b + c) /\ {a, b, c} # {} /\ a + b + c \in Nat
    OBVIOUS
  <1>2. Max({a, b, c}) \in {a, b, c} /\ \A x \in {a, b, c} : x <= Max({a, b, c})
    BY <1>1, LargestOf
  <1> QED
    BY <1>2

-----------------------------------------------------------------------------
(* Accepted packages.                                                      *)

LEMMA PackageKnown ==
    ASSUME NEW p \in Packages
    PROVE  /\ Len(p.recipes) \in Nat
           /\ DOMAIN p.recipes = 1 .. Len(p.recipes)
           /\ \A r \in DOMAIN p.recipes : p.recipes[r] \in Recipes
  <1>1. p.recipes \in Seq(Recipes)
    BY PackagesTyped
  <1> QED
    BY <1>1

LEMMA RecipeKnown ==
    ASSUME NEW c \in Recipes
    PROVE  /\ Len(c.inputs) \in Nat /\ DOMAIN c.inputs = 1 .. Len(c.inputs)
           /\ Len(c.nodes) \in Nat /\ DOMAIN c.nodes = 1 .. Len(c.nodes)
           /\ Len(c.outputs) \in Nat /\ DOMAIN c.outputs = 1 .. Len(c.outputs)
           /\ c.steps \in Nat /\ c.peak \in Nat
           /\ \A n \in DOMAIN c.nodes : c.nodes[n] \in Records
  <1>1. /\ c.inputs \in Seq(Shaped) /\ c.nodes \in Seq(Records)
        /\ c.steps \in Nat /\ c.peak \in Nat /\ c.outputs \in Seq(Shaped)
    BY DEF Recipes
  <1> QED
    BY <1>1

LEMMA RecordKnown ==
    ASSUME NEW node \in Records
    PROVE  /\ Len(node.args) \in Nat /\ DOMAIN node.args = 1 .. Len(node.args)
           /\ node.aux \in Nat /\ node.imm \in Nat /\ node.width \in Nat
           /\ \A i \in DOMAIN node.args : node.args[i] \in ToSet(node.args)
  <1>1. node.args \in Seq(Nat) /\ node.aux \in Nat /\ node.imm \in Nat /\ node.width \in Nat
    BY DEF Records
  <1> QED
    BY <1>1 DEF ToSet

(* What an accepted package says of one of its recipes.                    *)
Sane(p, r) ==
    /\ InterfaceSound(p.recipes[r])
    /\ \A n \in DOMAIN p.recipes[r].nodes : RecordSound(p.recipes[r].nodes[n])
    /\ Backward(p.recipes[r])
    /\ AllTyped(p.recipes[r], p.tables)
    /\ BodiesSound(p, r)
    /\ Covered(p.recipes[r], p.tables)
    /\ Resources(p, r)

LEMMA AllSane ==
    ASSUME NEW p, Accepts(p), NEW r \in DOMAIN p.recipes
    PROVE  Sane(p, r)
  BY DEF Accepts, Sane

-----------------------------------------------------------------------------
(* The shapes of values are what the recursion says.                       *)

Arguments(node, shape) == [i \in DOMAIN node.args |-> shape[node.args[i]]]

ShapeOf(c, tables, shape, v) ==
    IF v <= Len(c.inputs) THEN c.inputs[v]
    ELSE ResultShape(c.nodes[v - Len(c.inputs)],
                     Arguments(c.nodes[v - Len(c.inputs)], shape), tables)

AreShapes(c, tables, shape) ==
    shape = [v \in 1 .. Len(c.inputs) + Len(c.nodes) |-> ShapeOf(c, tables, shape, v)]

(* The first m of them.                                                    *)
ShapesTo(c, tables, shape, m) ==
    shape = [v \in 1 .. m |-> ShapeOf(c, tables, shape, v)]

LEMMA ShapesChosen ==
    ASSUME NEW c, NEW tables
    PROVE  Shapes(c, tables) = CHOOSE shape : AreShapes(c, tables, shape)
  BY DEF Shapes, AreShapes, ShapeOf, Arguments

LEMMA ShapesGrow ==
    ASSUME NEW c \in Recipes, NEW tables, Backward(c),
           NEW m \in Nat, m + 1 <= Len(c.inputs) + Len(c.nodes),
           NEW old, ShapesTo(c, tables, old, m)
    PROVE  \E shape : ShapesTo(c, tables, shape, m + 1)
  <1> DEFINE I == Len(c.inputs)
             N == Len(c.nodes)
             shape == [v \in 1 .. m + 1 |-> IF v = m + 1 THEN ShapeOf(c, tables, old, m + 1) ELSE old[v]]
  <1>1. /\ I \in Nat /\ N \in Nat /\ DOMAIN c.nodes = 1 .. N
        /\ \A n \in 1 .. N : c.nodes[n] \in Records
    BY RecipeKnown
  <1>2. ASSUME NEW s, NEW v
        PROVE  ShapeOf(c, tables, s, v) =
                 IF v <= I THEN c.inputs[v]
                 ELSE ResultShape(c.nodes[v - I], Arguments(c.nodes[v - I], s), tables)
    BY DEF ShapeOf
  <1>3. \A n \in 1 .. N : ToSet(c.nodes[n].args) \subseteq 1 .. I + n - 1
    BY <1>1 DEF Backward
  <1>4. m + 1 <= I + N
    OBVIOUS
  <1> HIDE DEF I, N
  <1>5. ASSUME NEW n \in 1 .. N, I + n <= m + 1, NEW i \in DOMAIN c.nodes[n].args
        PROVE  c.nodes[n].args[i] \in 1 .. m
    <2>1. c.nodes[n].args[i] \in ToSet(c.nodes[n].args)
      BY <1>1, RecordKnown
    <2>2. 1 .. I + n - 1 \subseteq 1 .. m
      BY <1>1, <1>5
    <2> QED
      BY <1>3, <2>1, <2>2
  <1>6. /\ \A v \in 1 .. m : shape[v] = old[v]
        /\ shape[m + 1] = ShapeOf(c, tables, old, m + 1)
        /\ \A v \in 1 .. m + 1 : v = m + 1 \/ v \in 1 .. m
        /\ shape = [v \in 1 .. m + 1 |-> shape[v]]
    OBVIOUS
  <1>7. \A v \in 1 .. m : old[v] = ShapeOf(c, tables, old, v)
    BY Zenon DEF ShapesTo
  <1> HIDE DEF shape
  <1>8. ASSUME NEW v \in 1 .. m + 1 PROVE ShapeOf(c, tables, shape, v) = ShapeOf(c, tables, old, v)
    <2>1. CASE v <= I
      BY <1>2, <2>1
    <2>2. CASE ~(v <= I)
      <3> DEFINE n == v - I
                 o == c.nodes[n]
      <3>1. n \in 1 .. N /\ I + n <= m + 1
        BY <1>1, <1>4, <2>2
      <3>2. \A i \in DOMAIN o.args : o.args[i] \in 1 .. m
        BY <1>5, <3>1
      <3>4. ShapeOf(c, tables, shape, v) = ResultShape(o, Arguments(o, shape), tables)
        BY <1>2, <2>2
      <3>5. ShapeOf(c, tables, old, v) = ResultShape(o, Arguments(o, old), tables)
        BY <1>2, <2>2
      <3> HIDE DEF n, o
      <3>3. Arguments(o, shape) = Arguments(o, old)
        BY <1>6, <3>2 DEF Arguments
      <3> QED
        BY <3>3, <3>4, <3>5
    <2> QED
      BY <2>1, <2>2
  <1>9. ASSUME NEW v \in 1 .. m + 1 PROVE shape[v] = ShapeOf(c, tables, shape, v)
    <2>1. shape[v] = ShapeOf(c, tables, old, v)
      BY <1>6, <1>7
    <2> QED
      BY <1>8, <2>1
  <1>10. ShapesTo(c, tables, shape, m + 1)
    BY <1>6, <1>9, Zenon DEF ShapesTo
  <1> QED
    BY <1>10

LEMMA ShapesAre ==
    ASSUME NEW c \in Recipes, NEW tables, Backward(c)
    PROVE  /\ \A v \in 1 .. Len(c.inputs) : Shapes(c, tables)[v] = c.inputs[v]
           /\ \A n \in 1 .. Len(c.nodes) :
                 Shapes(c, tables)[Len(c.inputs) + n]
                   = ResultShape(c.nodes[n], Arguments(c.nodes[n], Shapes(c, tables)), tables)
  <1> DEFINE shape == Shapes(c, tables)
             I == Len(c.inputs)
             N == Len(c.nodes)
             Good == {m \in Nat : m <= I + N => \E s : ShapesTo(c, tables, s, m)}
  <1>0. I \in Nat /\ N \in Nat
    BY RecipeKnown
  <1> HIDE DEF I, N
  <1>1. 0 \in Good
    <2>1. ShapesTo(c, tables, [v \in {} |-> 0], 0)
      <3>1. 1 .. 0 = {}
        OBVIOUS
      <3> QED
        BY <3>1 DEF ShapesTo
    <2> QED
      BY <2>1
  <1>2. ASSUME NEW m \in Nat, m \in Good PROVE m + 1 \in Good
    <2>1. m + 1 <= I + N => m <= I + N
      BY <1>0
    <2>2. m + 1 <= I + N => \E s : ShapesTo(c, tables, s, m + 1)
      BY <1>2, <2>1, ShapesGrow DEF I, N
    <2>3. m + 1 \in Nat
      OBVIOUS
    <2> QED
      BY <2>2, <2>3, Zenon
  <1> HIDE DEF Good
  <1>3. I + N \in Good
    BY <1>0, <1>1, <1>2, EveryNumber
  <1>4. \E s : ShapesTo(c, tables, s, I + N)
    BY <1>0, <1>3 DEF Good
  <1>5. \E s : AreShapes(c, tables, s)
    BY <1>4, Zenon DEF AreShapes, ShapesTo, I, N
  <1>6. AreShapes(c, tables, shape)
    BY <1>5, ShapesChosen
  <1> HIDE DEF shape
  <1>7. \A v \in 1 .. I + N : shape[v] = ShapeOf(c, tables, shape, v)
    BY <1>6, Zenon DEF AreShapes, I, N
  <1>8. ASSUME NEW v \in 1 .. I PROVE shape[v] = c.inputs[v]
    <2>1. v \in 1 .. I + N /\ v <= I
      BY <1>0
    <2> QED
      BY <1>7, <2>1 DEF ShapeOf, I
  <1>9. ASSUME NEW n \in 1 .. N
        PROVE  shape[I + n] = ResultShape(c.nodes[n], Arguments(c.nodes[n], shape), tables)
    <2>1. I + n \in 1 .. I + N /\ ~(I + n <= I) /\ (I + n) - I = n
      BY <1>0
    <2>2. shape[I + n] = ShapeOf(c, tables, shape, I + n)
      BY <1>7, <2>1
    <2> QED
      BY <2>1, <2>2 DEF ShapeOf, I
  <1> QED
    BY <1>8, <1>9 DEF shape, I, N

-----------------------------------------------------------------------------
(* The type of a node, in an accepted package.                             *)

NodeTyped(p, r, n) ==
    LET c == p.recipes[r]
        shape == Shapes(c, p.tables)
        made == shape[Len(c.inputs) + n]
    IN /\ made # NoShape
       /\ Typed(c.nodes[n], Arguments(c.nodes[n], shape), made, c, p.tables)
       /\ made = ResultShape(c.nodes[n], Arguments(c.nodes[n], shape), p.tables)

LEMMA AllNodesTyped ==
    ASSUME NEW p \in Packages, NEW r \in DOMAIN p.recipes, Sane(p, r),
           NEW n \in DOMAIN p.recipes[r].nodes
    PROVE  NodeTyped(p, r, n)
  <1>1. p.recipes[r] \in Recipes
    BY PackageKnown
  <1>2. n \in 1 .. Len(p.recipes[r].nodes)
    BY <1>1, RecipeKnown
  <1>3. Shapes(p.recipes[r], p.tables)[Len(p.recipes[r].inputs) + n]
          = ResultShape(p.recipes[r].nodes[n],
                        Arguments(p.recipes[r].nodes[n], Shapes(p.recipes[r], p.tables)), p.tables)
    BY <1>1, <1>2, ShapesAre DEF Sane
  <1>4. AllTyped(p.recipes[r], p.tables)
    BY DEF Sane
  <1> QED
    BY <1>3, <1>4, Zenon DEF AllTyped, NodeTyped, Arguments

(* A value that is a status comes from a node that says so.                *)
LEMMA StatusDeclared ==
    ASSUME NEW p, NEW r, NEW n, NodeTyped(p, r, n),
           Shapes(p.recipes[r], p.tables)[Len(p.recipes[r].inputs) + n].type = "STATUS"
    PROVE  p.recipes[r].nodes[n].type = "STATUS"
  <1> DEFINE node == p.recipes[r].nodes[n]
             args == Arguments(node, Shapes(p.recipes[r], p.tables))
             made == Shapes(p.recipes[r], p.tables)[Len(p.recipes[r].inputs) + n]
  <1>1. made # NoShape /\ made = ResultShape(node, args, p.tables) /\ made.type = "STATUS"
    BY DEF NodeTyped
  <1> HIDE DEF node, args, made
  <1>2. \A t : TableShape(t).type = "TABLE"
    BY DEF TableShape
  <1>3. \A w : Shape(node.type, w).type = node.type
    BY DEF Shape
  <1>4. node.type # "TABLE"
    BY <1>1, <1>2 DEF ResultShape
  <1>5. made = Shape(node.type, node.width)
    BY <1>1, <1>4 DEF ResultShape
  <1>6. node.type = "STATUS"
    BY <1>1, <1>3, <1>5
  <1> QED
    BY <1>6 DEF node

LEMMA DeclaredStatus ==
    ASSUME NEW p, NEW r, NEW n, NodeTyped(p, r, n), p.recipes[r].nodes[n].type = "STATUS"
    PROVE  Shapes(p.recipes[r], p.tables)[Len(p.recipes[r].inputs) + n].type = "STATUS"
  <1> DEFINE node == p.recipes[r].nodes[n]
             args == Arguments(node, Shapes(p.recipes[r], p.tables))
             made == Shapes(p.recipes[r], p.tables)[Len(p.recipes[r].inputs) + n]
  <1>1. made # NoShape /\ made = ResultShape(node, args, p.tables) /\ node.type = "STATUS"
    BY DEF NodeTyped
  <1> HIDE DEF node, args, made
  <1>2. made = Shape(node.type, node.width)
    BY <1>1 DEF ResultShape
  <1>3. made.type = "STATUS"
    BY <1>1, <1>2 DEF Shape
  <1> QED
    BY <1>3 DEF made

(* What a made takes is a number.                                        *)
LEMMA StorageIsNumber ==
    ASSUME NEW p \in Packages, NEW r \in DOMAIN p.recipes, Sane(p, r),
           NEW n \in DOMAIN p.recipes[r].nodes
    PROVE  Storage(Shapes(p.recipes[r], p.tables)[Len(p.recipes[r].inputs) + n]) \in Nat
  <1> DEFINE node == p.recipes[r].nodes[n]
             args == Arguments(node, Shapes(p.recipes[r], p.tables))
             made == Shapes(p.recipes[r], p.tables)[Len(p.recipes[r].inputs) + n]
  <1>1. made # NoShape /\ made = ResultShape(node, args, p.tables)
    BY AllNodesTyped DEF NodeTyped
  <1>2. node.width \in Nat
    <2>1. node \in Records
      BY PackageKnown, RecipeKnown
    <2> HIDE DEF node
    <2> QED
      BY <2>1, RecordKnown
  <1> HIDE DEF node, args, made
  <1>3. \A t : TableShape(t).type = "TABLE"
    BY DEF TableShape
  <1>4. /\ Shape(node.type, node.width).type = node.type
        /\ Shape(node.type, node.width).width = node.width
    BY DEF Shape
  <1>5. CASE node.type = "TABLE"
    <2>1. made.type = "TABLE"
      BY <1>1, <1>3, <1>5 DEF ResultShape
    <2>2. Storage(made) = 0
      BY <2>1 DEF Storage
    <2> QED
      BY <2>2 DEF made
  <1>6. CASE node.type # "TABLE"
    <2>1. made.type = node.type /\ made.width = node.width
      BY <1>1, <1>4, <1>6 DEF ResultShape
    <2>2. (node.width + 7) \div 8 \in Nat
      BY <1>2
    <2>3. Storage(made) \in Nat
      BY <1>2, <1>6, <2>1, <2>2 DEF Storage
    <2> QED
      BY <2>3 DEF made
  <1> QED
    BY <1>5, <1>6

-----------------------------------------------------------------------------
(* What holds of a frame, and of the frames on each other.                 *)

Frames == [recipe : Nat, next : Nat, statuses : Seq(Int), written : SUBSET (Nat \X Nat),
           status : Int, rounds : Nat]

\* What the EMITs before a node have written.
WrittenBefore(c, tables, next) ==
    UNION {Written(c, tables, n) : n \in {m \in 1 .. next - 1 : c.nodes[m].op = "emit"}}

ValueShape(p, c, n) == Shapes(c, p.tables)[Len(c.inputs) + n]

\* Where a frame stands in the recipe it runs.
FrameAt(c, f) ==
    /\ f.next \in 1 .. Len(c.nodes) + 1
    /\ Len(f.statuses) = f.next - 1
    /\ f.rounds # 0 =>
        /\ f.next <= Len(c.nodes) /\ c.nodes[f.next].op = "iterate"
        /\ f.rounds <= c.nodes[f.next].imm

\* What its recipe has done so far.
FrameDid(p, c, f) ==
    /\ f.written = WrittenBefore(c, p.tables, f.next)
    /\ \A n \in 1 .. f.next - 1 :
          ValueShape(p, c, n).type = "STATUS" => f.statuses[n] \in Statuses
    /\ \A n \in 1 .. f.next - 1 :
          c.nodes[n].op = "emit" /\ c.nodes[n].aux = 1 => f.status \in Statuses

FrameSound(p, f) ==
    /\ f.recipe \in DOMAIN p.recipes
    /\ FrameAt(p.recipes[f.recipe], f)
    /\ FrameDid(p, p.recipes[f.recipe], f)

\* A frame that waits for the one above it.
Calling(p, f, above) ==
    /\ f.rounds # 0
    /\ above.recipe = p.recipes[f.recipe].nodes[f.next].aux

StackSound(p, fs) ==
    /\ fs \in Seq(Frames)
    /\ \A k \in 1 .. Len(fs) : FrameSound(p, fs[k])
    /\ \A k \in 1 .. Len(fs) - 1 : Calling(p, fs[k], fs[k + 1])

(* The machine's invariant: a package that runs is accepted, and its stack *)
(* is sound.                                                               *)
MachineIInv ==
    /\ package \in Packages
    /\ entry \in [recipe : Nat, given : Statuses]
    /\ mode \in {"wire", "rejected", "ready", "running", "done", "refused"}
    /\ mode \in {"ready", "running", "done"} => Accepts(package)
    /\ mode = "running" <=> frames # <<>>
    /\ entry.recipe # 0 <=> mode \in {"running", "done"}
    /\ entry.recipe # 0 => entry.recipe \in DOMAIN package.recipes
    /\ frames # <<>> => frames[1].recipe = entry.recipe
    /\ StackSound(package, frames)

-----------------------------------------------------------------------------
(* Frames.                                                                 *)

FrameFields == {"recipe", "next", "statuses", "written", "status", "rounds"}

LEMMA FrameKnown ==
    ASSUME NEW f \in Frames
    PROVE  /\ f.recipe \in Nat /\ f.next \in Nat /\ f.statuses \in Seq(Int)
           /\ f.written \in SUBSET (Nat \X Nat) /\ f.status \in Int /\ f.rounds \in Nat
           /\ DOMAIN f = FrameFields
  BY DEF Frames, FrameFields

LEMMA PutIs ==
    ASSUME NEW f \in Frames, NEW number \in Int
    PROVE  /\ Put(f, number) \in Frames
           /\ Put(f, number).recipe = f.recipe /\ Put(f, number).next = f.next + 1
           /\ Put(f, number).statuses = Append(f.statuses, number)
           /\ Put(f, number).written = f.written /\ Put(f, number).status = f.status
           /\ Put(f, number).rounds = 0
  <1>1. /\ f.recipe \in Nat /\ f.next + 1 \in Nat /\ Append(f.statuses, number) \in Seq(Int)
        /\ f.written \in SUBSET (Nat \X Nat) /\ f.status \in Int /\ DOMAIN f = FrameFields
    BY FrameKnown
  <1>2. /\ Put(f, number).recipe = f.recipe /\ Put(f, number).next = f.next + 1
        /\ Put(f, number).statuses = Append(f.statuses, number)
        /\ Put(f, number).written = f.written /\ Put(f, number).status = f.status
        /\ Put(f, number).rounds = 0
    BY <1>1 DEF Put, FrameFields
  <1>3. Put(f, number) \in Frames
    BY <1>1 DEF Put, Frames
  <1> QED
    BY <1>2, <1>3

LEMMA WrittenTyped ==
    ASSUME NEW c \in Recipes, NEW tables, NEW n \in DOMAIN c.nodes
    PROVE  Written(c, tables, n) \in SUBSET (Nat \X Nat)
  <1> DEFINE node == c.nodes[n]
             width == Shapes(c, tables)[node.args[1]].width
  <1>1. node.aux \in Nat /\ node.imm \in Nat
    BY RecipeKnown, RecordKnown
  <1>2. Written(c, tables, n) = {<<node.aux, u>> : u \in node.imm .. node.imm + width - 1}
    BY DEF Written
  <1> HIDE DEF node, width
  <1>3. \A u \in node.imm .. node.imm + width - 1 : u \in Nat
    BY <1>1
  <1> QED
    BY <1>1, <1>2, <1>3

(* One node more: what is written before it, and what is known of a list.  *)
LEMMA WrittenNext ==
    ASSUME NEW c, NEW tables, NEW n \in Nat, n >= 1
    PROVE  /\ c.nodes[n].op = "emit" =>
                WrittenBefore(c, tables, n + 1) = WrittenBefore(c, tables, n) \cup Written(c, tables, n)
           /\ c.nodes[n].op # "emit" =>
                WrittenBefore(c, tables, n + 1) = WrittenBefore(c, tables, n)
  <1>1. 1 .. (n + 1) - 1 = (1 .. n - 1) \cup {n}
    OBVIOUS
  <1>2. {m \in 1 .. (n + 1) - 1 : c.nodes[m].op = "emit"}
          = IF c.nodes[n].op = "emit" THEN {m \in 1 .. n - 1 : c.nodes[m].op = "emit"} \cup {n}
            ELSE {m \in 1 .. n - 1 : c.nodes[m].op = "emit"}
    BY <1>1
  <1> QED
    BY <1>2 DEF WrittenBefore

LEMMA Appended ==
    ASSUME NEW s \in Seq(Int), NEW x \in Int
    PROVE  /\ Append(s, x) \in Seq(Int) /\ Len(Append(s, x)) = Len(s) + 1
           /\ \A i \in 1 .. Len(s) : Append(s, x)[i] = s[i]
           /\ Append(s, x)[Len(s) + 1] = x
  OBVIOUS

LEMMA StatusesAre == Statuses \subseteq Nat /\ NoStatus \in Int /\ 0 \in Statuses /\ NoStatus \notin Statuses
  BY DEF Statuses, NoStatus

(* A node that only computes a value leaves a sound frame.                 *)
LEMMA PutSound ==
    ASSUME NEW p \in Packages, NEW f \in Frames, FrameSound(p, f),
           f.next <= Len(p.recipes[f.recipe].nodes),
           p.recipes[f.recipe].nodes[f.next].op # "emit",
           NEW number \in Int,
           ValueShape(p, p.recipes[f.recipe], f.next).type = "STATUS" => number \in Statuses
    PROVE  Put(f, number) \in Frames /\ FrameSound(p, Put(f, number))
  <1> DEFINE c == p.recipes[f.recipe]
             g == Put(f, number)
  <1>1. c \in Recipes
    BY PackageKnown DEF FrameSound
  <1>2. Len(c.nodes) \in Nat /\ f.next \in 1 .. Len(c.nodes) /\ f.next \in Nat
        /\ Len(f.statuses) = f.next - 1
    BY <1>1, RecipeKnown DEF FrameSound, FrameAt
  <1>3. /\ g.recipe = f.recipe /\ g.next = f.next + 1 /\ g.statuses = Append(f.statuses, number)
        /\ g.written = f.written /\ g.status = f.status /\ g.rounds = 0
    BY PutIs
  <1>4. g \in Frames
    BY PutIs
  <1>5. FrameDid(p, c, f) /\ c.nodes[f.next].op # "emit"
        /\ (ValueShape(p, c, f.next).type = "STATUS" => number \in Statuses)
        /\ f.recipe \in DOMAIN p.recipes
    BY DEF FrameSound
  <1> HIDE DEF c, g
  <1>6. FrameAt(c, g)
    <2>1. Len(g.statuses) = g.next - 1
      BY <1>2, <1>3, FrameKnown, Appended
    <2> QED
      BY <1>2, <1>3, <2>1 DEF FrameAt
  <1>7. FrameDid(p, c, g)
    <2>1. g.written = WrittenBefore(c, p.tables, g.next)
      <3>1. WrittenBefore(c, p.tables, f.next + 1) = WrittenBefore(c, p.tables, f.next)
        <4>1. f.next \in Nat /\ f.next >= 1
          BY <1>2
        <4> QED
          BY <1>5, <4>1, WrittenNext, Zenon
      <3> QED
        BY <1>3, <1>5, <3>1 DEF FrameDid
    <2>2. \A n \in 1 .. g.next - 1 : n = f.next \/ n \in 1 .. f.next - 1
      BY <1>2, <1>3
    <2>3. /\ \A n \in 1 .. f.next - 1 : g.statuses[n] = f.statuses[n]
          /\ g.statuses[f.next] = number
      <3>1. /\ \A n \in 1 .. Len(f.statuses) : g.statuses[n] = f.statuses[n]
            /\ g.statuses[Len(f.statuses) + 1] = number
        BY <1>3, FrameKnown, Appended
      <3>2. Len(f.statuses) + 1 = f.next
        BY <1>2
      <3> QED
        BY <1>2, <3>1, <3>2
    <2>4. ASSUME NEW n \in 1 .. g.next - 1, ValueShape(p, c, n).type = "STATUS"
          PROVE  g.statuses[n] \in Statuses
      BY <1>5, <2>2, <2>3, <2>4 DEF FrameDid
    <2>5. ASSUME NEW n \in 1 .. g.next - 1, c.nodes[n].op = "emit", c.nodes[n].aux = 1
          PROVE  g.status \in Statuses
      BY <1>3, <1>5, <2>2, <2>5 DEF FrameDid
    <2> QED
      BY <2>1, <2>4, <2>5 DEF FrameDid
  <1> QED
    BY <1>3, <1>4, <1>5, <1>6, <1>7 DEF FrameSound, c, g

(* An EMIT adds what it writes and, for the first output, the status.      *)
Emitted(c, tables, f, status) ==
    [Put(f, 0) EXCEPT
        !.written = @ \cup Written(c, tables, f.next),
        !.status = IF c.nodes[f.next].aux = 1 THEN status ELSE @]

LEMMA EmittedMoves ==
    ASSUME NEW c, NEW tables, NEW f \in Frames, NEW status
    PROVE  /\ Emitted(c, tables, f, status).next = f.next + 1
           /\ Emitted(c, tables, f, status).rounds = 0
  <1>1. 0 \in Int
    OBVIOUS
  <1>2. Put(f, 0) \in Frames /\ Put(f, 0).next = f.next + 1 /\ Put(f, 0).rounds = 0
    BY <1>1, PutIs
  <1>3. DOMAIN Put(f, 0) = FrameFields
    BY <1>2, FrameKnown
  <1> QED
    BY <1>2, <1>3 DEF Emitted, FrameFields

LEMMA EmittedSound ==
    ASSUME NEW p \in Packages, NEW f \in Frames, FrameSound(p, f),
           f.next <= Len(p.recipes[f.recipe].nodes),
           p.recipes[f.recipe].nodes[f.next].op = "emit",
           NEW status, p.recipes[f.recipe].nodes[f.next].aux = 1 => status \in Statuses
    PROVE  /\ Emitted(p.recipes[f.recipe], p.tables, f, status) \in Frames
           /\ FrameSound(p, Emitted(p.recipes[f.recipe], p.tables, f, status))
           /\ Emitted(p.recipes[f.recipe], p.tables, f, status).recipe = f.recipe
  <1> DEFINE c == p.recipes[f.recipe]
             g == Emitted(c, p.tables, f, status)
             shown == IF c.nodes[f.next].aux = 1 THEN status ELSE f.status
  <1>1. c \in Recipes
    BY PackageKnown DEF FrameSound
  <1>2. Len(c.nodes) \in Nat /\ f.next \in 1 .. Len(c.nodes) /\ f.next \in Nat
        /\ Len(f.statuses) = f.next - 1 /\ DOMAIN c.nodes = 1 .. Len(c.nodes)
    BY <1>1, RecipeKnown DEF FrameSound, FrameAt
  <1>5. FrameDid(p, c, f) /\ c.nodes[f.next].op = "emit"
        /\ (c.nodes[f.next].aux = 1 => status \in Statuses)
        /\ f.recipe \in DOMAIN p.recipes
    BY DEF FrameSound
  <1>8. shown \in Int /\ (c.nodes[f.next].aux = 1 => shown \in Statuses)
        /\ (c.nodes[f.next].aux # 1 => shown = f.status)
    <2>1. f.status \in Int
      BY FrameKnown
    <2>2. status \in Statuses => status \in Int
      BY StatusesAre
    <2> HIDE DEF c
    <2>3. CASE c.nodes[f.next].aux = 1
      BY <1>5, <2>2, <2>3
    <2>4. CASE c.nodes[f.next].aux # 1
      BY <2>1, <2>4
    <2> QED
      BY <2>3, <2>4
  <1> HIDE DEF c, shown
  <1>4. g \in Frames
    <2>1. Put(f, 0) \in Frames /\ Put(f, 0).written = f.written /\ Put(f, 0).status = f.status
      BY PutIs
    <2>2. f.written \cup Written(c, p.tables, f.next) \in SUBSET (Nat \X Nat)
      BY <1>1, <1>2, WrittenTyped, FrameKnown
    <2>3. g = [Put(f, 0) EXCEPT !.written = f.written \cup Written(c, p.tables, f.next), !.status = shown]
      BY <2>1 DEF Emitted, shown
    <2> HIDE DEF g
    <2> QED
      BY <1>8, <2>1, <2>2, <2>3 DEF Frames
  <1>3. /\ g.recipe = f.recipe /\ g.next = f.next + 1 /\ g.statuses = Append(f.statuses, 0)
        /\ g.written = f.written \cup Written(c, p.tables, f.next)
        /\ g.status = shown /\ g.rounds = 0
    <2>1. /\ Put(f, 0).recipe = f.recipe /\ Put(f, 0).next = f.next + 1
          /\ Put(f, 0).statuses = Append(f.statuses, 0)
          /\ Put(f, 0).written = f.written /\ Put(f, 0).status = f.status
          /\ Put(f, 0).rounds = 0 /\ Put(f, 0) \in Frames
      <3>1. 0 \in Int
        OBVIOUS
      <3> QED
        BY <3>1, PutIs, Zenon
    <2>2. DOMAIN Put(f, 0) = FrameFields
      BY <2>1, FrameKnown
    <2> QED
      BY <2>1, <2>2 DEF Emitted, FrameFields, shown
  <1> HIDE DEF g
  <1>6. FrameAt(c, g)
    <2>1. Len(g.statuses) = g.next - 1
      BY <1>2, <1>3, FrameKnown, Appended
    <2> QED
      BY <1>2, <1>3, <2>1 DEF FrameAt
  <1>7. FrameDid(p, c, g)
    <2>1. g.written = WrittenBefore(c, p.tables, g.next)
      <3>1. WrittenBefore(c, p.tables, f.next + 1) = WrittenBefore(c, p.tables, f.next) \cup Written(c, p.tables, f.next)
        <4>1. f.next \in Nat /\ f.next >= 1
          BY <1>2
        <4> QED
          BY <1>5, <4>1, WrittenNext
      <3> QED
        BY <1>3, <1>5, <3>1 DEF FrameDid
    <2>2. \A n \in 1 .. g.next - 1 : n = f.next \/ n \in 1 .. f.next - 1
      BY <1>2, <1>3
    <2>3. /\ \A n \in 1 .. f.next - 1 : g.statuses[n] = f.statuses[n]
          /\ g.statuses[f.next] = 0
      <3>1. /\ \A n \in 1 .. Len(f.statuses) : g.statuses[n] = f.statuses[n]
            /\ g.statuses[Len(f.statuses) + 1] = 0
        BY <1>3, FrameKnown, Appended
      <3>2. Len(f.statuses) + 1 = f.next
        BY <1>2
      <3> QED
        BY <1>2, <3>1, <3>2
    <2>4. ASSUME NEW n \in 1 .. g.next - 1, ValueShape(p, c, n).type = "STATUS"
          PROVE  g.statuses[n] \in Statuses
      BY <1>5, <2>2, <2>3, <2>4, StatusesAre DEF FrameDid
    <2>5. ASSUME NEW n \in 1 .. g.next - 1, c.nodes[n].op = "emit", c.nodes[n].aux = 1
          PROVE  g.status \in Statuses
      <3>1. g.status = shown
        BY <1>3
      <3>2. CASE c.nodes[f.next].aux = 1
        BY <1>8, <3>1, <3>2
      <3>3. CASE c.nodes[f.next].aux # 1
        BY <1>5, <1>8, <2>2, <2>5, <3>1, <3>3 DEF FrameDid
      <3> QED
        BY <3>2, <3>3
    <2> QED
      BY <2>1, <2>4, <2>5 DEF FrameDid
  <1>9. g.recipe = f.recipe
    BY <1>3
  <1> QED
    BY <1>4, <1>5, <1>6, <1>7, <1>9 DEF FrameSound, c, g

(* A recipe that begins.                                                   *)
LEMMA FrameBegins ==
    ASSUME NEW p \in Packages, NEW r \in DOMAIN p.recipes
    PROVE  Frame(r) \in Frames /\ FrameSound(p, Frame(r)) /\ Frame(r).recipe = r
  <1>1. r \in Nat /\ p.recipes[r] \in Recipes
    BY PackageKnown
  <1>2. Len(p.recipes[r].nodes) \in Nat
    BY <1>1, RecipeKnown
  <1>3. WrittenBefore(p.recipes[r], p.tables, 1) = {}
    <2>1. 1 .. 1 - 1 = {}
      OBVIOUS
    <2>2. {m \in 1 .. 1 - 1 : p.recipes[r].nodes[m].op = "emit"} = {}
      BY <2>1
    <2> QED
      BY <2>2 DEF WrittenBefore
  <1>4. << >> \in Seq(Int) /\ Len(<< >>) = 0 /\ {} \in SUBSET (Nat \X Nat)
    OBVIOUS
  <1>5. Frame(r) \in Frames
    BY <1>1, <1>4, StatusesAre DEF Frame, Frames
  <1>6. Frame(r).recipe = r /\ Frame(r).next = 1 /\ Frame(r).statuses = <<>>
        /\ Frame(r).written = {} /\ Frame(r).rounds = 0
    BY DEF Frame
  <1>7. FrameAt(p.recipes[r], Frame(r))
    BY <1>2, <1>4, <1>6 DEF FrameAt
  <1>8. FrameDid(p, p.recipes[r], Frame(r))
    <2>1. 1 .. 1 - 1 = {}
      OBVIOUS
    <2> QED
      BY <1>3, <1>6, <2>1 DEF FrameDid
  <1> QED
    BY <1>5, <1>6, <1>7, <1>8 DEF FrameSound

-----------------------------------------------------------------------------
(* Stacks of frames.                                                       *)

LEMMA StackTop ==
    ASSUME NEW fs \in Seq(Frames), fs # <<>>
    PROVE  /\ Len(fs) \in Nat /\ Len(fs) >= 1 /\ DOMAIN fs = 1 .. Len(fs)
           /\ Last(fs) = fs[Len(fs)] /\ Last(fs) \in Frames
           /\ Front(fs) \in Seq(Frames) /\ Len(Front(fs)) = Len(fs) - 1
           /\ \A k \in 1 .. Len(fs) - 1 : Front(fs)[k] = fs[k]
           /\ Front(fs) = <<>> <=> Len(fs) = 1
  <1>1. Len(fs) \in Nat /\ Len(fs) >= 1 /\ DOMAIN fs = 1 .. Len(fs)
    OBVIOUS
  <1>2. Last(fs) = fs[Len(fs)] /\ Last(fs) \in Frames
    BY <1>1 DEF Last
  <1>3. /\ Front(fs) \in Seq(Frames) /\ Len(Front(fs)) = Len(fs) - 1
        /\ \A k \in 1 .. Len(fs) - 1 : Front(fs)[k] = fs[k]
    BY <1>1 DEF Front
  <1>4. \A s \in Seq(Frames) : s = <<>> <=> Len(s) = 0
    OBVIOUS
  <1>5. Front(fs) = <<>> <=> Len(fs) = 1
    BY <1>1, <1>3, <1>4
  <1> QED
    BY <1>1, <1>2, <1>3, <1>5

LEMMA StackPut ==
    ASSUME NEW fs \in Seq(Frames), NEW f \in Frames
    PROVE  /\ Append(fs, f) \in Seq(Frames) /\ Len(Append(fs, f)) = Len(fs) + 1
           /\ Append(fs, f)[Len(fs) + 1] = f
           /\ \A k \in 1 .. Len(fs) : Append(fs, f)[k] = fs[k]
           /\ Len(fs) \in Nat /\ Append(fs, f) # <<>>
  OBVIOUS

LEMMA TopReplaced ==
    ASSUME NEW fs \in Seq(Frames), fs # <<>>, NEW f \in Frames
    PROVE  /\ Append(Front(fs), f) \in Seq(Frames) /\ Append(Front(fs), f) # <<>>
           /\ Len(Append(Front(fs), f)) = Len(fs)
           /\ Append(Front(fs), f)[Len(fs)] = f
           /\ Last(Append(Front(fs), f)) = f
           /\ \A k \in 1 .. Len(fs) - 1 : Append(Front(fs), f)[k] = fs[k]
  <1>1. /\ Front(fs) \in Seq(Frames) /\ Len(Front(fs)) = Len(fs) - 1 /\ Len(fs) \in Nat
        /\ \A k \in 1 .. Len(fs) - 1 : Front(fs)[k] = fs[k]
    BY StackTop
  <1> DEFINE g == Append(Front(fs), f)
  <1>2. /\ g \in Seq(Frames) /\ g # <<>> /\ Len(g) = Len(Front(fs)) + 1
        /\ g[Len(Front(fs)) + 1] = f
        /\ \A k \in 1 .. Len(Front(fs)) : g[k] = Front(fs)[k]
    BY <1>1, StackPut
  <1> HIDE DEF g
  <1>3. Len(g) = Len(fs) /\ g[Len(fs)] = f /\ \A k \in 1 .. Len(fs) - 1 : g[k] = fs[k]
    BY <1>1, <1>2
  <1>4. Last(g) = f
    BY <1>3 DEF Last
  <1> QED
    BY <1>2, <1>3, <1>4 DEF g

LEMMA StackReplaced ==
    ASSUME NEW p, NEW fs, StackSound(p, fs), fs # <<>>,
           NEW f \in Frames, FrameSound(p, f), f.recipe = Last(fs).recipe
    PROVE  /\ StackSound(p, Append(Front(fs), f))
           /\ Append(Front(fs), f) # <<>>
           /\ Append(Front(fs), f)[1].recipe = fs[1].recipe
  <1> DEFINE g == Append(Front(fs), f)
  <1>1. /\ fs \in Seq(Frames)
        /\ \A k \in 1 .. Len(fs) : FrameSound(p, fs[k])
        /\ \A k \in 1 .. Len(fs) - 1 : Calling(p, fs[k], fs[k + 1])
    BY DEF StackSound
  <1>2. Len(fs) \in Nat /\ Len(fs) >= 1 /\ Last(fs) = fs[Len(fs)]
    BY <1>1, StackTop
  <1>3. /\ g \in Seq(Frames) /\ g # <<>> /\ Len(g) = Len(fs)
        /\ g[Len(fs)] = f /\ \A k \in 1 .. Len(fs) - 1 : g[k] = fs[k]
    BY <1>1, TopReplaced
  <1> HIDE DEF g
  <1>4. ASSUME NEW k \in 1 .. Len(g) PROVE FrameSound(p, g[k])
    BY <1>1, <1>2, <1>3
  <1>5. ASSUME NEW k \in 1 .. Len(g) - 1 PROVE Calling(p, g[k], g[k + 1])
    <2>1. g[k] = fs[k] /\ k \in 1 .. Len(fs) - 1
      BY <1>2, <1>3
    <2>2. g[k + 1].recipe = fs[k + 1].recipe
      <3>1. k + 1 = Len(fs) \/ k + 1 \in 1 .. Len(fs) - 1
        BY <1>2, <1>3
      <3> QED
        BY <1>2, <1>3, <3>1
    <2>3. Calling(p, fs[k], fs[k + 1])
      BY <1>1, <2>1
    <2> QED
      BY <2>1, <2>2, <2>3 DEF Calling
  <1>6. g[1].recipe = fs[1].recipe
    <2>1. Len(fs) = 1 \/ 1 \in 1 .. Len(fs) - 1
      <3>1. \A L \in Nat : L >= 1 => L = 1 \/ 1 \in 1 .. L - 1
        OBVIOUS
      <3> QED
        BY <1>2, <3>1, Zenon
    <2> QED
      BY <1>2, <1>3, <2>1
  <1> QED
    BY <1>3, <1>4, <1>5, <1>6, Zenon DEF StackSound, g

LEMMA StackPushed ==
    ASSUME NEW p, NEW fs, StackSound(p, fs), fs # <<>>,
           NEW f \in Frames, FrameSound(p, f), Calling(p, Last(fs), f)
    PROVE  /\ StackSound(p, Append(fs, f)) /\ Append(fs, f) # <<>>
           /\ Append(fs, f)[1].recipe = fs[1].recipe
  <1> DEFINE g == Append(fs, f)
  <1>1. /\ fs \in Seq(Frames)
        /\ \A k \in 1 .. Len(fs) : FrameSound(p, fs[k])
        /\ \A k \in 1 .. Len(fs) - 1 : Calling(p, fs[k], fs[k + 1])
    BY DEF StackSound
  <1>2. Len(fs) \in Nat /\ Len(fs) >= 1 /\ Last(fs) = fs[Len(fs)]
    BY <1>1, StackTop
  <1>3. /\ g \in Seq(Frames) /\ g # <<>> /\ Len(g) = Len(fs) + 1
        /\ g[Len(fs) + 1] = f /\ \A k \in 1 .. Len(fs) : g[k] = fs[k]
    BY <1>1, StackPut
  <1> HIDE DEF g
  <1>4. ASSUME NEW k \in 1 .. Len(g) PROVE FrameSound(p, g[k])
    <2>1. k = Len(fs) + 1 \/ k \in 1 .. Len(fs)
      BY <1>2, <1>3
    <2> QED
      BY <1>1, <1>3, <2>1
  <1>5. ASSUME NEW k \in 1 .. Len(g) - 1 PROVE Calling(p, g[k], g[k + 1])
    <2>1. g[k] = fs[k] /\ k \in 1 .. Len(fs)
      BY <1>2, <1>3
    <2>2. CASE k = Len(fs)
      BY <1>2, <1>3, <2>1, <2>2
    <2>3. CASE k # Len(fs)
      <3>1. k \in 1 .. Len(fs) - 1 /\ k + 1 \in 1 .. Len(fs)
        BY <1>2, <2>1, <2>3
      <3>2. Calling(p, fs[k], fs[k + 1]) /\ g[k + 1] = fs[k + 1]
        BY <1>1, <1>3, <3>1
      <3> QED
        BY <2>1, <3>2
    <2> QED
      BY <2>2, <2>3
  <1>6. g[1].recipe = fs[1].recipe
    BY <1>2, <1>3
  <1> QED
    BY <1>3, <1>4, <1>5, <1>6, Zenon DEF StackSound, g

LEMMA StackPopped ==
    ASSUME NEW p, NEW fs, StackSound(p, fs), fs # <<>>, Len(fs) > 1
    PROVE  /\ StackSound(p, Front(fs)) /\ Front(fs) # <<>>
           /\ Front(fs)[1] = fs[1]
  <1> DEFINE g == Front(fs)
  <1>1. /\ fs \in Seq(Frames)
        /\ \A k \in 1 .. Len(fs) : FrameSound(p, fs[k])
        /\ \A k \in 1 .. Len(fs) - 1 : Calling(p, fs[k], fs[k + 1])
    BY DEF StackSound
  <1>2. Len(fs) \in Nat
    BY <1>1, StackTop
  <1>3. /\ g \in Seq(Frames) /\ Len(g) = Len(fs) - 1 /\ (g = <<>> <=> Len(fs) = 1)
        /\ \A k \in 1 .. Len(fs) - 1 : g[k] = fs[k]
    BY <1>1, StackTop
  <1> HIDE DEF g
  <1>4. ASSUME NEW k \in 1 .. Len(g) PROVE FrameSound(p, g[k])
    BY <1>1, <1>2, <1>3
  <1>5. ASSUME NEW k \in 1 .. Len(g) - 1 PROVE Calling(p, g[k], g[k + 1])
    <2>1. k \in 1 .. Len(fs) - 1 /\ k + 1 \in 1 .. Len(fs) - 1
      BY <1>2, <1>3
    <2> QED
      BY <1>1, <1>3, <2>1
  <1>6. g[1] = fs[1] /\ g # <<>>
    BY <1>2, <1>3
  <1> QED
    BY <1>3, <1>4, <1>5, <1>6, Zenon DEF StackSound, g

-----------------------------------------------------------------------------
(* The statuses of values.                                                 *)

LEMMA ArgumentsBefore ==
    ASSUME NEW p \in Packages, NEW r \in DOMAIN p.recipes, Sane(p, r),
           NEW n \in DOMAIN p.recipes[r].nodes, NEW i \in DOMAIN p.recipes[r].nodes[n].args
    PROVE  p.recipes[r].nodes[n].args[i] \in 1 .. Len(p.recipes[r].inputs) + n - 1
  <1> DEFINE c == p.recipes[r]
  <1>1. c.nodes[n] \in Records
    BY PackageKnown, RecipeKnown
  <1>2. ToSet(c.nodes[n].args) \subseteq 1 .. Len(c.inputs) + n - 1
    BY DEF Sane, Backward
  <1> HIDE DEF c
  <1>3. \A j \in DOMAIN c.nodes[n].args : c.nodes[n].args[j] \in ToSet(c.nodes[n].args)
    BY <1>1, RecordKnown
  <1> QED
    BY <1>2, <1>3 DEF c

(* What an argument that is a status holds is one of the fifteen numbers.  *)
LEMMA StatusKnown ==
    ASSUME entry \in [recipe : Nat, given : Statuses], package \in Packages,
           NEW f \in Frames, FrameSound(package, f), NEW v \in 1 .. Inputs(f) + f.next - 1,
           Shapes(RecipeAt(f), package.tables)[v].type = "STATUS"
    PROVE  StatusOf(f, v) \in Statuses
  <1> DEFINE c == RecipeAt(f)
             I == Len(c.inputs)
             N == Len(c.nodes)
  <1>1. c \in Recipes
    BY PackageKnown DEF FrameSound, RecipeAt
  <1>2. I \in Nat /\ N \in Nat /\ Inputs(f) = I
    BY <1>1, RecipeKnown DEF Inputs
  <1>3. FrameAt(c, f) /\ FrameDid(package, c, f)
    BY DEF FrameSound, RecipeAt
  <1>4. entry.given \in Statuses
    OBVIOUS
  <1> HIDE DEF c, I, N
  <1>5. CASE v <= I
    BY <1>2, <1>4, <1>5 DEF StatusOf
  <1>6. CASE ~(v <= I)
    <2>1. f.next \in 1 .. N + 1
      BY <1>3 DEF FrameAt, N
    <2>2. v - I \in 1 .. f.next - 1 /\ I + (v - I) = v
      BY <1>2, <1>6, <2>1
    <2>3. ValueShape(package, c, v - I).type = "STATUS"
      BY <2>2 DEF ValueShape, I, c
    <2>4. f.statuses[v - I] \in Statuses
      BY <1>3, <2>2, <2>3 DEF FrameDid
    <2>5. StatusOf(f, v) = f.statuses[v - I]
      BY <1>2, <1>6 DEF StatusOf
    <2> QED
      BY <2>4, <2>5
  <1> QED
    BY <1>5, <1>6

LEMMA NumbersSound ==
    ASSUME entry \in [recipe : Nat, given : Statuses], package \in Packages, Accepts(package),
           NEW f \in Frames, FrameSound(package, f), ~AtEnd(f),
           NodeAt(f).op \notin {"emit", "iterate"}, NEW number \in Numbers(f, NodeAt(f)),
           ValueShape(package, RecipeAt(f), f.next).type = "STATUS"
    PROVE  number \in Statuses
  <1> DEFINE c == RecipeAt(f)
             r == f.recipe
             n == f.next
             node == NodeAt(f)
             shape == Shapes(c, package.tables)
             args == Arguments(node, shape)
             made == shape[Len(c.inputs) + n]
  <1>1. r \in DOMAIN package.recipes /\ c = package.recipes[r] /\ c \in Recipes
    BY PackageKnown DEF FrameSound, RecipeAt
  <1>2. Sane(package, r)
    BY <1>1, AllSane
  <1>3. n \in DOMAIN c.nodes /\ node = c.nodes[n] /\ node \in Records
    <2>1. Len(c.nodes) \in Nat /\ DOMAIN c.nodes = 1 .. Len(c.nodes)
      BY <1>1, RecipeKnown
    <2>2. n \in 1 .. Len(c.nodes) + 1 /\ ~(n > Len(c.nodes))
      BY DEF FrameSound, FrameAt, AtEnd, RecipeAt
    <2>3. n \in DOMAIN c.nodes
      BY <2>1, <2>2
    <2> QED
      BY <1>1, <2>3, RecipeKnown DEF NodeAt
  <1>4. NodeTyped(package, r, n)
    BY <1>1, <1>2, <1>3, AllNodesTyped
  <1>5. Typed(node, args, made, c, package.tables) /\ made.type = "STATUS"
    BY <1>1, <1>3, <1>4, Zenon DEF NodeTyped, ValueShape
  <1>6. node.type = "STATUS"
    BY <1>1, <1>3, <1>4, StatusDeclared DEF ValueShape
  <1>7. number \in CASE node.op \in {"const", "fail"} -> {node.imm}
                     [] node.op \in {"ok", "emit"} -> {0}
                     [] node.op = "select" -> {StatusOf(f, node.args[2]), StatusOf(f, node.args[3])}
                     [] OTHER -> Statuses
    BY <1>6 DEF Numbers
  <1>8. node.op = "select" => /\ StatusOf(f, node.args[2]) \in Statuses
                              /\ StatusOf(f, node.args[3]) \in Statuses
    <2> SUFFICES ASSUME node.op = "select", NEW i \in {2, 3}
                 PROVE  StatusOf(f, node.args[i]) \in Statuses
      OBVIOUS
    <2>1. Len(node.args) = 3
      <3>1. RecordSound(node)
        BY <1>1, <1>2, <1>3 DEF Sane
      <3> HIDE DEF node
      <3> QED
        BY <3>1 DEF RecordSound, Arity
    <2>2. i \in DOMAIN node.args
      BY <1>3, <2>1, RecordKnown
    <2>3. args[i] = made
      <3>1. args[2] = made /\ args[3] = made
        <4> HIDE DEF node, args, made, c
        <4> QED
          BY <1>5 DEF Typed
      <3> QED
        BY <3>1
    <2>4. shape[node.args[i]].type = "STATUS"
      <3>1. args[i] = shape[node.args[i]]
        BY <2>2, SMTT(20) DEF Arguments
      <3> QED
        BY <1>5, <2>3, <3>1
    <2>5. node.args[i] \in 1 .. Inputs(f) + n - 1
      BY <1>1, <1>2, <1>3, <2>2, ArgumentsBefore DEF Inputs
    <2> QED
      BY <2>4, <2>5, StatusKnown
  <1>9. node.op = "const" \/ node.op = "fail" => node.imm \in Statuses
    <2> HIDE DEF node, args, made, c
    <2>1. CASE node.op = "const"
      BY <1>5, <2>1 DEF Typed
    <2>2. CASE node.op = "fail"
      BY <1>5, <2>2 DEF Typed
    <2> QED
      BY <2>1, <2>2
  <1>10. node.op \notin {"emit", "iterate"}
    OBVIOUS
  <1> HIDE DEF node
  <1> QED
    BY <1>7, <1>8, <1>9, StatusesAre

(* The accumulator of an ITERATE is no status.                             *)
LEMMA IterateIsNoStatus ==
    ASSUME NEW p \in Packages, Accepts(p), NEW r \in DOMAIN p.recipes,
           NEW n \in DOMAIN p.recipes[r].nodes, p.recipes[r].nodes[n].op = "iterate"
    PROVE  /\ ValueShape(p, p.recipes[r], n).type # "STATUS"
           /\ p.recipes[r].nodes[n].aux \in 1 .. r - 1
           /\ p.recipes[r].nodes[n].aux \in DOMAIN p.recipes
  <1> DEFINE c == p.recipes[r]
             node == c.nodes[n]
             shape == Shapes(c, p.tables)
             args == Arguments(node, shape)
             made == shape[Len(c.inputs) + n]
             body == p.recipes[node.aux]
  <1>1. c \in Recipes /\ node \in Records
    BY PackageKnown, RecipeKnown
  <1>2. Sane(p, r)
    BY AllSane
  <1>3. NodeTyped(p, r, n)
    BY <1>2, AllNodesTyped
  <1>4. Typed(node, args, made, c, p.tables)
    BY <1>3 DEF NodeTyped
  <1>5. made = args[1]
    <2>1. node.op = "iterate"
      BY SMTT(20)
    <2> HIDE DEF node, args, made, c
    <2> QED
      BY <1>4, <2>1 DEF Typed
  <1>6. args[1] = shape[node.args[1]]
    <2>1. Len(node.args) = 1
      <3>1. RecordSound(node) /\ node.op = "iterate"
        BY <1>2 DEF Sane
      <3> HIDE DEF node
      <3> QED
        BY <3>1 DEF RecordSound, Arity
    <2>2. 1 \in DOMAIN node.args
      BY <1>1, <2>1, RecordKnown
    <2> QED
      BY <2>2 DEF Arguments
  <1>7. node.aux \in 1 .. r - 1 /\ body.outputs = <<Status, shape[node.args[1]]>>
    <2>1. BodiesSound(p, r)
      BY <1>2 DEF Sane
    <2> QED
      BY <2>1, Zenon DEF BodiesSound
  <1>13. DOMAIN p.recipes = 1 .. Len(p.recipes) /\ Len(p.recipes) \in Nat
    BY PackageKnown
  <1> HIDE DEF node, body, made, args
  <1>8. node.aux \in DOMAIN p.recipes
    BY <1>7, <1>13
  <1>9. InterfaceSound(body)
    BY <1>8, AllSane DEF Sane, body
  <1>10. body.outputs[2].type # "STATUS"
    <2>1. Len(body.outputs) = 2
      BY <1>7
    <2> HIDE DEF body
    <2> QED
      BY <1>9, <2>1 DEF InterfaceSound
  <1>11. body.outputs[2] = made
    BY <1>5, <1>6, <1>7
  <1>12. made.type # "STATUS"
    BY <1>10, <1>11
  <1> QED
    BY <1>7, <1>8, <1>12 DEF ValueShape, node, made

(* What an EMIT writes to the first output is a status.                    *)
LEMMA EmittedStatus ==
    ASSUME entry \in [recipe : Nat, given : Statuses], package \in Packages, Accepts(package),
           NEW f \in Frames, FrameSound(package, f), ~AtEnd(f),
           NodeAt(f).op = "emit", NodeAt(f).aux = 1
    PROVE  StatusOf(f, NodeAt(f).args[1]) \in Statuses
  <1> DEFINE c == RecipeAt(f)
             r == f.recipe
             n == f.next
             node == NodeAt(f)
             shape == Shapes(c, package.tables)
             args == Arguments(node, shape)
             made == shape[Len(c.inputs) + n]
  <1>1. r \in DOMAIN package.recipes /\ c = package.recipes[r] /\ c \in Recipes
    BY PackageKnown DEF FrameSound, RecipeAt
  <1>2. Sane(package, r)
    BY <1>1, AllSane
  <1>3. n \in DOMAIN c.nodes /\ node = c.nodes[n] /\ node \in Records
    <2>1. Len(c.nodes) \in Nat /\ DOMAIN c.nodes = 1 .. Len(c.nodes)
      BY <1>1, RecipeKnown
    <2>2. n \in 1 .. Len(c.nodes) + 1 /\ ~(n > Len(c.nodes))
      BY DEF FrameSound, FrameAt, AtEnd, RecipeAt
    <2>3. n \in DOMAIN c.nodes
      BY <2>1, <2>2
    <2> QED
      BY <1>1, <2>3, RecipeKnown DEF NodeAt
  <1>4. Typed(node, args, made, c, package.tables)
    BY <1>1, <1>2, <1>3, AllNodesTyped DEF NodeTyped
  <1>5. c.outputs[1] = Status
    BY <1>1, <1>2 DEF Sane, InterfaceSound
  <1>6. EmitCompatible(args[1], c.outputs[1])
    <2>1. node.op = "emit" /\ node.aux = 1
      OBVIOUS
    <2> HIDE DEF node, args, made, c
    <2> QED
      BY <1>4, <2>1 DEF Typed
  <1>7. args[1].type = "STATUS"
    BY <1>5, <1>6 DEF EmitCompatible, Status, Shape
  <1>8. 1 \in DOMAIN node.args
    <2>1. RecordSound(node) /\ node.op = "emit"
      BY <1>1, <1>2, <1>3 DEF Sane
    <2> HIDE DEF node
    <2>2. Len(node.args) = 1
      BY <2>1 DEF RecordSound, Arity
    <2> QED
      BY <1>3, <2>2, RecordKnown
  <1>9. shape[node.args[1]].type = "STATUS"
    BY <1>7, <1>8, SMTT(20) DEF Arguments
  <1>10. node.args[1] \in 1 .. Inputs(f) + n - 1
    BY <1>1, <1>2, <1>3, <1>8, ArgumentsBefore DEF Inputs
  <1> QED
    BY <1>9, <1>10, StatusKnown

-----------------------------------------------------------------------------
(* Every step keeps the machine's invariant.                               *)

LEMMA MachineOpens == MachineInit => MachineIInv
  <1> SUFFICES ASSUME MachineInit PROVE MachineIInv
    OBVIOUS
  <1>1. package \in Packages /\ mode = "wire" /\ frames = <<>> /\ entry = [recipe |-> 0, given |-> 0]
    BY DEF MachineInit
  <1>2. entry \in [recipe : Nat, given : Statuses] /\ entry.recipe = 0
    BY <1>1, StatusesAre
  <1>3. StackSound(package, frames)
    <2>1. frames \in Seq(Frames) /\ 1 .. Len(frames) = {} /\ 1 .. Len(frames) - 1 = {}
      BY <1>1
    <2> QED
      BY <2>1 DEF StackSound
  <1> QED
    BY <1>1, <1>2, <1>3 DEF MachineIInv

LEMMA DecodeKept == MachineIInv /\ Decode => MachineIInv'
  BY DEF MachineIInv, Decode

LEMMA EvaluateKept ==
    ASSUME NEW r \in 1 .. Len(package.recipes) + 1, NEW fits, NEW given \in Statuses,
           MachineIInv, Evaluate(r, fits, given)
    PROVE  MachineIInv'
  <1>1. /\ package \in Packages /\ mode = "ready" /\ Accepts(package) /\ package' = package
        /\ StackSound(package, frames) /\ frames = <<>> /\ entry.recipe = 0
        /\ entry \in [recipe : Nat, given : Statuses]
    BY DEF MachineIInv, Evaluate
  <1>2. CASE mode' = "refused" /\ entry' = entry /\ frames' = frames
    BY <1>1, <1>2 DEF MachineIInv
  <1>3. CASE /\ r \in DOMAIN package.recipes /\ mode' = "running"
             /\ entry' = [recipe |-> r, given |-> given] /\ frames' = <<Frame(r)>>
    <2>1. Frame(r) \in Frames /\ FrameSound(package, Frame(r)) /\ Frame(r).recipe = r
      BY <1>1, <1>3, FrameBegins
    <2>2. StackSound(package, <<Frame(r)>>)
      <3> DEFINE s == <<Frame(r)>>
      <3>1. s \in Seq(Frames) /\ Len(s) = 1 /\ s[1] = Frame(r)
        BY <2>1
      <3> HIDE DEF s
      <3>2. \A k \in 1 .. Len(s) : k = 1
        BY <3>1
      <3>3. 1 .. Len(s) - 1 = {}
        BY <3>1
      <3> QED
        BY <2>1, <3>1, <3>2, <3>3 DEF StackSound, s
    <2>3. r \in Nat /\ r # 0
      BY <1>1, <1>3, PackageKnown
    <2>4. entry' \in [recipe : Nat, given : Statuses] /\ entry'.recipe = r
      BY <1>3, <2>3
    <2>5. frames' # <<>> /\ frames'[1].recipe = r
      BY <1>3, <2>1
    <2>6. StackSound(package', frames')
      BY <1>1, <1>3, <2>2
    <2> QED
      BY <1>1, <1>3, <2>3, <2>4, <2>5, <2>6 DEF MachineIInv
  <1> QED
    BY <1>2, <1>3 DEF Evaluate

(* A running machine's innermost frame, at a node.                         *)
AtNode ==
    /\ MachineIInv
    /\ mode = "running" /\ ~AtEnd(Current)

LEMMA Running ==
    ASSUME MachineIInv, mode = "running"
    PROVE  /\ package \in Packages /\ Accepts(package) /\ frames # <<>>
           /\ entry \in [recipe : Nat, given : Statuses]
           /\ frames \in Seq(Frames) /\ StackSound(package, frames)
           /\ Current \in Frames /\ FrameSound(package, Current)
           /\ RecipeAt(Current) = package.recipes[Current.recipe]
           /\ Current.recipe \in DOMAIN package.recipes
           /\ RecipeAt(Current) \in Recipes
  <1>1. /\ package \in Packages /\ Accepts(package) /\ frames # <<>>
        /\ StackSound(package, frames) /\ frames \in Seq(Frames)
        /\ entry \in [recipe : Nat, given : Statuses]
    BY DEF MachineIInv, StackSound
  <1>2. Len(frames) \in Nat /\ Len(frames) >= 1 /\ Current = frames[Len(frames)] /\ Current \in Frames
    BY <1>1, StackTop DEF Current
  <1>3. FrameSound(package, Current)
    <2>1. Len(frames) \in 1 .. Len(frames)
      BY <1>2
    <2> QED
      BY <1>1, <1>2, <2>1 DEF StackSound
  <1>4. Current.recipe \in DOMAIN package.recipes
    BY <1>3 DEF FrameSound
  <1>5. package.recipes[Current.recipe] \in Recipes
    BY <1>1, <1>4, PackageKnown
  <1> QED
    BY <1>1, <1>2, <1>3, <1>4, <1>5 DEF RecipeAt

LEMMA NodeKnown ==
    ASSUME AtNode
    PROVE  /\ Current.next \in DOMAIN RecipeAt(Current).nodes
           /\ Current.next <= Len(RecipeAt(Current).nodes)
           /\ NodeAt(Current) = package.recipes[Current.recipe].nodes[Current.next]
           /\ NodeAt(Current) \in Records
           /\ Current.next \in Nat /\ Current.next >= 1
           /\ Len(RecipeAt(Current).nodes) \in Nat
  <1>1. /\ FrameSound(package, Current) /\ RecipeAt(Current) \in Recipes
        /\ RecipeAt(Current) = package.recipes[Current.recipe]
    BY Running DEF AtNode
  <1>2. Len(RecipeAt(Current).nodes) \in Nat /\ DOMAIN RecipeAt(Current).nodes = 1 .. Len(RecipeAt(Current).nodes)
    BY <1>1, RecipeKnown
  <1>3. Current.next \in 1 .. Len(RecipeAt(Current).nodes) + 1
    BY <1>1 DEF FrameSound, FrameAt
  <1>4. ~(Current.next > Len(RecipeAt(Current).nodes))
    BY DEF AtNode, AtEnd
  <1>5. Current.next \in DOMAIN RecipeAt(Current).nodes /\ Current.next <= Len(RecipeAt(Current).nodes)
        /\ Current.next \in Nat /\ Current.next >= 1
    BY <1>2, <1>3, <1>4
  <1>6. NodeAt(Current) = RecipeAt(Current).nodes[Current.next]
    BY DEF NodeAt
  <1>7. NodeAt(Current) \in Records
    BY <1>1, <1>5, <1>6, RecipeKnown
  <1> QED
    BY <1>1, <1>2, <1>5, <1>6, <1>7

(* A step that only moves the stack of a running machine.                  *)
LEMMA StackMoved ==
    ASSUME MachineIInv, mode = "running", package' = package, mode' = mode, entry' = entry,
           StackSound(package, frames'), frames' # <<>>,
           frames'[1].recipe = frames[1].recipe
    PROVE  MachineIInv'
  <1>1. StackSound(package', frames')
    OBVIOUS
  <1> QED
    BY <1>1 DEF MachineIInv

(* What a node that has run leaves: the innermost frame moved by one.      *)
RunsNode(g) ==
    /\ AtNode
    /\ package' = package /\ mode' = mode /\ entry' = entry /\ result' = result
    /\ frames' = Append(Front(frames), g)
    /\ FrameSound(package, g) /\ g.recipe = Current.recipe
    /\ g.next = Current.next + 1 /\ g.rounds = 0
    /\ NodeAt(Current).op = "iterate" => Current.rounds = NodeAt(Current).imm
    /\ Ran

LEMMA NodeRunKept ==
    ASSUME NEW g \in Frames, RunsNode(g)
    PROVE  MachineIInv'
  <1>1. /\ MachineIInv /\ mode = "running" /\ package' = package /\ mode' = mode /\ entry' = entry
        /\ frames' = Append(Front(frames), g)
        /\ FrameSound(package, g) /\ g.recipe = Last(frames).recipe
    BY DEF RunsNode, AtNode, Current
  <1>2. StackSound(package, frames) /\ frames # <<>>
    BY <1>1, Running
  <1>3. /\ StackSound(package, frames') /\ frames' # <<>>
        /\ frames'[1].recipe = frames[1].recipe
    BY <1>1, <1>2, StackReplaced
  <1> QED
    BY <1>1, <1>3, StackMoved

LEMMA ComputeRuns ==
    ASSUME NEW number, MachineIInv, Compute(number)
    PROVE  \E g \in Frames : RunsNode(g)
  <1>0. AtNode /\ mode = "running"
    BY DEF Compute, AtNode
  <1>1. /\ package' = package /\ mode' = mode /\ entry' = entry
        /\ frames' = Append(Front(frames), Put(Current, number))
        /\ NodeAt(Current).op \notin {"emit", "iterate"} /\ number \in Numbers(Current, NodeAt(Current))
        /\ ~AtEnd(Current)
    BY DEF Compute, Replace
  <1>2. /\ package \in Packages /\ Accepts(package) /\ frames # <<>> /\ StackSound(package, frames)
        /\ entry \in [recipe : Nat, given : Statuses]
        /\ Current \in Frames /\ FrameSound(package, Current)
        /\ RecipeAt(Current) = package.recipes[Current.recipe]
    BY <1>0, Running
  <1>3. /\ Current.next <= Len(package.recipes[Current.recipe].nodes)
        /\ NodeAt(Current) = package.recipes[Current.recipe].nodes[Current.next]
        /\ NodeAt(Current) \in Records
    BY <1>0, <1>2, NodeKnown
  <1>4. ValueShape(package, RecipeAt(Current), Current.next).type = "STATUS" => number \in Statuses
    BY <1>1, <1>2, NumbersSound
  <1>5. number \in Int
    <2>1. CASE ValueShape(package, RecipeAt(Current), Current.next).type = "STATUS"
      <3>1. number \in Statuses /\ Statuses \subseteq Nat
        BY <1>4, <2>1, StatusesAre
      <3> QED
        BY <3>1
    <2>2. CASE NodeAt(Current).type # "STATUS"
      <3>1. number = NoStatus
        BY <1>1, <2>2 DEF Numbers
      <3> QED
        BY <3>1, StatusesAre
    <2>3. NodeAt(Current).type = "STATUS" =>
              ValueShape(package, RecipeAt(Current), Current.next).type = "STATUS"
      <3>1. Current.next \in DOMAIN package.recipes[Current.recipe].nodes
            /\ Current.recipe \in DOMAIN package.recipes
        BY <1>0, <1>2, NodeKnown DEF FrameSound
      <3>2. NodeTyped(package, Current.recipe, Current.next)
        BY <1>2, <3>1, AllSane, AllNodesTyped, SMTT(20)
      <3> QED
        BY <1>2, <1>3, <3>2, DeclaredStatus DEF ValueShape
    <2> QED
      BY <2>1, <2>2, <2>3
  <1>6. Put(Current, number) \in Frames /\ FrameSound(package, Put(Current, number))
    BY <1>1, <1>2, <1>3, <1>4, <1>5, PutSound
  <1>7. /\ Put(Current, number).recipe = Current.recipe
        /\ Put(Current, number).next = Current.next + 1 /\ Put(Current, number).rounds = 0
    BY <1>2, <1>5, PutIs
  <1>8. Ran /\ result' = result
    BY DEF Compute
  <1>9. RunsNode(Put(Current, number))
    BY <1>0, <1>1, <1>6, <1>7, <1>8 DEF RunsNode
  <1> QED
    BY <1>6, <1>9

LEMMA EmitRuns ==
    ASSUME MachineIInv, Emit
    PROVE  \E g \in Frames : RunsNode(g)
  <1>0. AtNode /\ mode = "running"
    BY DEF Emit, AtNode
  <1> DEFINE status == StatusOf(Current, NodeAt(Current).args[1])
  <1>1. /\ package' = package /\ mode' = mode /\ entry' = entry
        /\ frames' = Append(Front(frames), Emitted(RecipeAt(Current), package.tables, Current, status))
        /\ NodeAt(Current).op = "emit" /\ ~AtEnd(Current)
    BY DEF Emit, Replace, Emitted, NodeAt
  <1>2. /\ package \in Packages /\ Accepts(package) /\ frames # <<>> /\ StackSound(package, frames)
        /\ entry \in [recipe : Nat, given : Statuses]
        /\ Current \in Frames /\ FrameSound(package, Current)
        /\ RecipeAt(Current) = package.recipes[Current.recipe]
    BY <1>0, Running
  <1>3. /\ Current.next <= Len(package.recipes[Current.recipe].nodes)
        /\ NodeAt(Current) = package.recipes[Current.recipe].nodes[Current.next]
    BY <1>0, <1>2, NodeKnown
  <1>4. NodeAt(Current).aux = 1 => status \in Statuses
    BY <1>1, <1>2, EmittedStatus
  <1> HIDE DEF status
  <1> DEFINE g == Emitted(RecipeAt(Current), package.tables, Current, status)
  <1>5. g \in Frames /\ FrameSound(package, g) /\ g.recipe = Current.recipe
    BY <1>1, <1>2, <1>3, <1>4, EmittedSound, ZenonT(30)
  <1>6. g.next = Current.next + 1 /\ g.rounds = 0
    BY <1>2, EmittedMoves
  <1>7. Ran /\ result' = result
    BY DEF Emit
  <1>8. frames' = Append(Front(frames), g)
    BY <1>1
  <1> HIDE DEF g
  <1>9. RunsNode(g)
    BY <1>0, <1>1, <1>5, <1>6, <1>7, <1>8 DEF RunsNode
  <1> QED
    BY <1>5, <1>9

LEMMA EndIterateRuns ==
    ASSUME MachineIInv, EndIterate
    PROVE  \E g \in Frames : RunsNode(g)
  <1>0. AtNode /\ mode = "running"
    BY DEF EndIterate, AtNode
  <1>1. /\ package' = package /\ mode' = mode /\ entry' = entry
        /\ frames' = Append(Front(frames), Put(Current, NoStatus))
        /\ NodeAt(Current).op = "iterate" /\ ~AtEnd(Current)
    BY DEF EndIterate, Replace
  <1>2. /\ package \in Packages /\ Accepts(package) /\ frames # <<>> /\ StackSound(package, frames)
        /\ Current \in Frames /\ FrameSound(package, Current)
        /\ RecipeAt(Current) = package.recipes[Current.recipe]
        /\ Current.recipe \in DOMAIN package.recipes
    BY <1>0, Running
  <1>3. /\ Current.next <= Len(package.recipes[Current.recipe].nodes)
        /\ NodeAt(Current) = package.recipes[Current.recipe].nodes[Current.next]
        /\ Current.next \in DOMAIN package.recipes[Current.recipe].nodes
    BY <1>0, <1>2, NodeKnown
  <1>4. ValueShape(package, package.recipes[Current.recipe], Current.next).type # "STATUS"
    BY <1>1, <1>2, <1>3, IterateIsNoStatus
  <1>6. Put(Current, NoStatus) \in Frames /\ FrameSound(package, Put(Current, NoStatus))
    BY <1>1, <1>2, <1>3, <1>4, PutSound, StatusesAre
  <1>7. /\ Put(Current, NoStatus).recipe = Current.recipe
        /\ Put(Current, NoStatus).next = Current.next + 1 /\ Put(Current, NoStatus).rounds = 0
    BY <1>2, PutIs, StatusesAre
  <1>8. Ran /\ result' = result /\ Current.rounds = NodeAt(Current).imm
    BY DEF EndIterate
  <1>9. RunsNode(Put(Current, NoStatus))
    BY <1>0, <1>1, <1>6, <1>7, <1>8 DEF RunsNode
  <1> QED
    BY <1>6, <1>9

(* A round of a body: the frame that waits.                                *)
Waiting(f) == [f EXCEPT !.rounds = @ + 1]

LEMMA WaitingIs ==
    ASSUME NEW f \in Frames
    PROVE  /\ Waiting(f) \in Frames
           /\ Waiting(f).recipe = f.recipe /\ Waiting(f).next = f.next
           /\ Waiting(f).statuses = f.statuses /\ Waiting(f).written = f.written
           /\ Waiting(f).status = f.status /\ Waiting(f).rounds = f.rounds + 1
  <1>1. /\ f.rounds + 1 \in Nat /\ DOMAIN f = FrameFields /\ f.recipe \in Nat /\ f.next \in Nat
        /\ f.statuses \in Seq(Int) /\ f.written \in SUBSET (Nat \X Nat) /\ f.status \in Int
    BY FrameKnown
  <1>2. Waiting(f) \in Frames
    BY <1>1 DEF Waiting, Frames
  <1>3. /\ Waiting(f).recipe = f.recipe /\ Waiting(f).next = f.next
        /\ Waiting(f).statuses = f.statuses /\ Waiting(f).written = f.written
        /\ Waiting(f).status = f.status /\ Waiting(f).rounds = f.rounds + 1
    BY <1>1 DEF Waiting, FrameFields
  <1> QED
    BY <1>2, <1>3

LEMMA WaitingSound ==
    ASSUME NEW p \in Packages, NEW f \in Frames, FrameSound(p, f),
           f.next <= Len(p.recipes[f.recipe].nodes),
           p.recipes[f.recipe].nodes[f.next].op = "iterate",
           f.rounds < p.recipes[f.recipe].nodes[f.next].imm
    PROVE  FrameSound(p, Waiting(f)) /\ Waiting(f).rounds # 0
  <1> DEFINE c == p.recipes[f.recipe]
             g == Waiting(f)
  <1>1. /\ g.recipe = f.recipe /\ g.next = f.next
        /\ g.statuses = f.statuses /\ g.written = f.written
        /\ g.status = f.status /\ g.rounds = f.rounds + 1
    BY WaitingIs
  <1>2. f.recipe \in DOMAIN p.recipes /\ FrameAt(c, f) /\ FrameDid(p, c, f)
    BY DEF FrameSound
  <1>3. f.rounds \in Nat /\ c.nodes[f.next].imm \in Nat
    <2>1. c \in Recipes
      BY <1>2, PackageKnown
    <2>2. f.next \in 1 .. Len(c.nodes) + 1
      BY <1>2 DEF FrameAt
    <2>3. f.next \in DOMAIN c.nodes
      <3>1. Len(c.nodes) \in Nat /\ DOMAIN c.nodes = 1 .. Len(c.nodes) /\ f.next <= Len(c.nodes)
        BY <2>1, RecipeKnown
      <3> HIDE DEF c
      <3> QED
        BY <2>2, <3>1
    <2>4. c.nodes[f.next] \in Records
      BY <2>1, <2>3, RecipeKnown
    <2> QED
      BY <2>4, RecordKnown, FrameKnown
  <1>4. f.next <= Len(c.nodes) /\ c.nodes[f.next].op = "iterate" /\ f.rounds < c.nodes[f.next].imm
    OBVIOUS
  <1> HIDE DEF c, g
  <1>5. FrameAt(c, g) /\ g.rounds # 0
    BY <1>1, <1>2, <1>3, <1>4 DEF FrameAt
  <1>6. FrameDid(p, c, g)
    BY <1>1, <1>2 DEF FrameDid
  <1> QED
    BY <1>1, <1>2, <1>5, <1>6 DEF FrameSound, c, g

LEMMA CallBodyKept ==
    ASSUME MachineIInv, CallBody
    PROVE  MachineIInv'
  <1>0. AtNode /\ mode = "running"
    BY DEF CallBody, AtNode
  <1> DEFINE body == NodeAt(Current).aux
             waiting == Append(Front(frames), Waiting(Current))
  <1>1. /\ package' = package /\ mode' = mode /\ entry' = entry
        /\ frames' = Append(waiting, Frame(body))
        /\ NodeAt(Current).op = "iterate" /\ Current.rounds < NodeAt(Current).imm
    BY DEF CallBody, Replace, Waiting
  <1>2. /\ package \in Packages /\ Accepts(package) /\ frames # <<>> /\ StackSound(package, frames)
        /\ Current \in Frames /\ FrameSound(package, Current) /\ frames \in Seq(Frames)
        /\ RecipeAt(Current) = package.recipes[Current.recipe]
        /\ Current.recipe \in DOMAIN package.recipes
    BY <1>0, Running
  <1>3. /\ Current.next <= Len(package.recipes[Current.recipe].nodes)
        /\ NodeAt(Current) = package.recipes[Current.recipe].nodes[Current.next]
        /\ Current.next \in DOMAIN package.recipes[Current.recipe].nodes
    BY <1>0, <1>2, NodeKnown
  <1>4. body \in DOMAIN package.recipes
    BY <1>1, <1>2, <1>3, IterateIsNoStatus, Zenon
  <1>5. /\ Waiting(Current) \in Frames /\ FrameSound(package, Waiting(Current))
        /\ Waiting(Current).rounds # 0
        /\ Waiting(Current).recipe = Current.recipe /\ Waiting(Current).next = Current.next
    BY <1>1, <1>2, <1>3, WaitingIs, WaitingSound, Zenon
  <1>6. /\ StackSound(package, waiting) /\ waiting # <<>>
        /\ waiting[1].recipe = frames[1].recipe
    BY <1>2, <1>5, StackReplaced DEF Current
  <1>7. Last(waiting) = Waiting(Current)
    BY <1>2, <1>5, TopReplaced
  <1>8. Frame(body) \in Frames /\ FrameSound(package, Frame(body)) /\ Frame(body).recipe = body
    BY <1>2, <1>4, FrameBegins, SMTT(20)
  <1>9. Calling(package, Waiting(Current), Frame(body))
    BY <1>3, <1>5, <1>8 DEF Calling
  <1> HIDE DEF waiting
  <1>10. /\ StackSound(package, Append(waiting, Frame(body))) /\ Append(waiting, Frame(body)) # <<>>
         /\ Append(waiting, Frame(body))[1].recipe = waiting[1].recipe
    BY <1>6, <1>7, <1>8, <1>9, StackPushed
  <1>11. /\ StackSound(package, frames') /\ frames' # <<>>
         /\ frames'[1].recipe = frames[1].recipe
    BY <1>1, <1>6, <1>10
  <1> QED
    BY <1>0, <1>1, <1>11, StackMoved

(* The evaluation is over.                                                 *)
LEMMA EndedKept ==
    ASSUME MachineIInv, mode = "running", package' = package, entry' = entry,
           mode' = "done", frames' = <<>>
    PROVE  MachineIInv'
  <1>1. StackSound(package', frames')
    <2>1. frames' \in Seq(Frames) /\ 1 .. Len(frames') = {} /\ 1 .. Len(frames') - 1 = {}
      OBVIOUS
    <2> QED
      BY <2>1 DEF StackSound
  <1> QED
    BY <1>1 DEF MachineIInv

LEMMA LimitKept ==
    ASSUME MachineIInv, Limit
    PROVE  MachineIInv'
  BY EndedKept DEF Limit, Fail

LEMMA FinishKept ==
    ASSUME MachineIInv, Finish
    PROVE  MachineIInv'
  <1>1. mode = "running" /\ package' = package /\ entry' = entry
    BY DEF Finish
  <1>2. CASE mode' = "done" /\ frames' = <<>>
    BY <1>1, <1>2, EndedKept
  <1>3. CASE Len(frames) > 1 /\ frames' = Front(frames) /\ mode' = mode
    <2>1. StackSound(package, frames) /\ frames # <<>>
      BY <1>1, Running
    <2>2. StackSound(package, frames') /\ frames' # <<>> /\ frames'[1] = frames[1]
      BY <1>3, <2>1, StackPopped
    <2> QED
      BY <1>1, <1>3, <2>2, StackMoved
  <1>4. (mode' = "done" /\ frames' = <<>>) \/ (Len(frames) > 1 /\ frames' = Front(frames) /\ mode' = mode)
    BY DEF Finish, Fail
  <1> QED
    BY <1>2, <1>3, <1>4

LEMMA MachineKept == MachineIInv /\ [MachineNext]_machine => MachineIInv'
  <1> SUFFICES ASSUME MachineIInv, [MachineNext]_machine PROVE MachineIInv'
    OBVIOUS
  <1>1. CASE UNCHANGED machine
    BY <1>1 DEF machine, MachineIInv
  <1>2. CASE Decode
    BY <1>2, DecodeKept
  <1>3. CASE \E r \in 1 .. Len(package.recipes) + 1, fits \in BOOLEAN, given \in Statuses :
                 Evaluate(r, fits, given)
    BY <1>3, EvaluateKept
  <1>4. CASE \E number \in Statuses \cup {NoStatus} : Compute(number)
    BY <1>4, ComputeRuns, NodeRunKept
  <1>5. CASE Emit
    BY <1>5, EmitRuns, NodeRunKept
  <1>6. CASE Limit
    BY <1>6, LimitKept
  <1>7. CASE CallBody
    BY <1>7, CallBodyKept
  <1>8. CASE EndIterate
    BY <1>8, EndIterateRuns, NodeRunKept
  <1>9. CASE Finish
    BY <1>9, FinishKept
  <1> QED
    BY <1>1, <1>2, <1>3, <1>4, <1>5, <1>6, <1>7, <1>8, <1>9 DEF MachineNext

LEMMA MachineInvariant == MachineSpec => []MachineIInv
  BY MachineOpens, MachineKept, PTL DEF MachineSpec

-----------------------------------------------------------------------------
(* A recipe that has run to its end has covered its outputs.               *)

LEMMA AllWritten ==
    ASSUME NEW c \in Recipes, NEW tables, Covered(c, tables)
    PROVE  WrittenBefore(c, tables, Len(c.nodes) + 1) = Units(c)
  <1>1. Len(c.nodes) \in Nat /\ DOMAIN c.nodes = 1 .. Len(c.nodes)
    BY RecipeKnown
  <1>2. {m \in 1 .. (Len(c.nodes) + 1) - 1 : c.nodes[m].op = "emit"} = Emits(c)
    <2>1. (Len(c.nodes) + 1) - 1 = Len(c.nodes)
      BY <1>1
    <2> QED
      BY <1>1, <2>1 DEF Emits
  <1>3. UNION {[m \in Emits(c) |-> Written(c, tables, m)][n] : n \in Emits(c)} = Units(c)
    BY DEF Covered
  <1>4. {[m \in Emits(c) |-> Written(c, tables, m)][n] : n \in Emits(c)}
          = {Written(c, tables, n) : n \in Emits(c)}
    OBVIOUS
  <1> QED
    BY <1>2, <1>3, <1>4 DEF WrittenBefore

(* The status is the first output's only unit that it takes.               *)
LEMMA StatusWritten ==
    ASSUME NEW c \in Recipes, NEW tables, Covered(c, tables), InterfaceSound(c)
    PROVE  \E n \in 1 .. Len(c.nodes) : c.nodes[n].op = "emit" /\ c.nodes[n].aux = 1
  <1>1. c.outputs[1] = Status /\ 1 \in DOMAIN c.outputs
    BY RecipeKnown DEF InterfaceSound
  <1>2. <<1, 0>> \in Units(c)
    <2>1. 0 \in 0 .. c.outputs[1].width - 1
      BY <1>1 DEF Status, Shape
    <2> QED
      BY <1>1, <2>1 DEF Units
  <1>3. \E n \in Emits(c) : <<1, 0>> \in Written(c, tables, n)
    BY <1>2 DEF Covered
  <1>4. PICK n \in Emits(c) : <<1, 0>> \in Written(c, tables, n)
    BY <1>3
  <1>5. c.nodes[n].aux = 1
    BY <1>4 DEF Written
  <1>6. n \in 1 .. Len(c.nodes) /\ c.nodes[n].op = "emit"
    BY RecipeKnown DEF Emits
  <1> QED
    BY <1>5, <1>6

(* The end of every recipe finds its outputs covered and a status in the   *)
(* first of them: the last check of the evaluator never fires.             *)
THEOREM CoverageIsComplete == MachineSpec => []CoverageComplete
  <1>1. MachineIInv => CoverageComplete
    <2> SUFFICES ASSUME MachineIInv, mode = "running", AtEnd(Current)
                 PROVE  /\ Current.written = Units(RecipeAt(Current))
                        /\ Current.status \in Statuses
      BY DEF CoverageComplete
    <2> DEFINE c == RecipeAt(Current)
               N == Len(c.nodes)
    <2>1. /\ package \in Packages /\ Accepts(package) /\ Current \in Frames
          /\ FrameSound(package, Current) /\ c = package.recipes[Current.recipe]
          /\ Current.recipe \in DOMAIN package.recipes /\ c \in Recipes
      BY Running
    <2>2. Covered(c, package.tables) /\ InterfaceSound(c)
      BY <2>1, AllSane DEF Sane
    <2>3. FrameAt(c, Current) /\ FrameDid(package, c, Current)
      BY <2>1 DEF FrameSound
    <2>4. N \in Nat
      BY <2>1, RecipeKnown
    <2>5. Current.next \in 1 .. N + 1 /\ Current.next > N
      BY <2>3 DEF FrameAt, AtEnd
    <2>8. Current.written = WrittenBefore(c, package.tables, Current.next)
      BY <2>3 DEF FrameDid
    <2>9. PICK n \in 1 .. N : c.nodes[n].op = "emit" /\ c.nodes[n].aux = 1
      BY <2>1, <2>2, StatusWritten
    <2>10. WrittenBefore(c, package.tables, N + 1) = Units(c)
      BY <2>1, <2>2, AllWritten
    <2> HIDE DEF N, c
    <2>6. Current.next = N + 1
      BY <2>4, <2>5
    <2>7. n \in 1 .. Current.next - 1
      BY <2>4, <2>6
    <2>11. Current.status \in Statuses
      BY <2>3, <2>7, <2>9 DEF FrameDid
    <2>12. Current.written = Units(c)
      BY <2>6, <2>8, <2>10
    <2> QED
      BY <2>11, <2>12 DEF c
  <1> QED
    BY <1>1, MachineInvariant, PTL

-----------------------------------------------------------------------------
(* The declared steps of a recipe are the sum of what its nodes cost.      *)

Costs(p, r) ==
    [n \in DOMAIN p.recipes[r].nodes |->
        LET node == p.recipes[r].nodes[n]
        IN 1 + IF node.op = "iterate" THEN node.imm * p.recipes[node.aux].steps ELSE 0]

LEMMA BeforeIs ==
    ASSUME NEW p \in Packages, NEW r \in DOMAIN p.recipes
    PROVE  /\ DOMAIN SubSeq(p.recipes, 1, r - 1) = 1 .. r - 1
           /\ \A i \in 1 .. r - 1 : SubSeq(p.recipes, 1, r - 1)[i] = p.recipes[i]
  <1>1. p.recipes \in Seq(Recipes) /\ r \in 1 .. Len(p.recipes) /\ Len(p.recipes) \in Nat
    BY PackageKnown, PackagesTyped
  <1>2. ASSUME NEW s \in Seq(Recipes), NEW m \in 1 .. Len(s)
        PROVE  /\ DOMAIN SubSeq(s, 1, m - 1) = 1 .. m - 1
               /\ \A i \in 1 .. m - 1 : SubSeq(s, 1, m - 1)[i] = s[i]
    OBVIOUS
  <1> QED
    BY <1>1, <1>2, Zenon

LEMMA IterateKnown ==
    ASSUME NEW p \in Packages, Accepts(p), NEW r \in DOMAIN p.recipes,
           NEW n \in DOMAIN p.recipes[r].nodes
    PROVE  /\ p.recipes[r].nodes[n].imm \in Nat
           /\ p.recipes[r].nodes[n].op = "iterate" =>
                /\ p.recipes[r].nodes[n].aux \in 1 .. r - 1
                /\ p.recipes[p.recipes[r].nodes[n].aux].steps \in Nat
                /\ p.recipes[p.recipes[r].nodes[n].aux].peak \in Nat
  <1>1. p.recipes[r].nodes[n].imm \in Nat
    BY PackageKnown, RecipeKnown, RecordKnown
  <1>2. p.recipes[r].nodes[n].op = "iterate" =>
                /\ p.recipes[r].nodes[n].aux \in 1 .. r - 1
                /\ p.recipes[r].nodes[n].aux \in DOMAIN p.recipes
    BY IterateIsNoStatus
  <1>3. \A b \in DOMAIN p.recipes : p.recipes[b].steps \in Nat /\ p.recipes[b].peak \in Nat
    BY PackageKnown, RecipeKnown
  <1> QED
    BY <1>1, <1>2, <1>3

LEMMA CostsKnown ==
    ASSUME NEW p \in Packages, Accepts(p), NEW r \in DOMAIN p.recipes
    PROVE  /\ Weights(Costs(p, r), Len(p.recipes[r].nodes))
           /\ p.recipes[r].steps = SumFunctionOnSet(Costs(p, r), 1 .. Len(p.recipes[r].nodes))
           /\ \A n \in DOMAIN p.recipes[r].nodes :
                Costs(p, r)[n] = IF p.recipes[r].nodes[n].op = "iterate"
                                 THEN 1 + p.recipes[r].nodes[n].imm
                                            * p.recipes[p.recipes[r].nodes[n].aux].steps
                                 ELSE 1
  <1> DEFINE c == p.recipes[r]
             N == Len(c.nodes)
             cost == Costs(p, r)
             before == SubSeq(p.recipes, 1, r - 1)
             declared == [i \in DOMAIN before |-> before[i].steps]
             summed == [n \in DOMAIN c.nodes |->
                          LET node == c.nodes[n]
                          IN 1 + IF node.op = "iterate" THEN node.imm * declared[node.aux] ELSE 0]
  <1>1. c \in Recipes /\ N \in Nat /\ DOMAIN c.nodes = 1 .. N
    BY PackageKnown, RecipeKnown
  <1>2. \A n \in DOMAIN c.nodes : cost[n] = 1 + IF c.nodes[n].op = "iterate"
                                 THEN c.nodes[n].imm * p.recipes[c.nodes[n].aux].steps
                                 ELSE 0
    BY DEF Costs
  <1>3. ASSUME NEW n \in DOMAIN c.nodes
        PROVE  /\ c.nodes[n].imm \in Nat
               /\ c.nodes[n].op = "iterate" =>
                    /\ c.nodes[n].aux \in 1 .. r - 1
                    /\ p.recipes[c.nodes[n].aux].steps \in Nat
    BY IterateKnown
  <1>4. /\ DOMAIN before = 1 .. r - 1
        /\ \A i \in 1 .. r - 1 : before[i] = p.recipes[i]
    BY BeforeIs
  <1>5. \A i \in 1 .. r - 1 : declared[i] = p.recipes[i].steps
    BY <1>4
  <1>6. c.steps = SumFunction(summed)
    <2>1. Resources(p, r)
      BY AllSane DEF Sane
    <2> QED
      BY <2>1, Zenon DEF Resources, Steps
  <1> HIDE DEF declared, before
  <1>7. summed = cost
    <2>1. ASSUME NEW n \in DOMAIN c.nodes
          PROVE  1 + (IF c.nodes[n].op = "iterate" THEN c.nodes[n].imm * declared[c.nodes[n].aux] ELSE 0)
                   = 1 + IF c.nodes[n].op = "iterate"
                         THEN c.nodes[n].imm * p.recipes[c.nodes[n].aux].steps ELSE 0
      BY <1>3, <1>5
    <2> QED
      BY <2>1, Zenon DEF Costs
  <1> HIDE DEF summed
  <1>8. c.steps = SumFunctionOnSet(cost, 1 .. N)
    <2>1. DOMAIN cost = 1 .. N
      BY <1>1 DEF Costs
    <2> QED
      BY <1>6, <1>7, <2>1 DEF SumFunction
  <1> HIDE DEF cost, c, N
  <1>10. \A i, s \in Nat : i * s \in Nat
    OBVIOUS
  <1>9. \A n \in DOMAIN c.nodes :
            /\ cost[n] = IF c.nodes[n].op = "iterate"
                         THEN 1 + c.nodes[n].imm * p.recipes[c.nodes[n].aux].steps ELSE 1
            /\ cost[n] \in Nat
    BY <1>2, <1>3, <1>10
  <1> QED
    BY <1>1, <1>8, <1>9, Zenon DEF Weights, cost, c, N

-----------------------------------------------------------------------------
(* What a frame still owes of the declared steps.                          *)

Rest(p, f) == SumFunctionOnSet(Costs(p, f.recipe), f.next .. Len(p.recipes[f.recipe].nodes))

Paid(p, f) ==
    IF f.rounds = 0 THEN 0
    ELSE f.rounds * p.recipes[p.recipes[f.recipe].nodes[f.next].aux].steps

Owed(p, f) == Rest(p, f) - Paid(p, f)

(* The sum from a node on is what that node costs and the sum from the     *)
(* next one on.                                                            *)
LEMMA RestFrom ==
    ASSUME NEW p \in Packages, Accepts(p), NEW r \in DOMAIN p.recipes
    PROVE  /\ \A n \in 1 .. Len(p.recipes[r].nodes) + 1 :
                SumFunctionOnSet(Costs(p, r), n .. Len(p.recipes[r].nodes)) \in Nat
           /\ \A n \in 1 .. Len(p.recipes[r].nodes) :
                SumFunctionOnSet(Costs(p, r), n .. Len(p.recipes[r].nodes))
                  = Costs(p, r)[n]
                      + SumFunctionOnSet(Costs(p, r), n + 1 .. Len(p.recipes[r].nodes))
           /\ SumFunctionOnSet(Costs(p, r),
                Len(p.recipes[r].nodes) + 1 .. Len(p.recipes[r].nodes)) = 0
  <1> DEFINE N == Len(p.recipes[r].nodes)
             cost == Costs(p, r)
  <1>1. N \in Nat
    BY PackageKnown, RecipeKnown
  <1>2. Weights(cost, N)
    BY CostsKnown
  <1> HIDE DEF N, cost
  <1>3. ASSUME NEW n \in 1 .. N + 1 PROVE SumFunctionOnSet(cost, n .. N) \in Nat
    <2>1. n .. N \in SUBSET (1 .. N)
      BY <1>1
    <2> QED
      BY <1>1, <1>2, <2>1, SumTakes
  <1>4. ASSUME NEW n \in 1 .. N
        PROVE  SumFunctionOnSet(cost, n .. N) = cost[n] + SumFunctionOnSet(cost, n + 1 .. N)
    <2>1. n .. N \in SUBSET (1 .. N) /\ n \in n .. N /\ (n .. N) \ {n} = n + 1 .. N
      BY <1>1
    <2>2. SumFunctionOnSet(cost, n .. N) = cost[n] + SumFunctionOnSet(cost, (n .. N) \ {n})
      BY <1>1, <1>2, <2>1, SumTakes
    <2> QED
      BY <2>1, <2>2
  <1>5. SumFunctionOnSet(cost, N + 1 .. N) = 0
    <2>1. N + 1 .. N = {}
      BY <1>1
    <2> QED
      BY <2>1, NoSum
  <1> QED
    BY <1>3, <1>4, <1>5 DEF N, cost

(* Products of naturals, as far as they are needed.                        *)
LEMMA Products ==
    ASSUME NEW a \in Nat, NEW b \in Nat, NEW s \in Nat
    PROVE  /\ a * s \in Nat
           /\ (a + 1) * s = a * s + s
           /\ a <= b => a * s <= b * s
  <1>1. a * s \in Nat /\ (a + 1) * s = a * s + s
    OBVIOUS
  <1>2. ASSUME a <= b PROVE a * s <= b * s
    <2>1. b - a \in Nat /\ b = a + (b - a)
      BY <1>2
    <2>2. (b - a) * s \in Nat
      BY <2>1
    <2>3. b * s = a * s + (b - a) * s
      BY <2>1
    <2> QED
      BY <1>1, <2>2, <2>3
  <1> QED
    BY <1>1, <1>2

(* A frame at a node, and the figures it meets there.                      *)
LEMMA OwedAt ==
    ASSUME NEW p \in Packages, Accepts(p), NEW f \in Frames, FrameSound(p, f)
    PROVE  /\ Owed(p, f) \in Nat
           /\ f.next > Len(p.recipes[f.recipe].nodes) => Owed(p, f) = 0
           /\ f.next <= Len(p.recipes[f.recipe].nodes) => Owed(p, f) >= 1
  <1> DEFINE c == p.recipes[f.recipe]
             r == f.recipe
             N == Len(c.nodes)
             n == f.next
             cost == Costs(p, r)
             body == p.recipes[c.nodes[n].aux].steps
             Sum(k) == SumFunctionOnSet(cost, k .. N)
  <1>1. r \in DOMAIN p.recipes /\ FrameAt(c, f) /\ c \in Recipes
    BY PackageKnown DEF FrameSound
  <1>2. N \in Nat /\ DOMAIN c.nodes = 1 .. N
    BY <1>1, RecipeKnown
  <1>3. n \in 1 .. N + 1 /\ f.rounds \in Nat
        /\ (f.rounds # 0 => n <= N /\ c.nodes[n].op = "iterate" /\ f.rounds <= c.nodes[n].imm)
    BY <1>1, FrameKnown DEF FrameAt
  <1>4. /\ \A k \in 1 .. N + 1 : Sum(k) \in Nat
        /\ \A k \in 1 .. N : Sum(k) = cost[k] + Sum(k + 1)
        /\ Sum(N + 1) = 0
    BY <1>1, RestFrom
  <1>5. \A k \in 1 .. N : cost[k] = IF c.nodes[k].op = "iterate"
                                    THEN 1 + c.nodes[k].imm * p.recipes[c.nodes[k].aux].steps ELSE 1
    BY <1>1, <1>2, CostsKnown
  <1>6. n \in 1 .. N => /\ c.nodes[n].imm \in Nat
                        /\ c.nodes[n].op = "iterate" => body \in Nat
    BY <1>1, <1>2, IterateKnown, Zenon
  <1>7. Owed(p, f) = Sum(n) - IF f.rounds = 0 THEN 0 ELSE f.rounds * body
    BY DEF Owed, Rest, Paid
  <1> HIDE DEF c, r, N, n, cost, body, Sum
  <1>8. CASE n > N
    <2>1. n = N + 1 /\ f.rounds = 0
      BY <1>2, <1>3, <1>8
    <2>2. Owed(p, f) = 0
      BY <1>4, <1>7, <2>1
    <2> QED
      BY <1>2, <1>3, <1>8, <2>2 DEF n, N, c
  <1>9. CASE n <= N
    <2>1. n \in 1 .. N /\ n + 1 \in 1 .. N + 1
      BY <1>2, <1>3, <1>9
    <2>2. Sum(n) = cost[n] + Sum(n + 1) /\ Sum(n + 1) \in Nat
      BY <1>4, <2>1
    <2>3. CASE f.rounds = 0
      <3>1. Owed(p, f) = cost[n] + Sum(n + 1)
        <4>1. cost[n] \in Nat
          <5>1. c.nodes[n].op = "iterate" => c.nodes[n].imm * body \in Nat
            BY <1>6, <2>1, Products
          <5> QED
            BY <1>5, <2>1, <5>1 DEF body
        <4> QED
          BY <1>7, <2>2, <2>3, <4>1
      <3>2. cost[n] \in Nat /\ cost[n] >= 1
        <4>1. c.nodes[n].op = "iterate" => c.nodes[n].imm * body \in Nat
          BY <1>6, <2>1, Products
        <4> QED
          BY <1>5, <2>1, <4>1 DEF body
      <3>3. Owed(p, f) \in Nat /\ Owed(p, f) >= 1
        BY <2>2, <3>1, <3>2
      <3> QED
        BY <1>2, <1>3, <1>9, <3>3 DEF n, N, c
    <2>4. CASE f.rounds # 0
      <3>1. /\ c.nodes[n].op = "iterate" /\ body \in Nat /\ c.nodes[n].imm \in Nat
            /\ f.rounds <= c.nodes[n].imm
        BY <1>3, <1>6, <2>1, <2>4
      <3>2. cost[n] = 1 + c.nodes[n].imm * body
        BY <1>5, <2>1, <3>1 DEF body
      <3>3. /\ f.rounds * body \in Nat /\ c.nodes[n].imm * body \in Nat
            /\ f.rounds * body <= c.nodes[n].imm * body
        BY <1>3, <3>1, Products
      <3>4. Owed(p, f) = Sum(n) - f.rounds * body
        BY <1>7, <2>4
      <3> DEFINE a == f.rounds * body
                 b == c.nodes[n].imm * body
      <3> HIDE DEF a, b
      <3>5. Owed(p, f) = (1 + b + Sum(n + 1)) - a /\ a \in Nat /\ b \in Nat /\ a <= b
        BY <2>2, <3>2, <3>3, <3>4 DEF a, b
      <3>6. Owed(p, f) \in Nat /\ Owed(p, f) >= 1
        BY <2>2, <3>5
      <3> QED
        BY <1>2, <1>3, <1>9, <3>6 DEF n, N, c
    <2> QED
      BY <2>3, <2>4
  <1> QED
    BY <1>2, <1>3, <1>8, <1>9

(* A node that has run takes one step off, besides the rounds of a body.   *)
LEMMA OwedNext ==
    ASSUME NEW p \in Packages, Accepts(p), NEW f \in Frames, FrameSound(p, f),
           f.next <= Len(p.recipes[f.recipe].nodes),
           p.recipes[f.recipe].nodes[f.next].op = "iterate" =>
              f.rounds = p.recipes[f.recipe].nodes[f.next].imm,
           NEW g, g.recipe = f.recipe, g.next = f.next + 1, g.rounds = 0
    PROVE  Owed(p, f) = Owed(p, g) + 1
  <1> DEFINE c == p.recipes[f.recipe]
             r == f.recipe
             N == Len(c.nodes)
             n == f.next
             cost == Costs(p, r)
             body == p.recipes[c.nodes[n].aux].steps
             Sum(k) == SumFunctionOnSet(cost, k .. N)
  <1>1. r \in DOMAIN p.recipes /\ FrameAt(c, f) /\ c \in Recipes
    BY PackageKnown DEF FrameSound
  <1>2. N \in Nat /\ DOMAIN c.nodes = 1 .. N
    BY <1>1, RecipeKnown
  <1>3. n \in 1 .. N + 1 /\ n <= N /\ f.rounds \in Nat
        /\ (f.rounds # 0 => c.nodes[n].op = "iterate")
        /\ (c.nodes[n].op = "iterate" => f.rounds = c.nodes[n].imm)
    BY <1>1, FrameKnown DEF FrameAt
  <1>4. /\ \A k \in 1 .. N + 1 : Sum(k) \in Nat
        /\ \A k \in 1 .. N : Sum(k) = cost[k] + Sum(k + 1)
    BY <1>1, RestFrom
  <1>5. \A k \in 1 .. N : cost[k] = IF c.nodes[k].op = "iterate"
                                    THEN 1 + c.nodes[k].imm * p.recipes[c.nodes[k].aux].steps ELSE 1
    BY <1>1, <1>2, CostsKnown
  <1>6. n \in 1 .. N => /\ c.nodes[n].imm \in Nat
                        /\ c.nodes[n].op = "iterate" => body \in Nat
    BY <1>1, <1>2, IterateKnown, Zenon
  <1>7. Owed(p, f) = Sum(n) - IF f.rounds = 0 THEN 0 ELSE f.rounds * body
    BY DEF Owed, Rest, Paid
  <1>8. Owed(p, g) = Sum(n + 1) - 0
    BY DEF Owed, Rest, Paid
  <1> HIDE DEF c, r, N, n, cost, body, Sum
  <1>9. n \in 1 .. N /\ n + 1 \in 1 .. N + 1
    BY <1>2, <1>3
  <1>10. Sum(n) = cost[n] + Sum(n + 1) /\ Sum(n + 1) \in Nat
    BY <1>4, <1>9
  <1>11. CASE c.nodes[n].op # "iterate"
    <2>1. cost[n] = 1 /\ f.rounds = 0
      BY <1>3, <1>5, <1>9, <1>11
    <2> QED
      BY <1>7, <1>8, <1>10, <2>1
  <1>12. CASE c.nodes[n].op = "iterate"
    <2>1. cost[n] = 1 + c.nodes[n].imm * body /\ f.rounds = c.nodes[n].imm
      BY <1>3, <1>5, <1>9, <1>12 DEF body
    <2>2. body \in Nat /\ c.nodes[n].imm \in Nat
      BY <1>6, <1>9, <1>12
    <2>3. c.nodes[n].imm * body \in Nat /\ (c.nodes[n].imm = 0 => c.nodes[n].imm * body = 0)
      BY <2>2
    <2> DEFINE a == c.nodes[n].imm * body
    <2> HIDE DEF a
    <2>4. Owed(p, f) = Sum(n) - a /\ cost[n] = 1 + a /\ a \in Nat
      BY <1>7, <1>10, <2>1, <2>3 DEF a
    <2> QED
      BY <1>8, <1>10, <2>4
  <1> QED
    BY <1>11, <1>12

(* A recipe that begins owes all its steps, and a round passes those of    *)
(* the body on.                                                            *)
LEMMA OwedBegin ==
    ASSUME NEW p \in Packages, Accepts(p), NEW r \in DOMAIN p.recipes
    PROVE  Owed(p, Frame(r)) = p.recipes[r].steps
  <1>1. Frame(r).recipe = r /\ Frame(r).next = 1 /\ Frame(r).rounds = 0
    BY DEF Frame
  <1>2. Owed(p, Frame(r)) = p.recipes[r].steps - 0
    BY <1>1, CostsKnown DEF Owed, Rest, Paid
  <1>3. p.recipes[r].steps \in Nat
    BY PackageKnown, RecipeKnown
  <1> QED
    BY <1>2, <1>3

LEMMA OwedWaiting ==
    ASSUME NEW p \in Packages, Accepts(p), NEW f \in Frames, FrameSound(p, f),
           f.next <= Len(p.recipes[f.recipe].nodes),
           p.recipes[f.recipe].nodes[f.next].op = "iterate"
    PROVE  Owed(p, f) = Owed(p, Waiting(f))
                          + p.recipes[p.recipes[f.recipe].nodes[f.next].aux].steps
  <1> DEFINE r == f.recipe
             n == f.next
             rest == Rest(p, f)
             body == p.recipes[p.recipes[r].nodes[n].aux].steps
  <1>1. Waiting(f).recipe = r /\ Waiting(f).next = n /\ Waiting(f).rounds = f.rounds + 1
        /\ f.rounds \in Nat
    BY WaitingIs, FrameKnown
  <1>2. r \in DOMAIN p.recipes /\ p.recipes[r] \in Recipes /\ n \in 1 .. Len(p.recipes[r].nodes) + 1
    BY PackageKnown DEF FrameSound, FrameAt
  <1>3. n \in DOMAIN p.recipes[r].nodes
    <2>1. Len(p.recipes[r].nodes) \in Nat /\ DOMAIN p.recipes[r].nodes = 1 .. Len(p.recipes[r].nodes)
          /\ n <= Len(p.recipes[r].nodes)
      BY <1>2, RecipeKnown
    <2> HIDE DEF n, r
    <2> QED
      BY <1>2, <2>1
  <1>4. body \in Nat
    BY <1>2, <1>3, IterateKnown, Zenon
  <1>5. rest \in Nat
    BY <1>2, RestFrom DEF Rest
  <1>6. Owed(p, f) = rest - (IF f.rounds = 0 THEN 0 ELSE f.rounds * body)
    BY DEF Owed, Paid
  <1>7. Owed(p, Waiting(f)) = rest - (f.rounds + 1) * body
    BY <1>1 DEF Owed, Paid, Rest
  <1> HIDE DEF r, n, rest, body
  <1>8. /\ f.rounds * body \in Nat /\ (f.rounds + 1) * body = f.rounds * body + body
        /\ (f.rounds = 0 => f.rounds * body = 0)
    BY <1>1, <1>4
  <1> DEFINE a == f.rounds * body
  <1> HIDE DEF a
  <1>9. Owed(p, f) = rest - a /\ Owed(p, Waiting(f)) = rest - (a + body) /\ a \in Nat
    BY <1>6, <1>7, <1>8 DEF a
  <1>10. Owed(p, f) = Owed(p, Waiting(f)) + body
    BY <1>4, <1>5, <1>9
  <1> QED
    BY <1>10 DEF body, r, n

-----------------------------------------------------------------------------
(* Last uses, and what is held.                                            *)

UsesOf(c, m) == {d \in DOMAIN c.nodes : Len(c.inputs) + m \in ToSet(c.nodes[d].args)}

LEMMA LastUseIs ==
    ASSUME NEW c \in Recipes, NEW m \in 1 .. Len(c.nodes)
    PROVE  /\ LastUse(c)[m] \in {m} \cup UsesOf(c, m)
           /\ \A d \in {m} \cup UsesOf(c, m) : d <= LastUse(c)[m]
           /\ LastUse(c)[m] \in 1 .. Len(c.nodes)
  <1> DEFINE N == Len(c.nodes)
             used == {m} \cup UsesOf(c, m)
  <1>1. N \in Nat /\ DOMAIN c.nodes = 1 .. N
    BY RecipeKnown
  <1>2. LastUse(c)[m] = Max(used)
    BY <1>1 DEF LastUse, UsesOf
  <1>3. used \in SUBSET (0 .. N) /\ used # {} /\ used \subseteq 1 .. N
    BY <1>1 DEF UsesOf
  <1> HIDE DEF used, N
  <1>4. Max(used) \in used /\ \A d \in used : d <= Max(used)
    BY <1>1, <1>3, LargestOf
  <1> QED
    BY <1>2, <1>3, <1>4 DEF used, N

LEMMA HeldIs ==
    ASSUME NEW c \in Recipes, NEW n \in 1 .. Len(c.nodes) + 1
    PROVE  HeldAt(c, n) = {m \in 1 .. n - 1 : LastUse(c)[m] >= n}
  <1> DEFINE N == Len(c.nodes)
             last == LastUse(c)
  <1>1. N \in Nat /\ DOMAIN c.nodes = 1 .. N
    BY RecipeKnown
  <1>2. ASSUME NEW m \in 1 .. n - 1
        PROVE  /\ last[m] \in {m} \cup UsesOf(c, m)
               /\ \A d \in {m} \cup UsesOf(c, m) : d <= last[m]
               /\ last[m] \in 1 .. N
    <2>1. m \in 1 .. N
      <3> HIDE DEF N
      <3>1. n \in 1 .. N + 1
        BY DEF N
      <3> QED
        BY <1>1, <3>1
    <2> QED
      BY <2>1, LastUseIs
  <1>3. ASSUME NEW m \in 1 .. n - 1
        PROVE  Len(c.inputs) + m \in UNION {ToSet(c.nodes[d].args) : d \in n .. N} <=> last[m] >= n
    <2>1. n .. N \subseteq 1 .. N /\ n \in Nat /\ m \in Nat /\ m < n
      BY <1>1
    <2>2. ASSUME NEW d \in n .. N, Len(c.inputs) + m \in ToSet(c.nodes[d].args) PROVE last[m] >= n
      <3>1. d \in UsesOf(c, m)
        BY <1>1, <2>1, <2>2 DEF UsesOf
      <3>2. d <= last[m] /\ last[m] \in 1 .. N
        BY <1>2, <3>1
      <3> HIDE DEF last, N
      <3> QED
        BY <1>1, <2>1, <3>2
    <2>3. ASSUME last[m] >= n
          PROVE  last[m] \in n .. N /\ Len(c.inputs) + m \in ToSet(c.nodes[last[m]].args)
      <3>1. last[m] # m /\ last[m] \in 1 .. N
        BY <1>2, <2>1, <2>3
      <3>2. last[m] \in UsesOf(c, m)
        BY <1>2, <3>1
      <3>3. last[m] \in n .. N
        BY <1>1, <2>1, <2>3, <3>1
      <3> QED
        BY <3>2, <3>3 DEF UsesOf
    <2> HIDE DEF last
    <2> QED
      BY <2>2, <2>3
  <1> HIDE DEF last
  <1>4. HeldAt(c, n) = {m \in 1 .. n - 1 :
                          Len(c.inputs) + m \in UNION {ToSet(c.nodes[d].args) : d \in n .. N}}
    BY DEF HeldAt
  <1>5. HeldAt(c, n) = {m \in 1 .. n - 1 : last[m] >= n}
    BY <1>3, <1>4
  <1> QED
    BY <1>5 DEF last

-----------------------------------------------------------------------------
(* The scratch that is held before a node, and the scan that derives it.   *)

HeldSum(p, c, n) == SumFunctionOnSet(Sizes(c, p.tables), HeldAt(c, n))

InnerOf(p, c, n) ==
    IF c.nodes[n].op = "iterate" THEN p.recipes[c.nodes[n].aux].peak ELSE 0

LEMMA SizesKnown ==
    ASSUME NEW p \in Packages, Accepts(p), NEW r \in DOMAIN p.recipes
    PROVE  Weights(Sizes(p.recipes[r], p.tables), Len(p.recipes[r].nodes))
  <1> DEFINE c == p.recipes[r]
  <1>1. c \in Recipes /\ Sane(p, r)
    BY PackageKnown, AllSane
  <1>2. DOMAIN c.nodes = 1 .. Len(c.nodes)
    BY <1>1, RecipeKnown
  <1>3. \A n \in DOMAIN c.nodes : Storage(Shapes(c, p.tables)[Len(c.inputs) + n]) \in Nat
    BY <1>1, StorageIsNumber
  <1>4. \A n \in DOMAIN c.nodes :
          Sizes(c, p.tables)[n] = Storage(Shapes(c, p.tables)[Len(c.inputs) + n])
    BY DEF Sizes
  <1> QED
    BY <1>2, <1>3, <1>4 DEF Weights

LEMMA HeldKnown ==
    ASSUME NEW p \in Packages, Accepts(p), NEW r \in DOMAIN p.recipes,
           NEW n \in 1 .. Len(p.recipes[r].nodes) + 1
    PROVE  /\ HeldAt(p.recipes[r], n) \in SUBSET (1 .. Len(p.recipes[r].nodes))
           /\ HeldSum(p, p.recipes[r], n) \in Nat
  <1> DEFINE c == p.recipes[r]
             N == Len(c.nodes)
  <1>1. c \in Recipes /\ N \in Nat /\ n \in 1 .. N + 1
    BY PackageKnown, RecipeKnown
  <1>2. HeldAt(c, n) \subseteq 1 .. n - 1
    BY DEF HeldAt
  <1>3. Weights(Sizes(c, p.tables), N)
    BY SizesKnown
  <1> HIDE DEF c, N
  <1>4. HeldAt(c, n) \in SUBSET (1 .. N)
    BY <1>1, <1>2
  <1>5. HeldSum(p, c, n) \in Nat
    BY <1>1, <1>3, <1>4, SumTakes DEF HeldSum
  <1> QED
    BY <1>4, <1>5 DEF c, N

(* What the recursion of the scan says.                                    *)
Opening == [peak |-> 0, live |-> {}, bytes |-> 0]

Before(p, r) == SubSeq(p.recipes, 1, r - 1)

Peaks(p, r) == [i \in DOMAIN Before(p, r) |-> Before(p, r)[i].peak]

ScanOf(c, tables, peaks, scan, n) ==
    IF n = 0 THEN Opening
    ELSE Visit(scan[n - 1], n, Sizes(c, tables), LastUse(c),
               IF c.nodes[n].op = "iterate" THEN peaks[c.nodes[n].aux] ELSE 0)

IsScan(c, tables, peaks, scan, m) ==
    scan = [n \in 0 .. m |-> ScanOf(c, tables, peaks, scan, n)]

LEMMA ScanChosen ==
    ASSUME NEW c, NEW tables, NEW peaks
    PROVE  Scan(c, tables, peaks) = CHOOSE scan : IsScan(c, tables, peaks, scan, Len(c.nodes))
  BY DEF Scan, IsScan, ScanOf, Opening

LEMMA ScanGrows ==
    ASSUME NEW c, NEW tables, NEW peaks, NEW m \in Nat,
           NEW old, IsScan(c, tables, peaks, old, m)
    PROVE  \E scan : IsScan(c, tables, peaks, scan, m + 1)
  <1> DEFINE scan == [n \in 0 .. m + 1 |->
                        IF n = m + 1 THEN ScanOf(c, tables, peaks, old, m + 1) ELSE old[n]]
  <1>1. /\ \A n \in 0 .. m : scan[n] = old[n]
        /\ scan[m + 1] = ScanOf(c, tables, peaks, old, m + 1)
        /\ \A n \in 0 .. m + 1 : n = m + 1 \/ n \in 0 .. m
        /\ scan = [n \in 0 .. m + 1 |-> scan[n]]
    OBVIOUS
  <1>2. \A n \in 0 .. m : old[n] = ScanOf(c, tables, peaks, old, n)
    BY Zenon DEF IsScan
  <1> HIDE DEF scan
  <1>3. ASSUME NEW n \in 0 .. m + 1
        PROVE  ScanOf(c, tables, peaks, scan, n) = ScanOf(c, tables, peaks, old, n)
    <2>1. n # 0 => n - 1 \in 0 .. m
      OBVIOUS
    <2>2. n # 0 => scan[n - 1] = old[n - 1]
      BY <1>1, <2>1
    <2> QED
      BY <2>2, Zenon DEF ScanOf
  <1>4. ASSUME NEW n \in 0 .. m + 1 PROVE scan[n] = ScanOf(c, tables, peaks, scan, n)
    <2>1. scan[n] = ScanOf(c, tables, peaks, old, n)
      BY <1>1, <1>2
    <2> QED
      BY <1>3, <2>1
  <1>5. IsScan(c, tables, peaks, scan, m + 1)
    BY <1>1, <1>4, Zenon DEF IsScan
  <1> QED
    BY <1>5

LEMMA ScanIs ==
    ASSUME NEW c, NEW tables, NEW peaks, Len(c.nodes) \in Nat
    PROVE  \A n \in 0 .. Len(c.nodes) :
              Scan(c, tables, peaks)[n] = ScanOf(c, tables, peaks, Scan(c, tables, peaks), n)
  <1> DEFINE N == Len(c.nodes)
             scan == Scan(c, tables, peaks)
             Good == {m \in Nat : \E s : IsScan(c, tables, peaks, s, m)}
  <1>1. 0 \in Good
    <2> DEFINE s == [n \in 0 .. 0 |-> Opening]
    <2>1. IsScan(c, tables, peaks, s, 0)
      <3>1. \A n \in 0 .. 0 : ScanOf(c, tables, peaks, s, n) = Opening
        BY DEF ScanOf
      <3> QED
        BY <3>1, Zenon DEF IsScan
    <2> QED
      BY <2>1
  <1>2. ASSUME NEW m \in Nat, m \in Good PROVE m + 1 \in Good
    <2>1. \E s : IsScan(c, tables, peaks, s, m + 1)
      BY <1>2, ScanGrows
    <2>2. m + 1 \in Nat
      OBVIOUS
    <2> QED
      BY <2>1, <2>2, Zenon
  <1> HIDE DEF Good
  <1>3. N \in Good
    BY <1>1, <1>2, EveryNumber
  <1>4. \E s : IsScan(c, tables, peaks, s, N)
    BY <1>3 DEF Good
  <1>5. IsScan(c, tables, peaks, scan, N)
    BY <1>4, ScanChosen
  <1> HIDE DEF scan
  <1>6. \A n \in 0 .. N : scan[n] = ScanOf(c, tables, peaks, scan, n)
    BY <1>5, Zenon DEF IsScan
  <1> QED
    BY <1>6 DEF scan

(* A visit keeps the books: what is live is what is held, its bytes are    *)
(* counted, and the peak is the worst so far.                              *)
ScanSound(p, c, at, n) ==
    /\ at.live = HeldAt(c, n + 1) /\ at.bytes = HeldSum(p, c, n + 1)
    /\ at.peak \in Nat
    /\ \A m \in 1 .. n :
          /\ HeldSum(p, c, m) + Sizes(c, p.tables)[m] <= at.peak
          /\ HeldSum(p, c, m) + InnerOf(p, c, m) <= at.peak
    /\ \A x \in Nat :
          (\A m \in 1 .. n : /\ HeldSum(p, c, m) + Sizes(c, p.tables)[m] <= x
                             /\ HeldSum(p, c, m) + InnerOf(p, c, m) <= x)
            => at.peak <= x

LEMMA VisitKeeps ==
    ASSUME NEW p \in Packages, Accepts(p), NEW r \in DOMAIN p.recipes,
           NEW n \in 1 .. Len(p.recipes[r].nodes), NEW at, ScanSound(p, p.recipes[r], at, n - 1)
    PROVE  ScanSound(p, p.recipes[r],
                     Visit(at, n, Sizes(p.recipes[r], p.tables), LastUse(p.recipes[r]),
                           InnerOf(p, p.recipes[r], n)), n)
  <1> DEFINE c == p.recipes[r]
             N == Len(c.nodes)
             size == Sizes(c, p.tables)
             last == LastUse(c)
             inner == InnerOf(p, c, n)
             live == HeldAt(c, n) \cup {n}
             freed == {m \in live : last[m] = n}
             held == HeldSum(p, c, n)
             new == Visit(at, n, size, last, inner)
  <1>1. c \in Recipes /\ N \in Nat /\ DOMAIN c.nodes = 1 .. N
    BY PackageKnown, RecipeKnown
  <1>2. /\ at.live = HeldAt(c, n) /\ at.bytes = held /\ at.peak \in Nat
        /\ \A m \in 1 .. n - 1 : held \in Nat
    <2>1. (n - 1) + 1 = n
      OBVIOUS
    <2>2. at.live = HeldAt(c, n) /\ at.bytes = held /\ at.peak \in Nat
      BY <2>1 DEF ScanSound
    <2>3. held \in Nat
      BY <1>1, HeldKnown
    <2> QED
      BY <2>2, <2>3
  <1>3. /\ \A m \in 1 .. n - 1 :
              /\ HeldSum(p, c, m) + size[m] <= at.peak
              /\ HeldSum(p, c, m) + InnerOf(p, c, m) <= at.peak
        /\ \A x \in Nat :
              (\A m \in 1 .. n - 1 : /\ HeldSum(p, c, m) + size[m] <= x
                                     /\ HeldSum(p, c, m) + InnerOf(p, c, m) <= x)
                => at.peak <= x
    BY DEF ScanSound
  <1>4. Weights(size, N)
    BY SizesKnown
  <1>5. held \in Nat /\ HeldAt(c, n) \in SUBSET (1 .. N)
    BY <1>1, HeldKnown
  <1>6. inner \in Nat
    <2>1. c.nodes[n].op = "iterate" => p.recipes[c.nodes[n].aux].peak \in Nat
      BY <1>1, IterateKnown
    <2> HIDE DEF c
    <2> QED
      BY <2>1, SMTT(20) DEF InnerOf
  <1>7. /\ new.peak = Max({at.peak, held + inner, held + size[n]})
        /\ new.live = live \ freed
        /\ new.bytes = held + size[n] - SumFunctionOnSet(size, freed)
    BY <1>2 DEF Visit
  <1>8. HeldAt(c, n) = {m \in 1 .. n - 1 : last[m] >= n}
    BY <1>1, HeldIs
  <1>9. HeldAt(c, n + 1) = {m \in 1 .. (n + 1) - 1 : last[m] >= n + 1}
    BY <1>1, HeldIs
  <1>10. \A m \in 1 .. N : last[m] \in Nat /\ last[m] >= m
    BY <1>1, LastUseIs
  <1>11. n \in 1 .. N /\ n \in Nat
    BY <1>1
  <1>17. held = SumFunctionOnSet(size, HeldAt(c, n))
         /\ HeldSum(p, c, n + 1) = SumFunctionOnSet(size, HeldAt(c, n + 1))
    BY DEF HeldSum
  <1>18. inner = InnerOf(p, c, n)
    OBVIOUS
  <1> HIDE DEF c, N, size, last, inner, held, new
  <1>12. live \ freed = HeldAt(c, n + 1)
    <2>1. \A m \in 1 .. (n + 1) - 1 : m \in 1 .. N /\ (m = n \/ m \in 1 .. n - 1)
      BY <1>1, <1>11
    <2>2. \A m \in 1 .. n - 1 : m \in 1 .. (n + 1) - 1 /\ m \in 1 .. N
      BY <1>1, <1>11
    <2>3. n \in 1 .. (n + 1) - 1
      BY <1>11
    <2>4. ASSUME NEW m \in live \ freed PROVE m \in HeldAt(c, n + 1)
      <3>1. m \in 1 .. (n + 1) - 1 /\ m \in 1 .. N /\ last[m] # n /\ (m = n \/ last[m] >= n)
        BY <1>8, <1>11, <2>2, <2>3
      <3>2. last[m] \in Nat /\ last[m] >= n
        BY <1>10, <3>1
      <3>3. last[m] >= n + 1
        BY <1>11, <3>1, <3>2
      <3> QED
        BY <1>9, <3>1, <3>3
    <2>5. ASSUME NEW m \in HeldAt(c, n + 1) PROVE m \in live \ freed
      <3>1. m \in 1 .. (n + 1) - 1 /\ last[m] >= n + 1 /\ m \in 1 .. N
        BY <1>9, <2>1
      <3>2. last[m] >= n /\ last[m] # n
        BY <1>10, <1>11, <3>1
      <3>3. m = n \/ m \in HeldAt(c, n)
        BY <1>8, <2>1, <3>1, <3>2
      <3> QED
        BY <3>2, <3>3
    <2> QED
      BY <2>4, <2>5
  <1>13. live \in SUBSET (1 .. N) /\ freed \in SUBSET live /\ n \in live
         /\ live \ {n} = HeldAt(c, n)
    BY <1>5, <1>8, <1>11
  <1>14. SumFunctionOnSet(size, live) = size[n] + held /\ size[n] \in Nat
    <2>1. SumFunctionOnSet(size, live) = size[n] + SumFunctionOnSet(size, live \ {n})
      BY <1>1, <1>4, <1>13, SumTakes
    <2> QED
      BY <1>4, <1>11, <1>13, <1>17, <2>1 DEF Weights
  <1>15. new.bytes = HeldSum(p, c, n + 1)
    <2>1. SumFunctionOnSet(size, live)
            = SumFunctionOnSet(size, freed) + SumFunctionOnSet(size, live \ freed)
      BY <1>1, <1>4, <1>13, SumSplits
    <2>2. SumFunctionOnSet(size, freed) \in Nat /\ SumFunctionOnSet(size, live \ freed) \in Nat
      <3>1. freed \in SUBSET (1 .. N) /\ live \ freed \in SUBSET (1 .. N)
        BY <1>13
      <3> QED
        BY <1>1, <1>4, <3>1, SumTakes
    <2>3. HeldSum(p, c, n + 1) = SumFunctionOnSet(size, live \ freed)
      BY <1>12, <1>17
    <2> QED
      BY <1>5, <1>7, <1>14, <2>1, <2>2, <2>3
  <1>16. /\ new.peak \in Nat /\ at.peak <= new.peak
         /\ held + inner <= new.peak /\ held + size[n] <= new.peak
         /\ \A x \in Nat : at.peak <= x /\ held + inner <= x /\ held + size[n] <= x => new.peak <= x
    <2>1. held + inner \in Nat /\ held + size[n] \in Nat
      BY <1>5, <1>6, <1>14
    <2> DEFINE a == held + inner
               b == held + size[n]
    <2>2. at.peak \in Nat /\ a \in Nat /\ b \in Nat /\ new.peak = Max({at.peak, a, b})
      BY <1>2, <1>7, <2>1
    <2> HIDE DEF a, b
    <2>3. /\ new.peak \in Nat /\ at.peak <= new.peak /\ a <= new.peak /\ b <= new.peak
          /\ \A x \in Nat : at.peak <= x /\ a <= x /\ b <= x => new.peak <= x
      BY <2>2, MaxOfThree
    <2> QED
      BY <2>3 DEF a, b
  <1>19. \A m \in 1 .. n : m = n \/ m \in 1 .. n - 1
    BY <1>11
  <1>20. \A m \in 1 .. n - 1 : m \in 1 .. n
    BY <1>11
  <1>21. ASSUME NEW m \in 1 .. n
         PROVE  /\ HeldSum(p, c, m) + size[m] <= new.peak
                /\ HeldSum(p, c, m) + InnerOf(p, c, m) <= new.peak
    <2>1. CASE m = n
      BY <1>16, <1>18, <2>1 DEF held
    <2>2. CASE m \in 1 .. n - 1
      <3>1. /\ HeldSum(p, c, m) \in Nat /\ size[m] \in Nat /\ InnerOf(p, c, m) \in Nat
        <4>1. m \in 1 .. N /\ m \in 1 .. N + 1
          BY <1>1, <1>11, <2>2
        <4>2. HeldSum(p, c, m) \in Nat
          BY <4>1, HeldKnown DEF c, N
        <4>3. size[m] \in Nat
          BY <1>4, <4>1 DEF Weights
        <4>4. c.nodes[m].op = "iterate" => p.recipes[c.nodes[m].aux].peak \in Nat
          BY <1>1, <4>1, IterateKnown DEF c
        <4> QED
          BY <4>2, <4>3, <4>4 DEF InnerOf
      <3>2. /\ HeldSum(p, c, m) + size[m] <= at.peak
            /\ HeldSum(p, c, m) + InnerOf(p, c, m) <= at.peak
        BY <1>3, <2>2
      <3> QED
        BY <1>2, <1>16, <3>1, <3>2
    <2> QED
      BY <1>19, <2>1, <2>2
  <1>22. ASSUME NEW x \in Nat,
                \A m \in 1 .. n : /\ HeldSum(p, c, m) + size[m] <= x
                                  /\ HeldSum(p, c, m) + InnerOf(p, c, m) <= x
         PROVE  new.peak <= x
    <2>1. at.peak <= x
      BY <1>3, <1>20, <1>22
    <2>2. n \in 1 .. n
      BY <1>11
    <2>3. held + inner <= x /\ held + size[n] <= x
      BY <1>18, <1>22, <2>2 DEF held
    <2> QED
      BY <1>16, <2>1, <2>3
  <1>23. new.live = HeldAt(c, n + 1)
    BY <1>7, <1>12
  <1>24. ScanSound(p, c, new, n)
    BY <1>15, <1>16, <1>21, <1>22, <1>23 DEF ScanSound, size
  <1> QED
    BY <1>24 DEF new, c, size, last, inner

(* The declared peak of a recipe is the least bound of what its nodes have *)
(* in use, and of what they hold beside the body they run.                 *)
LEMMA PeakIsWorst ==
    ASSUME NEW p \in Packages, Accepts(p), NEW r \in DOMAIN p.recipes
    PROVE  /\ \A m \in 1 .. Len(p.recipes[r].nodes) :
                /\ HeldSum(p, p.recipes[r], m) + Sizes(p.recipes[r], p.tables)[m] <= p.recipes[r].peak
                /\ HeldSum(p, p.recipes[r], m) + InnerOf(p, p.recipes[r], m) <= p.recipes[r].peak
           /\ \A x \in Nat :
                (\A m \in 1 .. Len(p.recipes[r].nodes) :
                    /\ HeldSum(p, p.recipes[r], m) + Sizes(p.recipes[r], p.tables)[m] <= x
                    /\ HeldSum(p, p.recipes[r], m) + InnerOf(p, p.recipes[r], m) <= x)
                  => p.recipes[r].peak <= x
  <1> DEFINE c == p.recipes[r]
             N == Len(c.nodes)
             peaks == Peaks(p, r)
             scan == Scan(c, p.tables, peaks)
             Good == {m \in Nat : m <= N => ScanSound(p, c, scan[m], m)}
  <1>1. c \in Recipes /\ N \in Nat /\ DOMAIN c.nodes = 1 .. N
    BY PackageKnown, RecipeKnown
  <1>2. c.peak = scan[N].peak
    <2>1. Resources(p, r)
      BY AllSane DEF Sane
    <2> QED
      BY <2>1, Zenon DEF Resources, Peak, Peaks, Before
  <1>3. \A n \in 0 .. N : scan[n] = ScanOf(c, p.tables, peaks, scan, n)
    BY <1>1, ScanIs
  <1>4. ASSUME NEW n \in 1 .. N
        PROVE  ScanOf(c, p.tables, peaks, scan, n)
                 = Visit(scan[n - 1], n, Sizes(c, p.tables), LastUse(c), InnerOf(p, c, n))
    <2>1. c.nodes[n].op = "iterate" => c.nodes[n].aux \in 1 .. r - 1
      BY <1>1, IterateKnown
    <2>2. \A i \in 1 .. r - 1 : peaks[i] = p.recipes[i].peak
      BY BeforeIs DEF Peaks, Before
    <2>3. n # 0
      OBVIOUS
    <2> HIDE DEF scan, c, peaks
    <2>4. (IF c.nodes[n].op = "iterate" THEN peaks[c.nodes[n].aux] ELSE 0) = InnerOf(p, c, n)
      BY <2>1, <2>2 DEF InnerOf
    <2> QED
      BY <2>3, <2>4, Zenon DEF ScanOf
  <1>5. 0 \in Good
    <2>1. scan[0] = Opening
      <3>1. 0 \in 0 .. N
        BY <1>1
      <3> QED
        BY <1>3, <3>1 DEF ScanOf
    <2>2. HeldAt(c, 0 + 1) = {}
      <3>1. 1 .. (0 + 1) - 1 = {}
        OBVIOUS
      <3> QED
        BY <3>1 DEF HeldAt
    <2>3. HeldSum(p, c, 0 + 1) = 0
      BY <2>2, NoSum DEF HeldSum
    <2>4. 1 .. 0 = {} /\ Opening.peak = 0 /\ Opening.live = {} /\ Opening.bytes = 0
      BY DEF Opening
    <2> HIDE DEF scan, c
    <2>5. ScanSound(p, c, Opening, 0)
      BY <2>2, <2>3, <2>4 DEF ScanSound
    <2> QED
      BY <2>1, <2>5
  <1>6. ASSUME NEW m \in Nat, m \in Good PROVE m + 1 \in Good
    <2>1. ASSUME m + 1 <= N PROVE ScanSound(p, c, scan[m + 1], m + 1)
      <3>1. m + 1 \in 1 .. N /\ m + 1 \in 0 .. N /\ (m + 1) - 1 = m /\ m <= N
        <4> HIDE DEF N
        <4> QED
          BY <1>1, <2>1
      <3>2. ScanSound(p, c, scan[m], (m + 1) - 1)
        BY <1>6, <3>1
      <3>3. scan[m + 1] = Visit(scan[m], m + 1, Sizes(c, p.tables), LastUse(c), InnerOf(p, c, m + 1))
        BY <1>3, <1>4, <3>1
      <3> HIDE DEF scan
      <3> QED
        BY <3>1, <3>2, <3>3, VisitKeeps
    <2>2. m + 1 \in Nat
      OBVIOUS
    <2> QED
      BY <2>1, <2>2, Zenon
  <1> HIDE DEF Good
  <1>7. N \in Good
    BY <1>1, <1>5, <1>6, EveryNumber
  <1>8. ScanSound(p, c, scan[N], N)
    <2>1. N <= N
      BY <1>1
    <2> QED
      BY <1>7, <2>1 DEF Good
  <1> HIDE DEF scan
  <1> QED
    BY <1>2, <1>8 DEF ScanSound

-----------------------------------------------------------------------------
(* Sums over a stack.                                                      *)

LEMMA SumTop ==
    ASSUME NEW n \in Nat, NEW v, NEW w, Weights(w, n + 1), \A i \in 1 .. n : v[i] = w[i]
    PROVE  /\ SumFunctionOnSet(w, 1 .. n + 1) = SumFunctionOnSet(v, 1 .. n) + w[n + 1]
           /\ SumFunctionOnSet(v, 1 .. n) \in Nat
  <1>1. 1 .. n + 1 \in SUBSET (1 .. n + 1) /\ n + 1 \in 1 .. n + 1 /\ (1 .. n + 1) \ {n + 1} = 1 .. n
    OBVIOUS
  <1>2. SumFunctionOnSet(w, 1 .. n + 1) = w[n + 1] + SumFunctionOnSet(w, 1 .. n)
    <2>1. n + 1 \in Nat
      OBVIOUS
    <2>2. SumFunctionOnSet(w, 1 .. n + 1) = w[n + 1] + SumFunctionOnSet(w, (1 .. n + 1) \ {n + 1})
      BY <1>1, <2>1, SumTakes
    <2> QED
      BY <1>1, <2>2
  <1>3. Weights(w, n) /\ w[n + 1] \in Nat
    BY <1>1 DEF Weights
  <1>4. 1 .. n \in SUBSET (1 .. n)
    OBVIOUS
  <1>5. SumFunctionOnSet(v, 1 .. n) = SumFunctionOnSet(w, 1 .. n)
    <2>1. \A S \in SUBSET (1 .. n) : SumFunctionOnSet(v, S) = SumFunctionOnSet(w, S)
      BY <1>3, SameSum, Zenon
    <2> QED
      BY <1>4, <2>1, Zenon
  <1>6. SumFunctionOnSet(w, 1 .. n) \in Nat
    BY <1>3, <1>4, SumTakes
  <1> QED
    BY <1>2, <1>3, <1>5, <1>6

AllSound(p, fs) == fs \in Seq(Frames) /\ \A k \in 1 .. Len(fs) : FrameSound(p, fs[k])

Dues(p, fs) == [k \in 1 .. Len(fs) |-> Owed(p, fs[k])]

Owing(p, fs) == SumFunctionOnSet(Dues(p, fs), 1 .. Len(fs))

LEMMA OwingPut ==
    ASSUME NEW p \in Packages, Accepts(p), NEW fs, AllSound(p, fs),
           NEW f \in Frames, FrameSound(p, f)
    PROVE  /\ Owing(p, Append(fs, f)) = Owing(p, fs) + Owed(p, f)
           /\ Owing(p, fs) \in Nat /\ Owed(p, f) \in Nat
  <1> DEFINE new == Append(fs, f)
             n == Len(fs)
  <1>1. /\ fs \in Seq(Frames) /\ n \in Nat /\ Len(new) = n + 1 /\ new[n + 1] = f
        /\ \A k \in 1 .. n : new[k] = fs[k]
        /\ \A k \in 1 .. n : fs[k] \in Frames /\ FrameSound(p, fs[k])
    BY StackPut DEF AllSound
  <1> HIDE DEF new, n
  <1>2. \A k \in 1 .. n + 1 : k = n + 1 \/ k \in 1 .. n
    BY <1>1
  <1>3. \A k \in 1 .. n + 1 : new[k] \in Frames /\ FrameSound(p, new[k])
    BY <1>1, <1>2
  <1>4. \A k \in 1 .. n + 1 : Owed(p, new[k]) \in Nat
    BY <1>3, OwedAt
  <1>5. /\ \A k \in 1 .. n + 1 : Dues(p, new)[k] = Owed(p, new[k])
        /\ \A k \in 1 .. n : Dues(p, fs)[k] = Owed(p, fs[k])
    BY <1>1 DEF Dues, n
  <1>6. Weights(Dues(p, new), n + 1)
    BY <1>4, <1>5 DEF Weights
  <1>7. \A k \in 1 .. n : Dues(p, fs)[k] = Dues(p, new)[k]
    <2>1. \A k \in 1 .. n : k \in 1 .. n + 1
      BY <1>1
    <2> QED
      BY <1>1, <1>5, <2>1
  <1>8. /\ SumFunctionOnSet(Dues(p, new), 1 .. n + 1)
             = SumFunctionOnSet(Dues(p, fs), 1 .. n) + Dues(p, new)[n + 1]
        /\ SumFunctionOnSet(Dues(p, fs), 1 .. n) \in Nat
    BY <1>1, <1>6, <1>7, SumTop
  <1>9. Dues(p, new)[n + 1] = Owed(p, f)
    <2>1. n + 1 \in 1 .. n + 1
      BY <1>1
    <2> QED
      BY <1>1, <1>5, <2>1
  <1>10. Owed(p, f) \in Nat
    BY OwedAt
  <1> QED
    BY <1>1, <1>8, <1>9, <1>10 DEF Owing, new, n

\* The scratch that a frame holds, and that of the frames below.
Height(p, f) == HeldSum(p, p.recipes[f.recipe], f.next)

Heights(p, fs) == [k \in 1 .. Len(fs) |-> Height(p, fs[k])]

Under(p, fs, k) == SumFunctionOnSet(Heights(p, fs), 1 .. k - 1)

LEMMA HeightKnown ==
    ASSUME NEW p \in Packages, Accepts(p), NEW f, FrameSound(p, f)
    PROVE  Height(p, f) \in Nat
  BY HeldKnown DEF Height, FrameSound, FrameAt

LEMMA UnderNext ==
    ASSUME NEW p \in Packages, Accepts(p), NEW fs, AllSound(p, fs)
    PROVE  /\ Under(p, fs, 1) = 0
           /\ \A k \in 1 .. Len(fs) + 1 : Under(p, fs, k) \in Nat
           /\ \A k \in 1 .. Len(fs) : /\ Height(p, fs[k]) \in Nat
                                      /\ Under(p, fs, k + 1) = Under(p, fs, k) + Height(p, fs[k])
  <1> DEFINE n == Len(fs)
             h == Heights(p, fs)
  <1>1. n \in Nat /\ \A k \in 1 .. n : FrameSound(p, fs[k])
    BY DEF AllSound
  <1>2. \A k \in 1 .. n : h[k] = Height(p, fs[k])
    BY DEF Heights
  <1>3. \A k \in 1 .. n : Height(p, fs[k]) \in Nat
    BY <1>1, HeightKnown
  <1>9. \A k : Under(p, fs, k) = SumFunctionOnSet(h, 1 .. k - 1)
    BY DEF Under
  <1> HIDE DEF n, h
  <1>4. Weights(h, n)
    BY <1>2, <1>3 DEF Weights
  <1>5. Under(p, fs, 1) = 0
    <2>1. 1 .. 1 - 1 = {}
      OBVIOUS
    <2> QED
      BY <1>9, <2>1, NoSum
  <1>6. ASSUME NEW k \in 1 .. n + 1 PROVE Under(p, fs, k) \in Nat
    <2>1. 1 .. k - 1 \in SUBSET (1 .. n)
      BY <1>1
    <2> QED
      BY <1>1, <1>4, <1>9, <2>1, SumTakes
  <1>7. ASSUME NEW k \in 1 .. n PROVE Under(p, fs, k + 1) = Under(p, fs, k) + Height(p, fs[k])
    <2>1. /\ 1 .. (k + 1) - 1 \in SUBSET (1 .. n) /\ k \in 1 .. (k + 1) - 1
          /\ (1 .. (k + 1) - 1) \ {k} = 1 .. k - 1
      BY <1>1
    <2>2. SumFunctionOnSet(h, 1 .. (k + 1) - 1) = h[k] + SumFunctionOnSet(h, (1 .. (k + 1) - 1) \ {k})
      BY <1>1, <1>4, <2>1, SumTakes
    <2>3. k \in 1 .. n + 1
      BY <1>1
    <2>4. Under(p, fs, k) \in Nat
      BY <1>6, <2>3
    <2>5. Under(p, fs, k + 1) = SumFunctionOnSet(h, 1 .. (k + 1) - 1)
      BY <1>9, Zenon
    <2>6. SumFunctionOnSet(h, (1 .. (k + 1) - 1) \ {k}) = Under(p, fs, k)
      BY <1>9, <2>1, Zenon
    <2>7. h[k] = Height(p, fs[k]) /\ Height(p, fs[k]) \in Nat
      BY <1>2, <1>3
    <2>8. Under(p, fs, k + 1) = Height(p, fs[k]) + Under(p, fs, k)
      BY <2>2, <2>5, <2>6, <2>7, Zenon
    <2> QED
      BY <2>4, <2>7, <2>8
  <1> QED
    BY <1>3, <1>5, <1>6, <1>7 DEF n

(* What lies under a frame does not depend on it.                          *)
LEMMA UnderSame ==
    ASSUME NEW p \in Packages, Accepts(p), NEW fs, AllSound(p, fs), NEW gs,
           NEW m \in Nat, m <= Len(fs), m <= Len(gs), Len(gs) \in Nat,
           \A k \in 1 .. m : Height(p, gs[k]) = Height(p, fs[k])
    PROVE  \A k \in 1 .. m + 1 : Under(p, gs, k) = Under(p, fs, k)
  <1>0. Len(fs) \in Nat /\ \A k \in 1 .. Len(fs) : FrameSound(p, fs[k])
    BY DEF AllSound
  <1>1. \A k \in 1 .. m : k \in 1 .. Len(fs) /\ k \in 1 .. Len(gs)
    BY <1>0
  <1>2. \A k \in 1 .. m : Heights(p, fs)[k] = Height(p, fs[k]) /\ Heights(p, gs)[k] = Height(p, gs[k])
    BY <1>1 DEF Heights
  <1>3. \A k \in 1 .. m : Height(p, fs[k]) \in Nat
    BY <1>0, <1>1, HeightKnown
  <1>4. Weights(Heights(p, fs), m)
    BY <1>2, <1>3 DEF Weights
  <1>5. \A k \in 1 .. m : Heights(p, gs)[k] = Heights(p, fs)[k]
    BY <1>2
  <1>6. \A S \in SUBSET (1 .. m) :
          SumFunctionOnSet(Heights(p, gs), S) = SumFunctionOnSet(Heights(p, fs), S)
    BY <1>4, <1>5, SameSum
  <1>7. \A k \in 1 .. m + 1 : 1 .. k - 1 \in SUBSET (1 .. m)
    OBVIOUS
  <1> QED
    BY <1>6, <1>7 DEF Under

LEMMA UnderKept ==
    ASSUME NEW p \in Packages, Accepts(p), NEW fs, AllSound(p, fs), NEW gs,
           Len(gs) = Len(fs), Len(fs) >= 1, \A k \in 1 .. Len(fs) - 1 : gs[k] = fs[k]
    PROVE  \A k \in 1 .. Len(fs) : Under(p, gs, k) = Under(p, fs, k)
  <1> DEFINE L == Len(fs)
             m == L - 1
  <1>1. L \in Nat /\ L >= 1
    BY DEF AllSound
  <1> HIDE DEF L
  <1>2. m \in Nat /\ m + 1 = L /\ m <= L
    BY <1>1
  <1>3. \A k \in 1 .. m : Height(p, gs[k]) = Height(p, fs[k])
    BY DEF L
  <1> HIDE DEF m
  <1>4. Len(gs) \in Nat /\ m <= Len(fs) /\ m <= Len(gs)
    BY <1>1, <1>2 DEF L
  <1>5. \A k \in 1 .. m + 1 : Under(p, gs, k) = Under(p, fs, k)
    BY <1>2, <1>3, <1>4, UnderSame
  <1> QED
    BY <1>2, <1>5 DEF L

-----------------------------------------------------------------------------
(* The figures of a stack.                                                 *)

\* No ITERATE of no rounds.
Busy(p) ==
    \A r \in DOMAIN p.recipes : \A n \in DOMAIN p.recipes[r].nodes :
        p.recipes[r].nodes[n].op = "iterate" => p.recipes[r].nodes[n].imm # 0

\* A frame's recipe fits above what lies under it, and the worst so far has
\* seen each of its nodes.
LevelFigured(p, f, under, worst, limit) ==
    /\ under + p.recipes[f.recipe].peak <= limit
    /\ Busy(p) => \A n \in 1 .. f.next - 1 :
          /\ under + HeldSum(p, p.recipes[f.recipe], n)
                   + Sizes(p.recipes[f.recipe], p.tables)[n] <= worst
          /\ under + HeldSum(p, p.recipes[f.recipe], n)
                   + InnerOf(p, p.recipes[f.recipe], n) <= worst

\* A round that is over has had all its body needs.
RoundFigured(p, f, under, worst) ==
    Busy(p) /\ f.rounds # 0 =>
        under + HeldSum(p, p.recipes[f.recipe], f.next)
              + InnerOf(p, p.recipes[f.recipe], f.next) <= worst

StackFigured(p, fs, worst, limit) ==
    /\ \A k \in 1 .. Len(fs) : LevelFigured(p, fs[k], Under(p, fs, k), worst, limit)
    /\ RoundFigured(p, Last(fs), Under(p, fs, Len(fs)), worst)

LEMMA FiguresKnown ==
    ASSUME NEW p \in Packages, Accepts(p), NEW r \in DOMAIN p.recipes,
           NEW n \in 1 .. Len(p.recipes[r].nodes)
    PROVE  /\ HeldSum(p, p.recipes[r], n) \in Nat
           /\ Sizes(p.recipes[r], p.tables)[n] \in Nat
           /\ InnerOf(p, p.recipes[r], n) \in Nat
  <1>1. Len(p.recipes[r].nodes) \in Nat /\ DOMAIN p.recipes[r].nodes = 1 .. Len(p.recipes[r].nodes)
    BY PackageKnown, RecipeKnown
  <1>2. n \in 1 .. Len(p.recipes[r].nodes) + 1
    <2> DEFINE N == Len(p.recipes[r].nodes)
    <2>1. N \in Nat /\ n \in 1 .. N
      BY <1>1
    <2> HIDE DEF N
    <2>2. n \in 1 .. N + 1
      BY <2>1
    <2> QED
      BY <2>2 DEF N
  <1>3. HeldSum(p, p.recipes[r], n) \in Nat
    BY <1>2, HeldKnown
  <1>4. Sizes(p.recipes[r], p.tables)[n] \in Nat
    BY SizesKnown DEF Weights
  <1>5. p.recipes[r].nodes[n].op = "iterate" => p.recipes[p.recipes[r].nodes[n].aux].peak \in Nat
    BY <1>1, IterateKnown
  <1>6. InnerOf(p, p.recipes[r], n) \in Nat
    BY <1>5 DEF InnerOf
  <1> QED
    BY <1>3, <1>4, <1>6

LEMMA LevelGrows ==
    ASSUME NEW p \in Packages, Accepts(p), NEW f, FrameSound(p, f), NEW under \in Nat,
           NEW worst \in Nat, NEW more \in Nat, worst <= more, NEW limit,
           LevelFigured(p, f, under, worst, limit)
    PROVE  LevelFigured(p, f, under, more, limit)
  <1> DEFINE c == p.recipes[f.recipe]
  <1>1. f.recipe \in DOMAIN p.recipes /\ f.next \in 1 .. Len(c.nodes) + 1 /\ Len(c.nodes) \in Nat
    BY PackageKnown, RecipeKnown DEF FrameSound, FrameAt
  <1>2. ASSUME NEW n \in 1 .. f.next - 1
        PROVE  /\ HeldSum(p, c, n) \in Nat /\ Sizes(c, p.tables)[n] \in Nat /\ InnerOf(p, c, n) \in Nat
    <2>1. n \in 1 .. Len(c.nodes)
      <3> DEFINE N == Len(c.nodes)
      <3>1. N \in Nat /\ f.next \in 1 .. N + 1
        BY <1>1
      <3> HIDE DEF N
      <3>2. n \in 1 .. N
        BY <3>1
      <3> QED
        BY <3>2 DEF N
    <2> QED
      BY <1>1, <2>1, FiguresKnown
  <1>3. /\ under + c.peak <= limit
        /\ Busy(p) => \A n \in 1 .. f.next - 1 :
              /\ under + HeldSum(p, c, n) + Sizes(c, p.tables)[n] <= worst
              /\ under + HeldSum(p, c, n) + InnerOf(p, c, n) <= worst
    BY DEF LevelFigured
  <1> HIDE DEF c
  <1>4. ASSUME Busy(p), NEW n \in 1 .. f.next - 1
        PROVE  /\ under + HeldSum(p, c, n) + Sizes(c, p.tables)[n] <= more
               /\ under + HeldSum(p, c, n) + InnerOf(p, c, n) <= more
    <2>1. /\ under + HeldSum(p, c, n) + Sizes(c, p.tables)[n] <= worst
          /\ under + HeldSum(p, c, n) + InnerOf(p, c, n) <= worst
      BY <1>3, <1>4
    <2> QED
      BY <1>2, <2>1
  <1> QED
    BY <1>3, <1>4 DEF LevelFigured, c

(* The innermost frame has run a node.                                     *)
LEMMA TopMoved ==
    ASSUME NEW p \in Packages, Accepts(p), NEW fs, StackSound(p, fs), fs # <<>>,
           NEW f, f = Last(fs), f.next <= Len(p.recipes[f.recipe].nodes),
           p.recipes[f.recipe].nodes[f.next].op = "iterate" =>
              f.rounds = p.recipes[f.recipe].nodes[f.next].imm,
           NEW g \in Frames, FrameSound(p, g), g.recipe = f.recipe,
           g.next = f.next + 1, g.rounds = 0,
           NEW worst \in Nat, NEW more \in Nat, worst <= more, NEW limit,
           StackFigured(p, fs, worst, limit),
           Under(p, fs, Len(fs)) + Height(p, f)
              + Sizes(p.recipes[f.recipe], p.tables)[f.next] <= more
    PROVE  /\ Owing(p, fs) = Owing(p, Append(Front(fs), g)) + 1
           /\ StackFigured(p, Append(Front(fs), g), more, limit)
  <1> DEFINE new == Append(Front(fs), g)
             L == Len(fs)
             c == p.recipes[f.recipe]
  <1>1. /\ fs \in Seq(Frames) /\ AllSound(p, fs) /\ L \in Nat /\ L >= 1 /\ f = fs[L] /\ f \in Frames
        /\ Front(fs) \in Seq(Frames) /\ Len(Front(fs)) = L - 1
        /\ \A k \in 1 .. L - 1 : Front(fs)[k] = fs[k]
    BY StackTop DEF StackSound, AllSound
  <1>2. /\ new \in Seq(Frames) /\ Len(new) = L /\ new[L] = g /\ Last(new) = g
        /\ \A k \in 1 .. L - 1 : new[k] = fs[k]
    BY <1>1, TopReplaced
  <1>3. FrameSound(p, f)
    <2>1. L \in 1 .. L
      BY <1>1
    <2> QED
      BY <1>1, <2>1 DEF AllSound
  <1>4. AllSound(p, Front(fs))
    <2>1. \A k \in 1 .. L - 1 : k \in 1 .. L
      BY <1>1
    <2> QED
      BY <1>1, <2>1 DEF AllSound
  <1>5. Owing(p, new) = Owing(p, Front(fs)) + Owed(p, g)
    BY <1>4, OwingPut
  <1>6. Append(Front(fs), f) = fs
    BY <1>1 DEF Front
  <1>7. /\ Owing(p, fs) = Owing(p, Front(fs)) + Owed(p, f)
        /\ Owing(p, Front(fs)) \in Nat /\ Owed(p, f) \in Nat /\ Owed(p, g) \in Nat
    BY <1>1, <1>3, <1>4, <1>6, OwingPut, ZenonT(30)
  <1>8. Owed(p, f) = Owed(p, g) + 1
    BY <1>1, <1>3, OwedNext
  <1>9. Owing(p, fs) = Owing(p, new) + 1
    BY <1>5, <1>7, <1>8
  <1>10. \A k \in 1 .. L : Under(p, new, k) = Under(p, fs, k)
    <2>1. Len(new) = Len(fs) /\ Len(fs) >= 1 /\ \A k \in 1 .. Len(fs) - 1 : new[k] = fs[k]
      BY <1>1, <1>2
    <2> HIDE DEF new
    <2> QED
      BY <1>1, <2>1, UnderKept
  <1>11. /\ \A k \in 1 .. L : LevelFigured(p, fs[k], Under(p, fs, k), worst, limit)
         /\ RoundFigured(p, f, Under(p, fs, L), worst)
    BY <1>1 DEF StackFigured
  <1>12. \A k \in 1 .. L : Under(p, fs, k) \in Nat
    <2>1. \A k \in 1 .. L : k \in 1 .. L + 1
      BY <1>1
    <2> QED
      BY <1>1, <2>1, UnderNext
  <1>13. L \in 1 .. L /\ \A k \in 1 .. L : k = L \/ k \in 1 .. L - 1
    BY <1>1
  <1>14. \A k \in 1 .. L : LevelFigured(p, fs[k], Under(p, fs, k), more, limit)
    <2>1. \A k \in 1 .. L : FrameSound(p, fs[k])
      BY <1>1 DEF AllSound
    <2> QED
      BY <1>11, <1>12, <2>1, LevelGrows
  <1>15. LevelFigured(p, g, Under(p, fs, L), more, limit)
    <2> DEFINE under == Under(p, fs, L)
               n == f.next
    <2>1. LevelFigured(p, f, under, more, limit)
      BY <1>1, <1>13, <1>14
    <2>2. /\ under + c.peak <= limit
          /\ Busy(p) => \A m \in 1 .. n - 1 :
                /\ under + HeldSum(p, c, m) + Sizes(c, p.tables)[m] <= more
                /\ under + HeldSum(p, c, m) + InnerOf(p, c, m) <= more
      BY <2>1 DEF LevelFigured
    <2>3. n \in 1 .. Len(c.nodes) /\ f.recipe \in DOMAIN p.recipes
          /\ DOMAIN c.nodes = 1 .. Len(c.nodes)
      <3>1. n \in 1 .. Len(c.nodes) + 1 /\ f.recipe \in DOMAIN p.recipes
        BY <1>3 DEF FrameSound, FrameAt
      <3>2. Len(c.nodes) \in Nat /\ n <= Len(c.nodes) /\ DOMAIN c.nodes = 1 .. Len(c.nodes)
        BY <3>1, PackageKnown, RecipeKnown
      <3> DEFINE N == Len(c.nodes)
      <3> HIDE DEF N, c, n
      <3>3. N \in Nat /\ n <= N /\ n \in 1 .. N + 1
        BY <3>1, <3>2 DEF N
      <3>4. n \in 1 .. N
        BY <3>3
      <3> QED
        BY <3>1, <3>2, <3>4 DEF N
    <2>4. under + HeldSum(p, c, n) + Sizes(c, p.tables)[n] <= more
      BY DEF Height
    <2>5. Busy(p) => under + HeldSum(p, c, n) + InnerOf(p, c, n) <= more
      <3> SUFFICES ASSUME Busy(p) PROVE under + HeldSum(p, c, n) + InnerOf(p, c, n) <= more
        OBVIOUS
      <3>0. /\ HeldSum(p, c, n) \in Nat /\ Sizes(c, p.tables)[n] \in Nat /\ InnerOf(p, c, n) \in Nat
            /\ under \in Nat
        BY <1>12, <1>13, <2>3, FiguresKnown
      <3>1. CASE c.nodes[n].op = "iterate"
        <4>1. c.nodes[n].imm # 0 /\ f.rounds = c.nodes[n].imm
          BY <2>3, <3>1 DEF Busy
        <4>2. under + HeldSum(p, c, n) + InnerOf(p, c, n) <= worst
          BY <1>11, <4>1 DEF RoundFigured
        <4> HIDE DEF under, c, n
        <4> QED
          BY <3>0, <4>2
      <3>2. CASE c.nodes[n].op # "iterate"
        <4>1. InnerOf(p, c, n) = 0
          BY <3>2 DEF InnerOf
        <4> HIDE DEF under, c, n
        <4> QED
          BY <2>4, <3>0, <4>1
      <3> QED
        BY <3>1, <3>2
    <2>6. \A m \in 1 .. g.next - 1 : m = n \/ m \in 1 .. n - 1
      <3>1. n \in Nat
        BY <1>1, FrameKnown
      <3> QED
        BY <3>1
    <2>7. g.recipe = f.recipe
      OBVIOUS
    <2> HIDE DEF under, c, n
    <2>8. ASSUME Busy(p), NEW m \in 1 .. g.next - 1
          PROVE  /\ under + HeldSum(p, c, m) + Sizes(c, p.tables)[m] <= more
                 /\ under + HeldSum(p, c, m) + InnerOf(p, c, m) <= more
      BY <2>2, <2>4, <2>5, <2>6, <2>8
    <2> QED
      BY <2>2, <2>7, <2>8 DEF LevelFigured, c, under
  <1>16. \A k \in 1 .. L : LevelFigured(p, new[k], Under(p, new, k), more, limit)
    BY <1>2, <1>10, <1>13, <1>14, <1>15
  <1>17. RoundFigured(p, g, Under(p, new, L), more)
    BY DEF RoundFigured
  <1>18. StackFigured(p, new, more, limit)
    BY <1>2, <1>16, <1>17 DEF StackFigured
  <1> QED
    BY <1>9, <1>18

-----------------------------------------------------------------------------
(* A body is called, and returns.                                          *)

LEMMA WaitingStack ==
    ASSUME NEW p \in Packages, Accepts(p), NEW fs, StackSound(p, fs), fs # <<>>,
           NEW f, f = Last(fs), f.next <= Len(p.recipes[f.recipe].nodes),
           p.recipes[f.recipe].nodes[f.next].op = "iterate",
           f.rounds < p.recipes[f.recipe].nodes[f.next].imm
    PROVE  /\ AllSound(p, Append(Front(fs), Waiting(f)))
           /\ Owing(p, Append(Front(fs), Waiting(f)))
                + p.recipes[p.recipes[f.recipe].nodes[f.next].aux].steps = Owing(p, fs)
  <1> DEFINE g == Waiting(f)
             new == Append(Front(fs), g)
             L == Len(fs)
             body == p.recipes[p.recipes[f.recipe].nodes[f.next].aux]
  <1>1. /\ fs \in Seq(Frames) /\ L \in Nat /\ L >= 1 /\ f = fs[L] /\ f \in Frames
        /\ Front(fs) \in Seq(Frames) /\ Len(Front(fs)) = L - 1
        /\ \A k \in 1 .. L - 1 : Front(fs)[k] = fs[k]
        /\ \A k \in 1 .. L : FrameSound(p, fs[k])
    BY StackTop DEF StackSound
  <1>2. FrameSound(p, f)
    <2>1. L \in 1 .. L
      BY <1>1
    <2> QED
      BY <1>1, <2>1
  <1>3. g \in Frames /\ FrameSound(p, g)
    BY <1>1, <1>2, WaitingIs, WaitingSound, Zenon
  <1>4. AllSound(p, Front(fs))
    <2>1. \A k \in 1 .. L - 1 : k \in 1 .. L
      BY <1>1
    <2> QED
      BY <1>1, <2>1 DEF AllSound
  <1>5. AllSound(p, new)
    <2>1. /\ new \in Seq(Frames) /\ Len(new) = L /\ new[L] = g
          /\ \A k \in 1 .. L - 1 : new[k] = fs[k]
      BY <1>1, <1>3, TopReplaced
    <2>2. \A k \in 1 .. L : k = L \/ (k \in 1 .. L - 1 /\ k \in 1 .. L)
      BY <1>1
    <2> QED
      BY <1>1, <1>3, <2>1, <2>2 DEF AllSound
  <1>6. Append(Front(fs), f) = fs
    BY <1>1 DEF Front
  <1>7. /\ Owing(p, fs) = Owing(p, Front(fs)) + Owed(p, f)
        /\ Owing(p, Front(fs)) \in Nat /\ Owed(p, f) \in Nat
    BY <1>1, <1>2, <1>4, <1>6, OwingPut
  <1>8. /\ Owing(p, new) = Owing(p, Front(fs)) + Owed(p, g) /\ Owed(p, g) \in Nat
    BY <1>3, <1>4, OwingPut
  <1>9. Owed(p, f) = Owed(p, g) + body.steps
    BY <1>1, <1>2, OwedWaiting, Zenon
  <1>10. body.steps \in Nat
    <2>1. f.recipe \in DOMAIN p.recipes /\ f.next \in 1 .. Len(p.recipes[f.recipe].nodes) + 1
      BY <1>2 DEF FrameSound, FrameAt
    <2>2. p.recipes[f.recipe] \in Recipes
      BY <2>1, PackageKnown
    <2> DEFINE N == Len(p.recipes[f.recipe].nodes)
    <2>3. N \in Nat /\ DOMAIN p.recipes[f.recipe].nodes = 1 .. N /\ f.next <= N
      BY <2>2, RecipeKnown
    <2>4. f.next \in 1 .. N + 1
      BY <2>1
    <2> HIDE DEF N
    <2>5. f.next \in 1 .. N
      BY <2>3, <2>4
    <2> QED
      BY <2>1, <2>3, <2>5, IterateKnown, Zenon
  <1> HIDE DEF g, new, body
  <1>11. Owing(p, new) + body.steps = Owing(p, fs)
    BY <1>7, <1>8, <1>9, <1>10
  <1> QED
    BY <1>5, <1>11, ZenonT(30) DEF g, new, body

\* The innermost frame's ITERATE has rounds left; the stack with its body on it.
MayCall(p, fs, f) ==
    /\ StackSound(p, fs) /\ fs # <<>> /\ f = Last(fs)
    /\ f.next <= Len(p.recipes[f.recipe].nodes)
    /\ p.recipes[f.recipe].nodes[f.next].op = "iterate"
    /\ f.rounds < p.recipes[f.recipe].nodes[f.next].imm

CalledFrom(p, fs, f) ==
    Append(Append(Front(fs), Waiting(f)), Frame(p.recipes[f.recipe].nodes[f.next].aux))

LEMMA TopCalls ==
    ASSUME NEW p \in Packages, Accepts(p), NEW fs, NEW f, MayCall(p, fs, f),
           NEW worst \in Nat, NEW limit \in Nat, StackFigured(p, fs, worst, limit)
    PROVE  /\ Owing(p, CalledFrom(p, fs, f)) = Owing(p, fs)
           /\ StackFigured(p, CalledFrom(p, fs, f), worst, limit)
  <1> USE DEF MayCall
  <1> DEFINE new == CalledFrom(p, fs, f)
             L == Len(fs)
             c == p.recipes[f.recipe]
             b == c.nodes[f.next].aux
             g == Frame(b)
             w == Append(Front(fs), Waiting(f))
  <1>1. /\ fs \in Seq(Frames) /\ AllSound(p, fs) /\ L \in Nat /\ L >= 1 /\ f = fs[L] /\ f \in Frames
        /\ \A k \in 1 .. L : FrameSound(p, fs[k])
    BY StackTop DEF StackSound, AllSound
  <1>2. /\ L \in 1 .. L /\ L \in 1 .. L + 1 /\ L + 1 \in 1 .. L + 1
        /\ \A k \in 1 .. L + 1 : k = L + 1 \/ k = L \/ k \in 1 .. L - 1
        /\ \A k \in 1 .. L - 1 : k \in 1 .. L /\ k \in 1 .. L + 1
    BY <1>1
  <1>3. FrameSound(p, f) /\ f.recipe \in DOMAIN p.recipes /\ f.next \in 1 .. Len(c.nodes)
        /\ DOMAIN c.nodes = 1 .. Len(c.nodes)
    <2>1. FrameSound(p, f)
      BY <1>1, <1>2
    <2>2. f.recipe \in DOMAIN p.recipes /\ f.next \in 1 .. Len(c.nodes) + 1
      BY <2>1 DEF FrameSound, FrameAt
    <2> DEFINE N == Len(c.nodes)
    <2>3. N \in Nat /\ DOMAIN c.nodes = 1 .. N /\ f.next <= N
      BY <2>2, PackageKnown, RecipeKnown
    <2>4. f.next \in 1 .. N + 1
      BY <2>2
    <2> HIDE DEF N
    <2>5. f.next \in 1 .. N
      BY <2>3, <2>4
    <2> QED
      BY <2>1, <2>2, <2>3, <2>5, Zenon DEF N
  <1>4. b \in DOMAIN p.recipes
    <2>1. c.nodes[f.next].op = "iterate" /\ f.next \in DOMAIN c.nodes
      BY <1>3, SMTT(20)
    <2> QED
      BY <1>3, <2>1, IterateIsNoStatus, Zenon
  <1>5. g \in Frames /\ FrameSound(p, g) /\ g.recipe = b /\ g.next = 1 /\ g.rounds = 0
    <2>1. g.next = 1 /\ g.rounds = 0
      BY DEF Frame
    <2> QED
      BY <1>4, <2>1, FrameBegins
  <1>6. AllSound(p, w) /\ Owing(p, w) + p.recipes[b].steps = Owing(p, fs)
    BY WaitingStack, Zenon
  <1>7. /\ Waiting(f) \in Frames /\ Waiting(f).recipe = f.recipe /\ Waiting(f).next = f.next
    BY <1>1, WaitingIs
  <1>8. /\ w \in Seq(Frames) /\ Len(w) = L /\ w[L] = Waiting(f)
        /\ \A k \in 1 .. L - 1 : w[k] = fs[k]
    BY <1>1, <1>7, TopReplaced, Zenon
  <1>9. Owing(p, new) = Owing(p, fs)
    <2>1. Owing(p, Append(w, g)) = Owing(p, w) + Owed(p, g)
      <3> HIDE DEF w, g, new
      <3> QED
        BY <1>5, <1>6, OwingPut
    <2>3. new = Append(w, g)
      BY DEF CalledFrom
    <2>2. Owed(p, g) = p.recipes[b].steps
      BY <1>4, OwedBegin
    <2> HIDE DEF w, g, new
    <2> QED
      BY <1>6, <2>1, <2>2, <2>3, ZenonT(30)
  <1>10. /\ new \in Seq(Frames) /\ Len(new) = L + 1 /\ new[L + 1] = g /\ new # <<>>
         /\ \A k \in 1 .. L : new[k] = w[k]
    <2>1. w \in Seq(Frames) /\ g \in Frames /\ Len(w) = L /\ new = Append(w, g)
      BY <1>5, <1>8, Zenon DEF CalledFrom
    <2> HIDE DEF w, g, L, new
    <2>2. /\ Append(w, g) \in Seq(Frames) /\ Len(Append(w, g)) = Len(w) + 1
          /\ Append(w, g)[Len(w) + 1] = g /\ Append(w, g) # <<>>
          /\ \A k \in 1 .. Len(w) : Append(w, g)[k] = w[k]
      BY <2>1, StackPut
    <2> QED
      BY <2>1, <2>2
  <1>11. Last(new) = g
    BY <1>10, StackTop
  <1>12. new[L] = Waiting(f) /\ \A k \in 1 .. L - 1 : new[k] = fs[k]
    BY <1>2, <1>8, <1>10
  <1>13. \A k \in 1 .. L + 1 : Under(p, new, k) = Under(p, fs, k)
    <2>1. \A k \in 1 .. L : Height(p, new[k]) = Height(p, fs[k])
      <3>1. Height(p, new[L]) = Height(p, fs[L])
        BY <1>1, <1>7, <1>12 DEF Height
      <3>2. \A k \in 1 .. L : k = L \/ k \in 1 .. L - 1
        BY <1>1
      <3> QED
        BY <1>12, <3>1, <3>2
    <2>2. L \in Nat /\ L <= Len(fs) /\ L <= Len(new) /\ Len(new) \in Nat
      <3>1. Len(fs) = L
        OBVIOUS
      <3>2. L \in Nat
        BY <1>1
      <3>3. Len(new) = L + 1
        BY <1>10
      <3> HIDE DEF L
      <3>4. L <= L + 1 /\ L + 1 \in Nat /\ L <= L
        BY <3>2
      <3> QED
        BY <3>1, <3>2, <3>3, <3>4, Zenon
    <2> HIDE DEF L
    <2> QED
      BY <1>1, <2>1, <2>2, UnderSame
  <1>14. /\ \A k \in 1 .. L : LevelFigured(p, fs[k], Under(p, fs, k), worst, limit)
    BY DEF StackFigured
  <1>15. LevelFigured(p, Waiting(f), Under(p, fs, L), worst, limit)
    BY <1>1, <1>2, <1>7, <1>14, Zenon DEF LevelFigured
  <1>16. LevelFigured(p, g, Under(p, fs, L + 1), worst, limit)
    <2>1. Under(p, fs, L + 1) = Under(p, fs, L) + HeldSum(p, c, f.next)
      BY <1>1, <1>2, UnderNext, SMTT(20) DEF Height
    <2>2. /\ Under(p, fs, L) \in Nat /\ HeldSum(p, c, f.next) \in Nat
          /\ InnerOf(p, c, f.next) \in Nat
      BY <1>1, <1>2, <1>3, UnderNext, FiguresKnown
    <2>3. InnerOf(p, c, f.next) = p.recipes[b].peak
      BY DEF InnerOf
    <2>4. HeldSum(p, c, f.next) + InnerOf(p, c, f.next) <= c.peak
      BY <1>3, PeakIsWorst
    <2>5. Under(p, fs, L) + c.peak <= limit
      BY <1>1, <1>2, <1>14, Zenon DEF LevelFigured
    <2>6. c.peak \in Nat
      BY <1>3, PackageKnown, RecipeKnown
    <2> HIDE DEF L, c, b
    <2>7. Under(p, fs, L + 1) + p.recipes[b].peak <= limit
      BY <2>1, <2>2, <2>3, <2>4, <2>5, <2>6
    <2>8. \A n \in 1 .. g.next - 1 : FALSE
      BY <1>5
    <2> QED
      BY <1>5, <2>7, <2>8, SMTT(20) DEF LevelFigured
  <1>17. \A k \in 1 .. L + 1 : LevelFigured(p, new[k], Under(p, new, k), worst, limit)
    BY <1>2, <1>10, <1>12, <1>13, <1>14, <1>15, <1>16, Zenon
  <1>18. RoundFigured(p, g, Under(p, new, L + 1), worst)
    BY <1>5, Zenon DEF RoundFigured
  <1>19. StackFigured(p, new, worst, limit)
    BY <1>10, <1>11, <1>17, <1>18, Zenon DEF StackFigured
  <1> QED
    BY <1>9, <1>19

(* A recipe at its end has used all it declares.                           *)
LEMMA EndReached ==
    ASSUME NEW p \in Packages, Accepts(p), NEW f \in Frames, FrameSound(p, f),
           f.next > Len(p.recipes[f.recipe].nodes), Busy(p),
           NEW under \in Nat, NEW worst \in Nat, NEW limit, LevelFigured(p, f, under, worst, limit)
    PROVE  under + p.recipes[f.recipe].peak <= worst
  <1> DEFINE c == p.recipes[f.recipe]
             N == Len(c.nodes)
             x == worst - under
  <1>1. f.recipe \in DOMAIN p.recipes /\ f.next \in 1 .. N + 1
    BY DEF FrameSound, FrameAt
  <1>2. N \in Nat /\ N >= 1 /\ c.peak \in Nat
    BY <1>1, PackageKnown, RecipeKnown, AllSane DEF Sane, InterfaceSound
  <1>3. f.next - 1 = N
    <2>1. f.next > N
      OBVIOUS
    <2> HIDE DEF N
    <2> QED
      BY <1>1, <1>2, <2>1
  <1>4. \A n \in 1 .. N : /\ under + HeldSum(p, c, n) + Sizes(c, p.tables)[n] <= worst
                          /\ under + HeldSum(p, c, n) + InnerOf(p, c, n) <= worst
    BY <1>3 DEF LevelFigured
  <1>5. \A n \in 1 .. N : /\ HeldSum(p, c, n) \in Nat /\ Sizes(c, p.tables)[n] \in Nat
                          /\ InnerOf(p, c, n) \in Nat
    BY <1>1, FiguresKnown
  <1>6. /\ x \in Nat
        /\ \A n \in 1 .. N : /\ HeldSum(p, c, n) + Sizes(c, p.tables)[n] <= x
                             /\ HeldSum(p, c, n) + InnerOf(p, c, n) <= x
        => c.peak <= x
    BY <1>1, PeakIsWorst
  <1> HIDE DEF c, N
  <1>7. 1 \in 1 .. N
    BY <1>2
  <1>8. x \in Nat
    BY <1>4, <1>5, <1>7
  <1>9. \A n \in 1 .. N : /\ HeldSum(p, c, n) + Sizes(c, p.tables)[n] <= x
                          /\ HeldSum(p, c, n) + InnerOf(p, c, n) <= x
    BY <1>4, <1>5
  <1>10. c.peak <= x
    BY <1>6, <1>8, <1>9
  <1> QED
    BY <1>2, <1>10 DEF c

LEMMA TopReturns ==
    ASSUME NEW p \in Packages, Accepts(p), NEW fs, StackSound(p, fs), Len(fs) > 1,
           NEW f, f = Last(fs), f.next > Len(p.recipes[f.recipe].nodes),
           NEW worst \in Nat, NEW limit, StackFigured(p, fs, worst, limit)
    PROVE  Owing(p, Front(fs)) = Owing(p, fs) /\ StackFigured(p, Front(fs), worst, limit)
  <1> DEFINE L == Len(fs)
             new == Front(fs)
             m == L - 1
             h == fs[m]
  <1>0. fs # <<>> /\ fs \in Seq(Frames)
    BY DEF StackSound
  <1>1. /\ fs \in Seq(Frames) /\ AllSound(p, fs) /\ L \in Nat /\ f = fs[L] /\ f \in Frames
        /\ new \in Seq(Frames) /\ Len(new) = m
        /\ \A k \in 1 .. m : new[k] = fs[k]
        /\ \A k \in 1 .. L : FrameSound(p, fs[k])
        /\ \A k \in 1 .. L - 1 : Calling(p, fs[k], fs[k + 1])
    BY <1>0, StackTop DEF StackSound, AllSound
  <1>2. L > 1
    OBVIOUS
  <1>3. /\ m \in Nat /\ m >= 1 /\ m \in 1 .. m /\ m \in 1 .. L /\ m \in 1 .. L - 1 /\ L \in 1 .. L
        /\ m + 1 = L /\ m <= L
        /\ \A k \in 1 .. m : k \in 1 .. L
        /\ L \in 1 .. L + 1 /\ m \in 1 .. L + 1
    <2> HIDE DEF L
    <2> QED
      BY <1>1, <1>2
  <1>4. new # <<>> /\ Last(new) = h
    <2>1. new # <<>>
      BY <1>1, <1>3
    <2> QED
      BY <1>1, <1>3, <2>1, StackTop
  <1>5. AllSound(p, new)
    BY <1>1, <1>3 DEF AllSound
  <1>6. Owing(p, new) = Owing(p, fs)
    <2>1. Append(new, f) = fs
      BY <1>1 DEF Front
    <2>2. FrameSound(p, f)
      BY <1>1, <1>3
    <2>3. Owing(p, fs) = Owing(p, new) + Owed(p, f) /\ Owing(p, new) \in Nat
      BY <1>1, <1>5, <2>1, <2>2, OwingPut
    <2>4. Owed(p, f) = 0
      BY <1>1, <2>2, OwedAt
    <2> QED
      BY <2>3, <2>4
  <1>7. \A k \in 1 .. m + 1 : Under(p, new, k) = Under(p, fs, k)
    <2>1. \A k \in 1 .. m : Height(p, new[k]) = Height(p, fs[k])
      BY <1>1
    <2>2. m <= Len(fs) /\ m <= Len(new) /\ Len(new) \in Nat /\ m \in Nat
      BY <1>1, <1>3
    <2> HIDE DEF m, new
    <2> QED
      BY <1>1, <2>1, <2>2, UnderSame
  <1>8. \A k \in 1 .. L : LevelFigured(p, fs[k], Under(p, fs, k), worst, limit)
    BY DEF StackFigured
  <1>9. \A k \in 1 .. m : LevelFigured(p, new[k], Under(p, new, k), worst, limit)
    <2>1. \A k \in 1 .. m : k \in 1 .. m + 1
      BY <1>3
    <2> QED
      BY <1>1, <1>3, <1>7, <1>8, <2>1
  <1>10. RoundFigured(p, h, Under(p, new, m), worst)
    <2> SUFFICES ASSUME Busy(p)
                 PROVE  Under(p, new, m) + HeldSum(p, p.recipes[h.recipe], h.next)
                          + InnerOf(p, p.recipes[h.recipe], h.next) <= worst
      BY DEF RoundFigured
    <2>1. /\ f.recipe = p.recipes[h.recipe].nodes[h.next].aux
          /\ p.recipes[h.recipe].nodes[h.next].op = "iterate"
      <3>1. Calling(p, h, fs[m + 1]) /\ FrameSound(p, h)
        BY <1>1, <1>3, Zenon
      <3> QED
        BY <1>1, <1>3, <3>1, Zenon DEF Calling, FrameSound, FrameAt
    <2>2. InnerOf(p, p.recipes[h.recipe], h.next) = p.recipes[f.recipe].peak
      BY <2>1, Zenon DEF InnerOf
    <2>3. /\ Under(p, fs, L) = Under(p, fs, m) + HeldSum(p, p.recipes[h.recipe], h.next)
          /\ Under(p, fs, L) \in Nat
      <3>1. Under(p, fs, m + 1) = Under(p, fs, m) + Height(p, fs[m])
        BY <1>1, <1>3, UnderNext
      <3> QED
        BY <1>1, <1>3, <3>1, UnderNext DEF Height
    <2>4. Under(p, new, m) = Under(p, fs, m)
      <3>1. m \in 1 .. m + 1
        BY <1>3
      <3> QED
        BY <1>7, <3>1
    <2>5. Under(p, fs, L) + p.recipes[f.recipe].peak <= worst
      <3>1. LevelFigured(p, f, Under(p, fs, L), worst, limit) /\ FrameSound(p, f)
        BY <1>1, <1>3, <1>8
      <3> QED
        BY <1>1, <2>3, <3>1, EndReached
    <2> QED
      BY <2>2, <2>3, <2>4, <2>5
  <1>11. StackFigured(p, new, worst, limit)
    BY <1>1, <1>4, <1>9, <1>10 DEF StackFigured
  <1> QED
    BY <1>6, <1>11

-----------------------------------------------------------------------------
(* The figures of a run.                                                   *)

RunFigured(p, r, fs, ran, worst) ==
    /\ ran + Owing(p, fs) = p.recipes[r].steps
    /\ StackFigured(p, fs, worst, p.recipes[r].peak)

FigureIInv ==
    /\ steps \in Nat /\ peak \in Nat
    /\ mode \in {"wire", "rejected", "ready", "refused"} => steps = 0 /\ peak = 0
    /\ result.released => mode = "done"
    /\ entry.recipe # 0 => steps <= Asked.steps /\ peak <= Asked.peak
    /\ mode = "running" => RunFigured(package, entry.recipe, frames, steps, peak)
    /\ result.released => steps = Asked.steps /\ (Busy(package) => peak = Asked.peak)

LEMMA AskedKnown ==
    ASSUME MachineIInv, mode = "running"
    PROVE  /\ Asked = package.recipes[entry.recipe] /\ entry.recipe \in DOMAIN package.recipes
           /\ Asked.steps \in Nat /\ Asked.peak \in Nat /\ entry.recipe # 0
  <1>1. package \in Packages /\ entry.recipe \in DOMAIN package.recipes /\ entry.recipe # 0
    BY DEF MachineIInv
  <1> QED
    BY <1>1, PackageKnown, RecipeKnown DEF Asked

LEMMA FramesKnown ==
    ASSUME MachineIInv, mode = "running"
    PROVE  /\ AllSound(package, frames) /\ Len(frames) \in Nat /\ Len(frames) >= 1
           /\ Len(frames) \in 1 .. Len(frames) /\ Len(frames) \in 1 .. Len(frames) + 1
           /\ Current = frames[Len(frames)] /\ DOMAIN frames = 1 .. Len(frames)
  <1>1. frames \in Seq(Frames) /\ frames # <<>> /\ StackSound(package, frames)
    BY Running
  <1>2. /\ Len(frames) \in Nat /\ Len(frames) >= 1 /\ Current = frames[Len(frames)]
        /\ DOMAIN frames = 1 .. Len(frames)
    BY <1>1, StackTop DEF Current
  <1>3. AllSound(package, frames)
    BY <1>1 DEF StackSound, AllSound
  <1> DEFINE L == Len(frames)
  <1>4. L \in Nat /\ L >= 1
    BY <1>2
  <1> HIDE DEF L
  <1>5. L \in 1 .. L /\ L \in 1 .. L + 1
    BY <1>4
  <1> QED
    BY <1>2, <1>3, <1>5 DEF L

(* The scratch in use, as the sum the acceptance reckons with.             *)
LEMMA InUseIs ==
    ASSUME AtNode
    PROVE  /\ InUse = Under(package, frames, Len(frames)) + Height(package, Current)
                        + Sizes(package.recipes[Current.recipe], package.tables)[Current.next]
           /\ Under(package, frames, Len(frames)) \in Nat
           /\ Height(package, Current) \in Nat
           /\ Sizes(package.recipes[Current.recipe], package.tables)[Current.next] \in Nat
  <1> DEFINE L == Len(frames)
             h == Heights(package, frames)
             size == Sizes(package.recipes[Current.recipe], package.tables)[Current.next]
  <1>0. MachineIInv /\ mode = "running"
    BY DEF AtNode
  <1>1. /\ package \in Packages /\ Accepts(package) /\ FrameSound(package, Current)
        /\ Current.recipe \in DOMAIN package.recipes
        /\ RecipeAt(Current) = package.recipes[Current.recipe]
    BY <1>0, Running
  <1>2. /\ AllSound(package, frames) /\ L \in Nat /\ L \in 1 .. L /\ L \in 1 .. L + 1
        /\ Current = frames[L] /\ DOMAIN frames = 1 .. L
    BY <1>0, FramesKnown
  <1>3. /\ Under(package, frames, L) \in Nat /\ Height(package, Current) \in Nat
        /\ Under(package, frames, L + 1) = Under(package, frames, L) + Height(package, Current)
    BY <1>1, <1>2, UnderNext
  <1>4. size \in Nat
    <2>1. Current.next \in DOMAIN package.recipes[Current.recipe].nodes
      BY <1>1, NodeKnown
    <2>2. DOMAIN package.recipes[Current.recipe].nodes = 1 .. Len(package.recipes[Current.recipe].nodes)
      BY <1>1, PackageKnown, RecipeKnown
    <2> QED
      BY <1>1, <2>1, <2>2, FiguresKnown
  <1>5. [k \in DOMAIN frames |-> HeldBytes(frames[k])] = h
    <2>1. \A k \in 1 .. L : HeldBytes(frames[k]) = Height(package, frames[k])
      BY DEF HeldBytes, Height, HeldSum, RecipeAt
    <2> QED
      BY <1>2, <2>1 DEF Heights
  <1>6. SumFunction(h) = SumFunctionOnSet(h, 1 .. L)
    BY DEF SumFunction, Heights
  <1>7. Under(package, frames, L + 1) = SumFunctionOnSet(h, 1 .. L)
    <2>1. 1 .. (L + 1) - 1 = 1 .. L
      BY <1>2
    <2> QED
      BY <2>1 DEF Under
  <1>8. InUse = SumFunction(h) + size
    BY <1>1, <1>5 DEF InUse
  <1> HIDE DEF h, size, L
  <1>9. InUse = Under(package, frames, L) + Height(package, Current) + size
    BY <1>3, <1>6, <1>7, <1>8
  <1> QED
    BY <1>3, <1>4, <1>9 DEF L, size

(* A node that runs stays within what the entry declares.                  *)
LEMMA RanWithin ==
    ASSUME AtNode, FigureIInv, Ran
    PROVE  /\ steps' = steps + 1 /\ steps' \in Nat /\ steps + 1 <= Asked.steps
           /\ peak' \in Nat /\ peak <= peak' /\ InUse <= peak' /\ peak' <= Asked.peak
  <1> DEFINE L == Len(frames)
             c == package.recipes[Current.recipe]
             under == Under(package, frames, L)
             size == Sizes(c, package.tables)[Current.next]
  <1>0. MachineIInv /\ mode = "running" /\ ~AtEnd(Current)
    BY DEF AtNode
  <1>1. /\ package \in Packages /\ Accepts(package) /\ FrameSound(package, Current)
        /\ Current \in Frames /\ Current.recipe \in DOMAIN package.recipes
        /\ frames \in Seq(Frames) /\ frames # <<>>
    BY <1>0, Running
  <1>2. /\ AllSound(package, frames) /\ L \in Nat /\ L \in 1 .. L /\ Current = frames[L]
    BY <1>0, FramesKnown
  <1>3. /\ Asked.steps \in Nat /\ Asked.peak \in Nat /\ entry.recipe # 0
        /\ Asked = package.recipes[entry.recipe]
    BY <1>0, AskedKnown
  <1>4. /\ steps \in Nat /\ peak \in Nat /\ peak <= Asked.peak
        /\ steps + Owing(package, frames) = Asked.steps
        /\ StackFigured(package, frames, peak, Asked.peak)
    BY <1>0, <1>3 DEF FigureIInv, RunFigured
  <1>5. Current.next \in 1 .. Len(c.nodes) /\ Current.next <= Len(c.nodes)
    <2>1. Current.next \in DOMAIN c.nodes /\ Current.next <= Len(c.nodes)
      BY <1>0, <1>1, Running, NodeKnown
    <2> QED
      BY <1>1, <2>1, PackageKnown, RecipeKnown
  <1>6. Owing(package, frames) >= 1 /\ Owing(package, frames) \in Nat
    <2>1. AllSound(package, Front(frames))
      <3>1. /\ Front(frames) \in Seq(Frames) /\ Len(Front(frames)) = L - 1
            /\ \A k \in 1 .. L - 1 : Front(frames)[k] = frames[k]
        BY <1>1, StackTop
      <3>2. \A k \in 1 .. L - 1 : k \in 1 .. L
        BY <1>2
      <3>3. \A k \in 1 .. L : FrameSound(package, frames[k])
        BY <1>2 DEF AllSound
      <3> QED
        BY <3>1, <3>2, <3>3 DEF AllSound
    <2>2. Append(Front(frames), Current) = frames
      BY <1>1, <1>2 DEF Front
    <2>3. Owing(package, frames) = Owing(package, Front(frames)) + Owed(package, Current)
          /\ Owing(package, Front(frames)) \in Nat /\ Owed(package, Current) \in Nat
      BY <1>1, <2>1, <2>2, OwingPut
    <2>4. Owed(package, Current) >= 1
      BY <1>1, <1>5, OwedAt
    <2> QED
      BY <2>3, <2>4
  <1>7. /\ InUse = under + Height(package, Current) + size
        /\ under \in Nat /\ Height(package, Current) \in Nat /\ size \in Nat
    BY InUseIs
  <1>8. under + c.peak <= Asked.peak
    BY <1>2, <1>4 DEF StackFigured, LevelFigured
  <1>9. Height(package, Current) + size <= c.peak
    BY <1>1, <1>5, PeakIsWorst DEF Height
  <1>10. c.peak \in Nat
    BY <1>1, PackageKnown, RecipeKnown
  <1> HIDE DEF under, size, c
  <1>11. InUse \in Nat /\ InUse <= Asked.peak
    BY <1>3, <1>7, <1>8, <1>9, <1>10
  <1>12. /\ Max({peak, InUse}) \in Nat /\ peak <= Max({peak, InUse}) /\ InUse <= Max({peak, InUse})
         /\ Max({peak, InUse}) <= Asked.peak
    BY <1>3, <1>4, <1>11, MaxOfTwo
  <1>13. steps' = steps + 1 /\ peak' = Max({peak, InUse})
    BY DEF Ran
  <1>14. steps + 1 \in Nat /\ steps + 1 <= Asked.steps
    BY <1>3, <1>4, <1>6
  <1> QED
    BY <1>12, <1>13, <1>14

-----------------------------------------------------------------------------
(* Every step keeps the figures.                                           *)

LEMMA FiguresOpen == MachineInit => FigureIInv
  BY DEF MachineInit, FigureIInv

LEMMA DecodeFigures == MachineIInv /\ FigureIInv /\ Decode => FigureIInv'
  <1> SUFFICES ASSUME MachineIInv, FigureIInv, Decode PROVE FigureIInv'
    OBVIOUS
  <1>1. /\ mode = "wire" /\ mode' \in {"ready", "rejected"} /\ entry' = entry /\ result' = result
        /\ steps' = steps /\ peak' = peak
    BY DEF Decode
  <1>2. entry.recipe = 0 /\ steps = 0 /\ peak = 0 /\ ~result.released
    BY <1>1 DEF MachineIInv, FigureIInv
  <1> QED
    BY <1>1, <1>2 DEF FigureIInv

LEMMA EvaluateFigures ==
    ASSUME NEW r \in 1 .. Len(package.recipes) + 1, NEW fits, NEW given \in Statuses,
           MachineIInv, FigureIInv, Evaluate(r, fits, given)
    PROVE  FigureIInv'
  <1>1. /\ package \in Packages /\ mode = "ready" /\ Accepts(package) /\ package' = package
        /\ entry.recipe = 0 /\ steps' = steps /\ peak' = peak /\ result' = result
        /\ steps = 0 /\ peak = 0 /\ ~result.released
    BY DEF MachineIInv, FigureIInv, Evaluate
  <1>2. CASE mode' = "refused" /\ entry' = entry
    BY <1>1, <1>2 DEF FigureIInv
  <1>3. CASE /\ r \in DOMAIN package.recipes /\ mode' = "running"
             /\ entry' = [recipe |-> r, given |-> given] /\ frames' = <<Frame(r)>>
    <2> DEFINE p == package
               f == Frame(r)
               fs == <<f>>
               c == p.recipes[r]
    <2>1. f \in Frames /\ FrameSound(p, f) /\ f.recipe = r /\ f.next = 1 /\ f.rounds = 0
      <3>1. f.next = 1 /\ f.rounds = 0
        BY DEF Frame
      <3> QED
        BY <1>1, <1>3, <3>1, FrameBegins
    <2>2. c.steps \in Nat /\ c.peak \in Nat
      BY <1>1, <1>3, PackageKnown, RecipeKnown
    <2>3. entry'.recipe = r /\ Asked' = c
      BY <1>1, <1>3 DEF Asked
    <2>4. Owed(p, f) = c.steps
      BY <1>1, <1>3, OwedBegin
    <2>5. AllSound(p, <<>>) /\ Owing(p, <<>>) = 0
      <3>1. 1 .. Len(<<>>) = {} /\ <<>> \in Seq(Frames)
        OBVIOUS
      <3> QED
        BY <3>1, NoSum DEF AllSound, Owing
    <2>6. fs = Append(<<>>, f)
      OBVIOUS
    <2> HIDE DEF f
    <2>7. fs \in Seq(Frames) /\ Len(fs) = 1 /\ fs[1] = f /\ Last(fs) = f
      BY <2>1 DEF Last
    <2> HIDE DEF fs
    <2>8. Owing(p, fs) = c.steps
      <3>1. Owing(p, Append(<<>>, f)) = Owing(p, <<>>) + Owed(p, f)
        BY <1>1, <2>1, <2>5, OwingPut
      <3> QED
        BY <2>2, <2>4, <2>5, <2>6, <3>1
    <2>9. Under(p, fs, 1) = 0
      <3>1. 1 .. 1 - 1 = {}
        OBVIOUS
      <3> QED
        BY <3>1, NoSum DEF Under
    <2>10. LevelFigured(p, f, 0, 0, c.peak)
      <3>1. \A n \in 1 .. f.next - 1 : FALSE
        BY <2>1
      <3>2. 0 + p.recipes[f.recipe].peak <= c.peak
        BY <2>1, <2>2
      <3> QED
        BY <3>1, <3>2 DEF LevelFigured
    <2>11. StackFigured(p, fs, 0, c.peak)
      <3>1. \A k \in 1 .. Len(fs) : k = 1
        BY <2>7
      <3>2. RoundFigured(p, f, 0, 0)
        BY <2>1 DEF RoundFigured
      <3> QED
        BY <2>7, <2>9, <2>10, <3>1, <3>2 DEF StackFigured
    <2>12. RunFigured(p, r, fs, 0, 0)
      BY <2>2, <2>8, <2>11 DEF RunFigured
    <2>13. RunFigured(package', entry'.recipe, frames', steps', peak')
      BY <1>1, <1>3, <2>3, <2>12 DEF fs, f
    <2>14. 0 <= c.steps /\ 0 <= c.peak
      BY <2>2
    <2> HIDE DEF c, p
    <2> QED
      BY <1>1, <1>3, <2>3, <2>13, <2>14 DEF FigureIInv
  <1> QED
    BY <1>2, <1>3 DEF Evaluate

LEMMA NodeRunFigures ==
    ASSUME FigureIInv, NEW g \in Frames, RunsNode(g)
    PROVE  FigureIInv'
  <1>0. AtNode /\ MachineIInv /\ mode = "running" /\ ~AtEnd(Current) /\ Ran
    BY DEF RunsNode, AtNode
  <1>1. /\ package' = package /\ mode' = mode /\ entry' = entry /\ result' = result
        /\ frames' = Append(Front(frames), g)
        /\ FrameSound(package, g) /\ g.recipe = Current.recipe
        /\ g.next = Current.next + 1 /\ g.rounds = 0
        /\ NodeAt(Current).op = "iterate" => Current.rounds = NodeAt(Current).imm
    BY DEF RunsNode
  <1>2. /\ package \in Packages /\ Accepts(package) /\ frames # <<>> /\ StackSound(package, frames)
        /\ RecipeAt(Current) = package.recipes[Current.recipe]
    BY <1>0, Running
  <1>3. /\ Current.next <= Len(package.recipes[Current.recipe].nodes)
        /\ NodeAt(Current) = package.recipes[Current.recipe].nodes[Current.next]
    BY <1>0, <1>2, NodeKnown
  <1>4. /\ Asked.steps \in Nat /\ Asked.peak \in Nat /\ entry.recipe # 0
        /\ Asked = package.recipes[entry.recipe]
    BY <1>0, AskedKnown
  <1>5. /\ steps' = steps + 1 /\ steps' \in Nat /\ steps + 1 <= Asked.steps
        /\ peak' \in Nat /\ peak <= peak' /\ InUse <= peak' /\ peak' <= Asked.peak
    BY <1>0, RanWithin
  <1>6. /\ steps \in Nat /\ peak \in Nat /\ ~result.released
        /\ steps + Owing(package, frames) = Asked.steps
        /\ StackFigured(package, frames, peak, Asked.peak)
    BY <1>0, <1>4 DEF FigureIInv, RunFigured
  <1>7. Under(package, frames, Len(frames)) + Height(package, Current)
          + Sizes(package.recipes[Current.recipe], package.tables)[Current.next] <= peak'
    BY <1>0, <1>5, InUseIs
  <1>8. /\ Owing(package, frames) = Owing(package, Append(Front(frames), g)) + 1
        /\ StackFigured(package, Append(Front(frames), g), peak', Asked.peak)
    BY <1>1, <1>2, <1>3, <1>5, <1>6, <1>7, TopMoved DEF Current
  <1>9. Owing(package, Append(Front(frames), g)) \in Nat
    <2>1. AllSound(package, Front(frames)) /\ FrameSound(package, g)
      <3>1. StackSound(package, Append(Front(frames), g))
        BY <1>1, <1>2, StackReplaced DEF Current
      <3>2. /\ Front(frames) \in Seq(Frames) /\ Len(Front(frames)) = Len(frames) - 1
            /\ \A k \in 1 .. Len(frames) - 1 : Front(frames)[k] = frames[k]
            /\ Len(frames) \in Nat
        BY <1>2, StackTop DEF StackSound
      <3>3. \A k \in 1 .. Len(frames) - 1 : k \in 1 .. Len(frames)
        BY <3>2
      <3>4. \A k \in 1 .. Len(frames) : FrameSound(package, frames[k])
        BY <1>2 DEF StackSound
      <3> QED
        BY <1>1, <3>2, <3>3, <3>4 DEF AllSound
    <2>2. Owing(package, Append(Front(frames), g)) = Owing(package, Front(frames)) + Owed(package, g)
          /\ Owing(package, Front(frames)) \in Nat /\ Owed(package, g) \in Nat
      BY <1>2, <2>1, OwingPut
    <2> QED
      BY <2>2
  <1>10. steps' + Owing(package, Append(Front(frames), g)) = Asked.steps
    BY <1>5, <1>6, <1>8, <1>9
  <1>11. RunFigured(package', entry'.recipe, frames', steps', peak')
    BY <1>1, <1>4, <1>8, <1>10 DEF RunFigured
  <1>12. Asked' = Asked
    BY <1>1 DEF Asked
  <1>13. steps' <= Asked'.steps /\ peak' <= Asked'.peak
    BY <1>5, <1>12
  <1> QED
    BY <1>0, <1>1, <1>5, <1>6, <1>11, <1>13 DEF FigureIInv

LEMMA LimitFigures ==
    ASSUME MachineIInv, FigureIInv, Limit
    PROVE  FigureIInv'
  <1>1. /\ AtNode /\ Ran /\ mode' = "done" /\ ~result'.released
        /\ package' = package /\ entry' = entry
    BY DEF Limit, AtNode, Fail
  <1>2. /\ steps' = steps + 1 /\ steps' \in Nat /\ steps + 1 <= Asked.steps
        /\ peak' \in Nat /\ peak' <= Asked.peak
    BY <1>1, RanWithin
  <1>3. steps' <= Asked'.steps /\ peak' <= Asked'.peak
    BY <1>1, <1>2 DEF Asked
  <1> QED
    BY <1>1, <1>2, <1>3 DEF FigureIInv

LEMMA CallBodyFigures ==
    ASSUME MachineIInv, FigureIInv, CallBody
    PROVE  FigureIInv'
  <1>0. AtNode /\ mode = "running"
    BY DEF CallBody, AtNode
  <1>1. /\ package' = package /\ mode' = mode /\ entry' = entry /\ result' = result
        /\ steps' = steps /\ peak' = peak
        /\ frames' = Append(Append(Front(frames), Waiting(Current)), Frame(NodeAt(Current).aux))
        /\ NodeAt(Current).op = "iterate" /\ Current.rounds < NodeAt(Current).imm
    BY DEF CallBody, Replace, Waiting
  <1>2. /\ package \in Packages /\ Accepts(package) /\ frames # <<>> /\ StackSound(package, frames)
        /\ RecipeAt(Current) = package.recipes[Current.recipe]
    BY <1>0, Running
  <1>3. /\ Current.next <= Len(package.recipes[Current.recipe].nodes)
        /\ NodeAt(Current) = package.recipes[Current.recipe].nodes[Current.next]
    BY <1>0, <1>2, NodeKnown
  <1>4. /\ Asked.steps \in Nat /\ Asked.peak \in Nat /\ entry.recipe # 0
        /\ Asked = package.recipes[entry.recipe]
    BY <1>0, AskedKnown
  <1>5. /\ steps \in Nat /\ peak \in Nat /\ ~result.released
        /\ steps <= Asked.steps /\ peak <= Asked.peak
        /\ steps + Owing(package, frames) = Asked.steps
        /\ StackFigured(package, frames, peak, Asked.peak)
    BY <1>0, <1>4 DEF FigureIInv, RunFigured
  <1>6. Owing(package, frames') = Owing(package, frames)
        /\ StackFigured(package, frames', peak, Asked.peak)
    <2>1. MayCall(package, frames, Current)
      BY <1>1, <1>2, <1>3 DEF MayCall, Current
    <2>2. frames' = CalledFrom(package, frames, Current)
      BY <1>1, <1>3 DEF CalledFrom
    <2>3. /\ Owing(package, CalledFrom(package, frames, Current)) = Owing(package, frames)
          /\ StackFigured(package, CalledFrom(package, frames, Current), peak, Asked.peak)
      BY <1>2, <1>4, <1>5, <2>1, TopCalls
    <2> QED
      BY <2>2, <2>3
  <1>7. RunFigured(package', entry'.recipe, frames', steps', peak')
    BY <1>1, <1>4, <1>5, <1>6 DEF RunFigured
  <1>8. Asked' = Asked
    BY <1>1 DEF Asked
  <1> QED
    BY <1>0, <1>1, <1>5, <1>7, <1>8 DEF FigureIInv

LEMMA FinishFigures ==
    ASSUME MachineIInv, FigureIInv, Finish
    PROVE  FigureIInv'
  <1>0. /\ mode = "running" /\ AtEnd(Current) /\ package' = package /\ entry' = entry
        /\ steps' = steps /\ peak' = peak
    BY DEF Finish
  <1>1. Asked' = Asked
    BY <1>0 DEF Asked
  <1>2. /\ package \in Packages /\ Accepts(package) /\ frames # <<>> /\ StackSound(package, frames)
        /\ Current \in Frames /\ FrameSound(package, Current)
        /\ RecipeAt(Current) = package.recipes[Current.recipe]
    BY <1>0, Running
  <1>3. /\ Asked.steps \in Nat /\ Asked.peak \in Nat /\ entry.recipe # 0
        /\ Asked = package.recipes[entry.recipe]
    BY <1>0, AskedKnown
  <1>4. /\ steps \in Nat /\ peak \in Nat /\ ~result.released
        /\ steps <= Asked.steps /\ peak <= Asked.peak
        /\ steps + Owing(package, frames) = Asked.steps
        /\ StackFigured(package, frames, peak, Asked.peak)
    BY <1>0, <1>3 DEF FigureIInv, RunFigured
  <1>5. Current.next > Len(package.recipes[Current.recipe].nodes)
    BY <1>0, <1>2 DEF AtEnd
  <1>6. CASE mode' = "done" /\ ~result'.released
    BY <1>0, <1>1, <1>4, <1>6 DEF FigureIInv
  <1>7. CASE Len(frames) > 1 /\ frames' = Front(frames) /\ mode' = mode /\ result' = result
    <2>1. Owing(package, frames') = Owing(package, frames)
          /\ StackFigured(package, frames', peak, Asked.peak)
      BY <1>2, <1>4, <1>5, <1>7, TopReturns DEF Current
    <2>2. RunFigured(package', entry'.recipe, frames', steps', peak')
      BY <1>0, <1>3, <1>4, <2>1 DEF RunFigured
    <2> QED
      BY <1>0, <1>1, <1>4, <1>7, <2>2 DEF FigureIInv
  <1>8. CASE ~(Len(frames) > 1) /\ mode' = "done"
    <2>1. /\ AllSound(package, frames) /\ Len(frames) = 1 /\ Current = frames[1]
          /\ frames \in Seq(Frames)
      BY <1>0, <1>2, <1>8, FramesKnown DEF StackSound
    <2>2. Current.recipe = entry.recipe
      BY <1>2, <2>1 DEF MachineIInv
    <2>3. Owing(package, frames) = 0
      <3>1. Front(frames) = <<>>
        BY <1>2, <2>1, StackTop
      <3>2. AllSound(package, <<>>) /\ Owing(package, <<>>) = 0
        <4>1. 1 .. Len(<<>>) = {} /\ <<>> \in Seq(Frames)
          OBVIOUS
        <4> QED
          BY <4>1, NoSum DEF AllSound, Owing
      <3>3. Append(<<>>, Current) = frames
        BY <2>1
      <3>4. Owing(package, frames) = Owing(package, <<>>) + Owed(package, Current)
        BY <1>2, <3>2, <3>3, OwingPut
      <3>5. Owed(package, Current) = 0
        BY <1>2, <1>5, OwedAt
      <3> QED
        BY <3>2, <3>4, <3>5
    <2>4. steps = Asked.steps
      BY <1>3, <1>4, <2>3
    <2>5. ASSUME Busy(package) PROVE peak = Asked.peak
      <3>1. Under(package, frames, 1) = 0
        BY <1>2, <2>1, UnderNext
      <3>2. LevelFigured(package, Current, 0, peak, Asked.peak)
        <4>1. 1 \in 1 .. Len(frames)
          BY <2>1
        <4> QED
          BY <1>4, <2>1, <3>1, <4>1 DEF StackFigured
      <3>3. 0 + package.recipes[Current.recipe].peak <= peak
        <4>1. 0 \in Nat
          OBVIOUS
        <4> QED
          BY <1>2, <1>4, <1>5, <2>5, <3>2, <4>1, EndReached
      <3>4. 0 + Asked.peak <= peak
        BY <1>3, <2>2, <3>3
      <3> QED
        BY <1>3, <1>4, <3>4
    <2> QED
      BY <1>0, <1>1, <1>4, <1>8, <2>4, <2>5 DEF FigureIInv
  <1>9. \/ mode' = "done" /\ ~result'.released
        \/ Len(frames) > 1 /\ frames' = Front(frames) /\ mode' = mode /\ result' = result
        \/ ~(Len(frames) > 1) /\ mode' = "done"
    BY DEF Finish, Fail
  <1> QED
    BY <1>6, <1>7, <1>8, <1>9

LEMMA FiguresKept == MachineIInv /\ FigureIInv /\ [MachineNext]_machine => FigureIInv'
  <1> SUFFICES ASSUME MachineIInv, FigureIInv, [MachineNext]_machine PROVE FigureIInv'
    OBVIOUS
  <1>1. CASE UNCHANGED machine
    <2>1. /\ package' = package /\ mode' = mode /\ entry' = entry /\ frames' = frames
          /\ result' = result /\ steps' = steps /\ peak' = peak
      BY <1>1 DEF machine
    <2>2. Asked' = Asked
      BY <2>1 DEF Asked
    <2> QED
      BY <2>1, <2>2 DEF FigureIInv
  <1>2. CASE Decode
    BY <1>2, DecodeFigures
  <1>3. CASE \E r \in 1 .. Len(package.recipes) + 1, fits \in BOOLEAN, given \in Statuses :
                 Evaluate(r, fits, given)
    BY <1>3, EvaluateFigures
  <1>4. CASE \E number \in Statuses \cup {NoStatus} : Compute(number)
    BY <1>4, ComputeRuns, NodeRunFigures
  <1>5. CASE Emit
    BY <1>5, EmitRuns, NodeRunFigures
  <1>6. CASE Limit
    BY <1>6, LimitFigures
  <1>7. CASE CallBody
    BY <1>7, CallBodyFigures
  <1>8. CASE EndIterate
    BY <1>8, EndIterateRuns, NodeRunFigures
  <1>9. CASE Finish
    BY <1>9, FinishFigures
  <1> QED
    BY <1>1, <1>2, <1>3, <1>4, <1>5, <1>6, <1>7, <1>8, <1>9 DEF MachineNext

(* An accepted package's figures hold for every run of it: no run takes    *)
(* more steps or more scratch, and one that releases outputs took exactly  *)
(* the declared steps and, unless an ITERATE is of no rounds, the declared *)
(* scratch.                                                                *)
THEOREM FiguresHold == MachineSpec => []WithinDeclared
  <1>1. FigureIInv => WithinDeclared
    <2>1. ~Busy(package) =>
            \E r \in DOMAIN package.recipes : \E n \in DOMAIN package.recipes[r].nodes :
                package.recipes[r].nodes[n].op = "iterate"
                /\ package.recipes[r].nodes[n].imm = 0
      BY DEF Busy
    <2> QED
      BY <2>1 DEF FigureIInv, WithinDeclared
  <1>2. MachineIInv /\ FigureIInv /\ [MachineNext]_machine => MachineIInv' /\ FigureIInv'
    BY MachineKept, FiguresKept
  <1>3. MachineInit => MachineIInv /\ FigureIInv
    BY MachineOpens, FiguresOpen
  <1> QED
    BY <1>1, <1>2, <1>3, PTL DEF MachineSpec
==============================================================================
