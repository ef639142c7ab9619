---------------------------- MODULE LegacyProofs ----------------------------
(***************************************************************************)
(* Proofs about five parts of the first-generation firmware: its buttons,  *)
(* its security journal, its passkey store, its pickers of a secret, and   *)
(* the device as a whole.                                                  *)
(***************************************************************************)
EXTENDS LegacyInput, LegacyJournal, LegacyBlock, LegacyEntry, LegacyDevice,
        WellFoundedInduction, FiniteSetTheorems, SequenceTheorems, TLAPS

-----------------------------------------------------------------------------
(* Least and greatest elements, for the searches of scan and select.       *)

\* A set of numbers that is not empty has a least one.
LEMMA LeastNat ==
    ASSUME NEW S, S \subseteq Nat, S # {}
    PROVE  \E x \in S : \A y \in S : x <= y
<1> DEFINE R == OpToRel(<, Nat)
<1>1. PICK x \in S : \A y \in S : ~(<<y, x>> \in R)
    BY NatLessThanWellFounded, WFMin
<1>2. ASSUME NEW y \in S
      PROVE  x <= y
  <2>1. x \in Nat /\ y \in Nat
      OBVIOUS
  <2>2. y < x => <<y, x>> \in R
      BY <2>1 DEF OpToRel
  <2>3. ~(y < x)
      BY <1>1, <2>2, Zenon
  <2>4. QED
      BY <2>1, <2>3
<1>3. QED
    BY <1>2

\* A set of numbers that is bounded and not empty has a greatest one.
LEMMA GreatestNat ==
    ASSUME NEW n \in Nat, NEW S, S \subseteq 0 .. n, S # {}
    PROVE  \E x \in S : \A y \in S : x >= y
<1> DEFINE T == {n - y : y \in S}
<1>1. T \subseteq Nat /\ T # {}
  <2>1. \A y \in S : n - y \in Nat
      OBVIOUS
  <2>2. QED
      BY <2>1
<1>2. PICK d \in T : \A e \in T : d <= e
    BY <1>1, LeastNat
<1>3. PICK x \in S : d = n - x
    OBVIOUS
<1>4. \A y \in S : d <= n - y
    BY <1>2
<1>5. QED
    BY <1>3, <1>4

-----------------------------------------------------------------------------
(* The buttons, for every number of buttons and every set of maps.  A press *)
(* that still counts was made on the screen that is shown.                 *)

ButtonType == [sampled : BOOLEAN, stable : BOOLEAN, blocked : BOOLEAN]

\* A button that is held and not blocked went down on this screen.
InputInv ==
    /\ buttons \in [Button -> ButtonType]
    /\ began \in [Button -> Nat] /\ screens \in Nat
    /\ pass = Waiting \/ (pass \in [at : Button, mask : SUBSET Button])
    /\ pins \in SUBSET Button
    /\ \A k \in Button : buttons[k].stable /\ ~buttons[k].blocked => began[k] = screens
    /\ HeldNotCarried

\* The buttons after a pass may have taken the one it is at: typed, and what
\* counts began on this screen.
Current(bs, since) ==
    /\ bs \in [Button -> ButtonType] /\ since \in [Button -> Nat]
    /\ \A k \in Button : bs[k].stable /\ ~bs[k].blocked => since[k] = screens

\* fv_input_controller_set_map leaves no press that counts from another map.
LEMMA SetMapCurrent ==
    ASSUME NEW bs, NEW after, screens \in Nat, Current(bs, began'), SetMap(bs, after)
    PROVE  screens' \in Nat /\ Current(buttons, began)'
<1>1. /\ \A k \in Button : /\ bs[k] \in ButtonType /\ bs[k].blocked \in BOOLEAN
                           /\ bs[k].stable \in BOOLEAN
    BY DEF Current, ButtonType
<1>2. \A k \in Button :
         /\ buttons'[k] \in ButtonType /\ buttons'[k].stable = bs[k].stable
         /\ buttons'[k].blocked = (bs[k].blocked \/ (after # map /\ bs[k].stable))
    BY <1>1 DEF SetMap, Blocked, ButtonType
<1>3. buttons' \in [Button -> ButtonType]
    BY <1>2 DEF SetMap, Blocked
<1>4. CASE after = map
    BY <1>1, <1>2, <1>3, <1>4 DEF SetMap, Current
<1>5. CASE after # map
    BY <1>1, <1>2, <1>3, <1>5 DEF SetMap, Current
<1>6. QED
    BY <1>4, <1>5

\* What is held when the controller starts does not count.
LEMMA ControllerCurrent ==
    ASSUME NEW held, NEW k \in Button
    PROVE  /\ Controller(held) \in [Button -> ButtonType]
           /\ ~(Controller(held)[k].stable /\ ~Controller(held)[k].blocked)
BY DEF Controller, ButtonType

\* A sample keeps the type of the controller.
LEMMA SampledType ==
    ASSUME NEW bs \in [Button -> ButtonType], NEW k \in Button, NEW v \in BOOLEAN
    PROVE  [bs EXCEPT ![k].sampled = v] \in [Button -> ButtonType]
BY DEF ButtonType

\* Every pass over the buttons and every change of the screen keeps it.
LEMMA InputStep == InputInv /\ [INext]_ivars => InputInv'
<1> SUFFICES ASSUME InputInv, [INext]_ivars
             PROVE  InputInv'
    OBVIOUS
<1> USE InputAssumption
<1>0. /\ buttons \in [Button -> ButtonType] /\ Current(buttons, began) /\ screens \in Nat
      /\ HeldNotCarried /\ pins \in SUBSET Button
    BY DEF InputInv, Current
<1>1. CASE MovePins
    BY <1>1 DEF MovePins, InputInv, HeldNotCarried
<1>2. CASE ChangeScreen
  <2>1. PICK after \in Map : SetMap(buttons, after)
      BY <1>2 DEF ChangeScreen
  <2>2. Current(buttons, began')
      BY <1>0, <1>2 DEF ChangeScreen
  <2>3. screens' \in Nat /\ Current(buttons, began)'
      BY <1>0, <2>1, <2>2, SetMapCurrent
  <2>4. QED
      BY <1>2, <2>3 DEF ChangeScreen, InputInv, Current, HeldNotCarried
<1>3. CASE Consume
  <2>1. buttons' = Controller(pins) /\ screens' = screens + 1
      BY <1>3 DEF Consume
  <2>2. buttons' \in [Button -> ButtonType]
      BY <2>1, ControllerCurrent DEF Controller, ButtonType
  <2>3. \A k \in Button : ~(buttons'[k].stable /\ ~buttons'[k].blocked)
      BY <2>1, ControllerCurrent
  <2>4. QED
      BY <1>0, <1>3, <2>1, <2>2, <2>3 DEF Consume, InputInv, HeldNotCarried
<1>4. CASE BeginUpdate
  <2>1. pass' \in [at : Button, mask : SUBSET Button]
      BY <1>0, <1>4 DEF BeginUpdate, Button
  <2>2. QED
      BY <1>4, <2>1 DEF BeginUpdate, InputInv, HeldNotCarried
<1>5. CASE Update
  <2> DEFINE k == pass.at
             was == buttons[k]
             bs == [buttons EXCEPT ![k].sampled = k \in pass.mask]
             turned == [bs EXCEPT ![k].stable = ~was.stable, ![k].blocked = FALSE]
  <2>1. pass \in [at : Button, mask : SUBSET Button] /\ k \in Button /\ was \in ButtonType
      BY <1>0, <1>5 DEF Update, InputInv
  <2>2. /\ bs \in [Button -> ButtonType]
        /\ \A j \in Button : bs[j].stable = buttons[j].stable /\ bs[j].blocked = buttons[j].blocked
    <3>1. \A v \in BOOLEAN : LET s == [was EXCEPT !.sampled = v]
                           IN s.stable = was.stable /\ s.blocked = was.blocked
        BY <2>1 DEF ButtonType
    <3>2. bs[k] = [was EXCEPT !.sampled = k \in pass.mask] /\ \A j \in Button \ {k} : bs[j] = buttons[j]
        BY <1>0, <2>1
    <3>3. bs[k].stable = was.stable /\ bs[k].blocked = was.blocked
        BY <3>1, <3>2, (k \in pass.mask) \in BOOLEAN, Zenon
    <3>4. bs \in [Button -> ButtonType]
      <4>1. \A v \in BOOLEAN : [buttons EXCEPT ![k].sampled = v] \in [Button -> ButtonType]
          BY <1>0, <2>1, SampledType
      <4>2. (k \in pass.mask) \in BOOLEAN
          OBVIOUS
      <4>3. QED
          BY <4>1, <4>2, Zenon
    <3>5. QED
        BY <3>2, <3>3, <3>4
  <2>3. /\ turned \in [Button -> ButtonType]
        /\ turned[k].stable = ~was.stable
        /\ \A j \in Button \ {k} : turned[j] = bs[j]
      BY <2>1, <2>2, ZenonT(60) DEF ButtonType
  <2>4. pass' = Waiting \/ pass' \in [at : Button, mask : SUBSET Button]
      BY <1>5, <2>1 DEF Update, Button
  <2>5. ASSUME NEW cs, Current(cs, began'), \/ Emit(k, cs) /\ began'[k] = screens
                                            \/ Silent(cs)
        PROVE  InputInv'
    <3>1. pins' \in SUBSET Button
        BY <1>0, <1>5 DEF Update
    <3>2. CASE Emit(k, cs) /\ began'[k] = screens
      <4>1. screens' \in Nat /\ Current(buttons, began)'
          BY <1>0, <2>5, <3>2, SetMapCurrent DEF Emit
      <4>2. HeldNotCarried'
          BY <3>2 DEF Emit, HeldNotCarried
      <4>3. QED
          BY <2>4, <3>1, <4>1, <4>2 DEF InputInv, Current
    <3>3. CASE Silent(cs)
        BY <1>0, <2>4, <2>5, <3>1, <3>3 DEF Silent, InputInv, Current, HeldNotCarried
    <3>4. QED
        BY <2>5, <3>2, <3>3
  <2>6. CASE /\ was.sampled = bs[k].sampled /\ was.stable # was.sampled
             /\ began' = IF was.stable THEN began ELSE [began EXCEPT ![k] = screens]
             /\ IF ~was.stable /\ k \in map.enabled THEN Emit(k, turned) ELSE Silent(turned)
    <3>1. Current(turned, began') /\ (~was.stable => began'[k] = screens)
        BY <1>0, <2>1, <2>2, <2>3, <2>6, ZenonT(60) DEF Current
    <3>2. QED
        BY <2>5, <2>6, <3>1
  <2>7. CASE /\ was.stable /\ ~was.blocked /\ k \in map.repeats
             /\ UNCHANGED began /\ Emit(k, bs)
    <3>1. Current(bs, began') /\ began'[k] = screens
        BY <1>0, <2>1, <2>2, <2>7 DEF Current
    <3>2. QED
        BY <2>5, <2>7, <3>1
  <2>8. CASE Silent(bs) /\ UNCHANGED began
    <3>1. Current(bs, began')
        BY <1>0, <2>2, <2>8 DEF Current
    <3>2. QED
        BY <2>5, <2>8, <3>1
  <2>9. QED
      BY <1>5, <2>6, <2>7, <2>8 DEF Update
<1>6. CASE UNCHANGED ivars
    BY <1>6 DEF ivars, InputInv, HeldNotCarried
<1>7. QED
    BY <1>1, <1>2, <1>3, <1>4, <1>5, <1>6 DEF INext

\* A press acts on one screen only, whichever button's event changed the map in
\* the middle of fv_input_controller_update.
THEOREM InputHeldNotCarried == ISpec => []HeldNotCarried
<1>1. IInit => InputInv
  <2> SUFFICES ASSUME IInit
               PROVE  InputInv
      OBVIOUS
  <2>1. buttons \in [Button -> ButtonType]
      BY DEF IInit, Controller, ButtonType
  <2>2. \A k \in Button : ~(buttons[k].stable /\ ~buttons[k].blocked)
      BY ControllerCurrent DEF IInit
  <2>3. QED
      BY <2>1, <2>2 DEF IInit, InputInv, HeldNotCarried
<1>2. InputInv => HeldNotCarried
    BY DEF InputInv
<1>3. QED
    BY <1>1, <1>2, InputStep, PTL DEF ISpec

-----------------------------------------------------------------------------
(* The security journal, for every block size, number of records and       *)
(* number of cuts.  No record is written over, a block is erased only when *)
(* the latest record is in the other one, and a new record is newer than   *)
(* everything in the flash.                                                *)

PageType == [Page -> -1 .. MaxSequence]
Distinct == \A p, q \in Page : page[p] > 0 /\ page[p] = page[q] => p = q

\* While an append is under way the number it read is the newest there is; it
\* erases the block without that record and programs an erased page.
LegacyJournalInv ==
    /\ page \in PageType /\ known \in 0 .. MaxSequence
    /\ writing \in [op : {"none", "erase", "program"}, at : Nat]
    /\ Distinct
    /\ known > 0 => \E p \in Page : page[p] >= known
    /\ writing.op # "none" => known < MaxSequence /\ \A p \in Page : page[p] <= known
    /\ writing.op = "erase" =>
         writing.at \in 0 .. 1 /\ \A p \in PagesOf(writing.at) : page[p] = known => known = 0
    /\ writing.op = "program" => writing.at \in Page /\ page[writing.at] = Erased

\* What scan finds in a flash without duplicates: the newest record, where it
\* is, and an erased page when there is one.
LEMMA ScanFacts ==
    ASSUME page \in PageType, Distinct
    PROVE  /\ Scan.result # "SEQUENCE_ERROR"
           /\ Scan.seq \in 0 .. MaxSequence
           /\ \A p \in Page : page[p] <= Scan.seq
           /\ Scan.seq > 0 => Scan.at \in Page /\ page[Scan.at] = Scan.seq
           /\ Scan.free # -1 => Scan.free \in Page /\ page[Scan.free] = Erased
<1> DEFINE good == {p \in Page : page[p] > 0}
           free == {p \in Page : page[p] = Erased}
           tops == {page[p] : p \in good}
           top == IF good = {} THEN 0 ELSE Max(tops)
           holders == {p \in good : page[p] = top}
<1>1. /\ Page \subseteq Nat /\ \A p \in Page : page[p] \in -1 .. MaxSequence
      /\ MaxSequence \in Nat
    BY PagesAssumption, AppendBounds DEF Page, PageType
<1>2. /\ Scan.result = IF Cardinality(holders) > 1 THEN "SEQUENCE_ERROR"
                       ELSE IF good = {} THEN "EMPTY" ELSE "OK"
      /\ Scan.seq = top
      /\ Scan.at = IF good = {} THEN -1 ELSE Min(holders)
    BY DEF Scan
<1>3. Scan.free # -1 => Scan.free \in Page /\ page[Scan.free] = Erased
  <2>1. Scan.free = IF free = {} THEN -1 ELSE Min(free)
      BY DEF Scan
  <2>2. ASSUME free # {}
        PROVE  Min(free) \in free
    <3>1. \E x \in free : \A y \in free : x =< y
        BY <1>1, <2>2, LeastNat
    <3>2. QED
        BY <3>1 DEF Min
  <2>3. QED
      BY <2>1, <2>2
<1>4. CASE good = {}
  <2>1. holders = {} /\ top = 0
      BY <1>4
  <2>2. Cardinality(holders) = 0
      BY <2>1, FS_EmptySet
  <2>3. /\ Scan.result = "EMPTY" /\ Scan.seq = 0
      BY <1>4, <2>1, <2>2 DEF Scan
  <2>4. \A p \in Page : page[p] <= 0
      BY <1>1, <1>4
  <2>5. QED
      BY <1>1, <1>3, <2>3, <2>4
<1>5. CASE good # {}
  <2>1. tops \subseteq 0 .. MaxSequence /\ tops # {}
    <3>1. \A p \in good : page[p] \in 0 .. MaxSequence
        BY <1>1
    <3>2. PICK p \in good : TRUE
        BY <1>5
    <3>3. page[p] \in tops
        BY <3>2
    <3>4. QED
        BY <3>1, <3>3
  <2>2. \E x \in tops : \A y \in tops : x >= y
      BY <1>1, <2>1, GreatestNat
  <2>3. top \in tops /\ \A y \in tops : top >= y
      BY <1>5, <2>2 DEF Max
  <2>4. PICK h \in good : page[h] = top
      BY <2>3
  <2>5. holders = {h}
      BY <2>4 DEF Distinct
  <2>6. Cardinality(holders) = 1
      BY <2>5, FS_Singleton
  <2>7. Min(holders) = h
    <3>1. h \in Nat
        BY <1>1
    <3>2. \A x \in {h} : (\A y \in {h} : x =< y) => x = h
        OBVIOUS
    <3>3. \E x \in {h} : \A y \in {h} : x =< y
        BY <3>1
    <3>4. QED
        BY <2>5, <3>2, <3>3 DEF Min
  <2>8. Scan.result = "OK" /\ Scan.seq = top /\ Scan.at = h
    <3> HIDE DEF good, top, holders
    <3>1. ~(Cardinality(holders) > 1)
        BY <2>6
    <3>2. QED
        BY <1>5, <2>7, <1>2, <3>1
  <2>9. \A p \in Page : page[p] <= top
    <3> SUFFICES ASSUME NEW p \in Page
                 PROVE  page[p] <= top
        OBVIOUS
    <3>1. CASE page[p] > 0
        BY <1>1, <2>1, <2>3, <3>1
    <3>2. CASE ~(page[p] > 0)
        BY <1>1, <2>1, <2>3, <3>2
    <3>3. QED
        BY <3>1, <3>2
  <2>10. top \in 0 .. MaxSequence /\ h \in Page /\ page[h] = top
      BY <2>1, <2>3, <2>4
  <2>11. QED
    <3> HIDE DEF good, top, holders, tops
    <3>1. QED
        BY <1>3, <2>8, <2>9, <2>10
<1>6. QED
    BY <1>4, <1>5

\* The block that may be erased does not hold the latest record.
LEMMA SpareFacts ==
    ASSUME page \in PageType, Distinct, Scan.seq > 0
    PROVE  Spare \in 0 .. 1 /\ \A p \in PagesOf(Spare) : page[p] # Scan.seq
<1>1. Scan.at \in Page /\ page[Scan.at] = Scan.seq
    BY ScanFacts
<1>2. Scan.at \notin PagesOf(Spare)
    BY <1>1 DEF Spare, PagesOf
<1>3. QED
    BY <1>1, <1>2 DEF Spare, PagesOf, Distinct

\* A block is wholly in the flash and begins with its first page.
LEMMA BlockFacts ==
    ASSUME NEW block \in 0 .. 1
    PROVE  PagesOf(block) \subseteq Page /\ block * PagesPerBlock \in PagesOf(block)
<1>1. CASE block = 0
  <2>1. 0 \div PagesPerBlock = 0
      BY PagesAssumption, SMT
  <2>2. QED
      BY <1>1, <2>1, PagesAssumption DEF PagesOf, Page
<1>2. CASE block = 1
  <2>1. PagesPerBlock \div PagesPerBlock = 1
      BY PagesAssumption, SMT
  <2>2. QED
      BY <1>2, <2>1, PagesAssumption DEF PagesOf, Page
<1>3. QED
    BY <1>1, <1>2

\* Erasing the spare block, wholly or in part, loses no record that counts.
LEMMA EraseKeeps ==
    ASSUME LegacyJournalInv, writing.op = "erase",
           page' \in PageType, known' = known,
           \A p \in Page \ PagesOf(writing.at) : page'[p] = page[p],
           \A p \in PagesOf(writing.at) : page'[p] \in {page[p], Erased, Ruined}
    PROVE  /\ Distinct'
           /\ known > 0 => \E p \in Page : page'[p] >= known
           /\ \A p \in Page : page'[p] <= known
<1> USE DEF LegacyJournalInv
<1>0. \A p \in Page : page[p] \in Int /\ page[p] <= known
    BY DEF PageType
<1>1. \A p \in Page : page'[p] \in {page[p], Erased, Ruined} /\ known \in Nat
    BY DEF PagesOf
<1>2. Distinct'
    BY <1>0, <1>1 DEF Distinct, Erased, Ruined
<1>3. ASSUME known > 0
      PROVE  \E p \in Page : page'[p] >= known
  <2>1. PICK p \in Page : page[p] >= known
      BY <1>3
  <2>2. page[p] = known
      BY <1>0, <1>1, <2>1
  <2>3. p \notin PagesOf(writing.at)
      BY <1>3, <2>2
  <2>4. QED
      BY <2>1, <2>3
<1>4. \A p \in Page : page'[p] <= known
    BY <1>0, <1>1 DEF Erased, Ruined
<1>5. QED
    BY <1>2, <1>3, <1>4

\* Every step of fv_security_journal_append and every cut keeps the invariant.
LEMMA LegacyJournalStep == LegacyJournalInv /\ [JNext]_jvars => LegacyJournalInv'
<1> SUFFICES ASSUME LegacyJournalInv, [JNext]_jvars
             PROVE  LegacyJournalInv'
    OBVIOUS
<1> USE AppendBounds
<1>0. /\ page \in PageType /\ Distinct /\ known \in 0 .. MaxSequence
      /\ \A p \in Page : page[p] \in Int /\ Page \subseteq Nat
    BY PagesAssumption DEF LegacyJournalInv, PageType, Page
<1>9. Resting \in [op : {"none", "erase", "program"}, at : Nat] /\ Resting.op = "none"
    BY DEF Resting
<1>1. CASE AppendRecord
  <2>1. /\ UNCHANGED page /\ known' = Scan.seq /\ Scan.seq < MaxSequence
        /\ writing' = IF Scan.free = -1 THEN [op |-> "erase", at |-> Spare]
                      ELSE [op |-> "program", at |-> Scan.free]
      BY <1>1 DEF AppendRecord
  <2>2. /\ Scan.seq \in 0 .. MaxSequence /\ \A p \in Page : page[p] <= Scan.seq
        /\ Scan.seq > 0 => \E p \in Page : page[p] >= Scan.seq
      BY <1>0, ScanFacts
  <2>3. page' \in PageType /\ Distinct' /\ known' \in 0 .. MaxSequence
        /\ (known' > 0 => \E p \in Page : page'[p] >= known')
        /\ known' < MaxSequence /\ \A p \in Page : page'[p] <= known'
      BY <1>0, <2>1, <2>2 DEF Distinct
  <2>4. CASE Scan.free = -1
    <3>1. Spare \in 0 .. 1
        BY DEF Spare
    <3>2. writing'.op = "erase" /\ writing'.at = Spare
          /\ writing' \in [op : {"none", "erase", "program"}, at : Nat]
        BY <2>1, <2>4, <3>1
    <3>3. \A p \in PagesOf(Spare) : page[p] = Scan.seq => Scan.seq = 0
        BY <1>0, <2>2, SpareFacts
    <3>4. QED
        BY <2>1, <2>3, <3>1, <3>2, <3>3 DEF LegacyJournalInv
  <2>5. CASE Scan.free # -1
    <3>1. Scan.free \in Page /\ page[Scan.free] = Erased
        BY <1>0, <2>5, ScanFacts
    <3>2. writing'.op = "program" /\ writing'.at = Scan.free
          /\ writing' \in [op : {"none", "erase", "program"}, at : Nat]
        BY <1>0, <2>1, <2>5, <3>1
    <3>3. QED
        BY <2>1, <2>3, <3>1, <3>2 DEF LegacyJournalInv
  <2>6. QED
      BY <2>4, <2>5
<1>2. CASE Erase
  <2>1. /\ writing.op = "erase" /\ writing.at \in 0 .. 1 /\ known' = known /\ known < MaxSequence
        /\ page' = [p \in Page |-> IF p \in PagesOf(writing.at) THEN Erased ELSE page[p]]
        /\ writing' = [op |-> "program", at |-> writing.at * PagesPerBlock]
      BY <1>2 DEF Erase, LegacyJournalInv
  <2>2. writing.at * PagesPerBlock \in PagesOf(writing.at) /\ PagesOf(writing.at) \subseteq Page
      BY <2>1, BlockFacts
  <2>3. /\ page' \in PageType
        /\ \A p \in Page \ PagesOf(writing.at) : page'[p] = page[p]
        /\ \A p \in PagesOf(writing.at) : page'[p] = Erased
      BY <1>0, <2>1, <2>2 DEF PageType, Erased
  <2>4. /\ Distinct'
        /\ known > 0 => \E p \in Page : page'[p] >= known
        /\ \A p \in Page : page'[p] <= known
      BY <2>1, <2>3, EraseKeeps
  <2>5. writing' \in [op : {"none", "erase", "program"}, at : Nat] /\ writing'.op = "program"
        /\ writing'.at \in Page /\ page'[writing'.at] = Erased
      BY <1>0, <2>1, <2>2, <2>3
  <2>6. QED
      BY <1>0, <2>1, <2>3, <2>4, <2>5 DEF LegacyJournalInv
<1>3. CASE EraseBroken
  <2>1. /\ writing.op = "erase" /\ known' = known /\ writing' = Resting
        /\ writing.at \in 0 .. 1
      BY <1>3 DEF EraseBroken, Mishap, LegacyJournalInv
  <2>2. PICK o \in [PagesOf(writing.at) -> {"old", "ruined", "erased"}] :
           page' = [p \in Page |-> IF p \notin PagesOf(writing.at) \/ o[p] = "old" THEN page[p]
                                   ELSE IF o[p] = "ruined" THEN Ruined ELSE Erased]
      BY <1>3 DEF EraseBroken
  <2>3. /\ page' \in PageType
        /\ \A p \in Page \ PagesOf(writing.at) : page'[p] = page[p]
        /\ \A p \in PagesOf(writing.at) : page'[p] \in {page[p], Erased, Ruined}
      BY <1>0, <2>1, <2>2, BlockFacts DEF PageType, Erased, Ruined
  <2>4. /\ Distinct'
        /\ known > 0 => \E p \in Page : page'[p] >= known
      BY <2>1, <2>3, EraseKeeps
  <2>5. QED
      BY <1>0, <1>9, <2>1, <2>3, <2>4 DEF LegacyJournalInv
<1>4. ASSUME NEW left \in {Erased, Ruined, known + 1}, writing.op = "program",
             page' = [page EXCEPT ![writing.at] = left], writing' = Resting,
             known' = known \/ (left = known + 1 /\ known' = known + 1)
      PROVE  LegacyJournalInv'
  <2>1. /\ writing.at \in Page /\ page[writing.at] = Erased /\ known < MaxSequence
        /\ \A p \in Page : page[p] <= known
      BY <1>4 DEF LegacyJournalInv
  <2>2. /\ left \in -1 .. MaxSequence /\ known' \in 0 .. MaxSequence
        /\ \A p \in Page : page'[p] = IF p = writing.at THEN left ELSE page[p]
      BY <1>0, <1>4, <2>1 DEF PageType, Erased, Ruined
  <2>3. page' \in PageType
      BY <1>0, <1>4, <2>2 DEF PageType
  <2>4. Distinct'
      BY <1>0, <1>4, <2>1, <2>2 DEF Distinct, Erased, Ruined
  <2>5. ASSUME known' > 0
        PROVE  \E p \in Page : page'[p] >= known'
    <3>1. CASE known' = known
      <4>1. PICK p \in Page : page[p] >= known
          BY <2>5, <3>1 DEF LegacyJournalInv
      <4>2. p # writing.at
          BY <1>0, <2>1, <2>5, <3>1, <4>1 DEF Erased
      <4>3. QED
          BY <2>2, <3>1, <4>1, <4>2
    <3>2. CASE left = known + 1 /\ known' = known + 1
        BY <1>0, <2>1, <2>2, <3>2
    <3>3. QED
        BY <1>4, <3>1, <3>2
  <2>6. QED
      BY <1>4, <1>9, <2>2, <2>3, <2>4, <2>5 DEF LegacyJournalInv
<1>5. CASE Program
    BY <1>4, <1>5 DEF Program
<1>6. CASE ProgramBroken
    BY <1>4, <1>6 DEF ProgramBroken, Mishap
<1>7. CASE UNCHANGED jvars
    BY <1>7 DEF jvars, LegacyJournalInv, PageType, Distinct
<1>8. QED
    BY <1>1, <1>2, <1>3, <1>5, <1>6, <1>7 DEF JNext

\* However appends are cut off, recovery finds the newest record that was ever
\* acknowledged or recovered, or a newer one, and never two of the same number:
\* an attempt that was charged stays charged.
THEOREM LegacyJournalNeverGoesBack == JSpec => []JournalNeverGoesBack
<1>1. JInit => LegacyJournalInv
  <2> SUFFICES ASSUME JInit
               PROVE  LegacyJournalInv
      OBVIOUS
  <2>1. page \in PageType /\ \A p \in Page : page[p] <= 0 /\ page[p] \in Int
      BY AppendBounds DEF JInit, PageType, Erased, Ruined
  <2>2. QED
      BY <2>1, AppendBounds DEF JInit, LegacyJournalInv, Distinct, Resting
<1>2. LegacyJournalInv => JournalNeverGoesBack
  <2> SUFFICES ASSUME LegacyJournalInv
               PROVE  JournalNeverGoesBack
      OBVIOUS
  <2>1. /\ Scan.result # "SEQUENCE_ERROR" /\ Scan.seq \in 0 .. MaxSequence
        /\ \A p \in Page : page[p] <= Scan.seq
      BY ScanFacts DEF LegacyJournalInv
  <2>2. known \in Nat /\ (known > 0 => \E p \in Page : page[p] >= known)
        /\ \A p \in Page : page[p] \in Int
      BY AppendBounds DEF LegacyJournalInv, PageType
  <2>3. QED
      BY <2>1, <2>2, AppendBounds DEF JournalNeverGoesBack
<1>3. QED
    BY <1>1, <1>2, LegacyJournalStep, PTL DEF JSpec
-----------------------------------------------------------------------------
(* The passkey store, for every set of sectors and images and every number *)
(* of commits and cuts.  A write goes to the slot that does not hold the   *)
(* newest generation, of the bank that is not in force.                    *)

Data == {Nothing} \cup UNION {{image[s] : s \in Sector} : image \in Image}
SlotType == [kind : {"empty", "ruined", "valid"}, gen : Nat, data : Data]

\* A valid slot is the one of its generation's parity.
PairSound(pair) ==
    /\ pair \in [0 .. 1 -> SlotType]
    /\ \A i \in 0 .. 1 : pair[i].kind = "valid" => pair[i].gen > 0 /\ pair[i].gen % 2 = 1 - i

\* The sectors a commit has written read back as its image.
Written(bank) ==
    \A s \in Sector \ commit.left :
        LET sel == Selected(slots[bank][s])
        IN sel.result = "OK" /\ sel.data = commit.image[s]

\* A commit that goes on fills the other bank; the bank in force is the one the
\* open store was found in.
BlockInv ==
    /\ slots \in [0 .. 1 -> [Sector -> [0 .. 1 -> SlotType]]]
    /\ \A k \in 0 .. 1, s \in Sector : PairSound(slots[k][s])
    /\ store \in [ready : BOOLEAN, active : 0 .. 1]
    /\ commit \in [image : Image \cup {None}, left : SUBSET Sector, on : BOOLEAN]
    /\ commit.left # {} => commit.on
    /\ commit.on => store.ready /\ commit.image \in Image /\ Written(TargetBank)
    /\ store.ready /\ digest # None => store.active \in InForce
    /\ AnchoredImageKept

\* select_impl finds the highest generation, or zero when no slot is valid.
LEMMA SelectedFacts ==
    ASSUME NEW pair, PairSound(pair)
    PROVE  /\ Selected(pair).gen \in Nat
           /\ \A i \in 0 .. 1 : pair[i].kind = "valid" => pair[i].gen <= Selected(pair).gen
           /\ \/ Selected(pair).gen = 0 /\ \A i \in 0 .. 1 : pair[i].kind # "valid"
              \/ \E i \in 0 .. 1 : pair[i].kind = "valid" /\ pair[i].gen = Selected(pair).gen
<1> DEFINE good == {pair[i] : i \in {j \in 0 .. 1 : pair[j].kind = "valid"}}
           newest == CHOOSE g \in good : \A h \in good : h.gen <= g.gen
<1>1. Selected(pair).gen = IF good = {} THEN 0 ELSE newest.gen
    BY DEF Selected
<1>2. \A i \in 0 .. 1 : pair[i].gen \in Nat
    BY DEF PairSound, SlotType
<1>3. CASE good = {}
  <2>1. \A i \in 0 .. 1 : pair[i].kind # "valid"
      BY <1>3
  <2>2. QED
      BY <1>1, <1>3, <2>1
<1>4. CASE good # {}
  <2>1. \E g \in good : \A h \in good : h.gen <= g.gen
    <3>1. PICK i \in 0 .. 1 : pair[i].kind = "valid"
        BY <1>4
    <3>2. CASE pair[1 - i].kind = "valid" /\ pair[1 - i].gen > pair[i].gen
      <4>1. 1 - i \in 0 .. 1 /\ \A j \in 0 .. 1 : j = i \/ j = 1 - i
          OBVIOUS
      <4>2. QED
          BY <1>2, <3>1, <3>2, <4>1
    <3>3. CASE ~(pair[1 - i].kind = "valid" /\ pair[1 - i].gen > pair[i].gen)
      <4>1. 1 - i \in 0 .. 1 /\ \A j \in 0 .. 1 : j = i \/ j = 1 - i
          OBVIOUS
      <4>2. QED
          BY <1>2, <3>1, <3>3, <4>1
    <3>4. QED
        BY <3>2, <3>3
  <2>2. newest \in good /\ \A h \in good : h.gen <= newest.gen
      BY <2>1
  <2>3. PICK i \in 0 .. 1 : pair[i].kind = "valid" /\ newest = pair[i]
      BY <2>2
  <2>4. \A j \in 0 .. 1 : pair[j].kind = "valid" => pair[j].gen <= newest.gen
      BY <2>2
  <2>5. Selected(pair).gen = pair[i].gen
      BY <1>1, <1>4, <2>3
  <2>6. QED
      BY <1>2, <2>3, <2>4, <2>5
<1>5. QED
    BY <1>3, <1>4

\* The slot write_blocks_impl leaves alone is empty of any valid generation or
\* holds the newest one, so the new slot is its successor.
LEMMA OtherSlot ==
    ASSUME NEW pair, PairSound(pair)
    PROVE  LET t == Target(pair)
           IN t \in 0 .. 1
              /\ (pair[1 - t].kind = "valid" => pair[1 - t].gen = Selected(pair).gen)
<1> DEFINE n == Selected(pair).gen
           t == Target(pair)
<1>1. /\ n \in Nat
      /\ \A i \in 0 .. 1 : pair[i].kind = "valid" => pair[i].gen <= n
      /\ \/ n = 0 /\ \A i \in 0 .. 1 : pair[i].kind # "valid"
         \/ \E i \in 0 .. 1 : pair[i].kind = "valid" /\ pair[i].gen = n
    BY SelectedFacts
<1>2. t = n % 2 /\ t \in 0 .. 1 /\ 1 - t \in 0 .. 1
    BY <1>1 DEF Target
<1>3. ASSUME pair[1 - t].kind = "valid"
      PROVE  pair[1 - t].gen = n
  <2>1. PICK i \in 0 .. 1 : pair[i].kind = "valid" /\ pair[i].gen = n
      BY <1>1, <1>2, <1>3
  <2>2. n % 2 = 1 - i
      BY <2>1 DEF PairSound
  <2>3. i = 1 - t
      BY <1>2, <2>1, <2>2
  <2>4. QED
      BY <2>1, <2>3
<1>4. QED
    BY <1>2, <1>3

\* What write_blocks_impl wrote is what select_impl finds.
LEMMA SelectedAfterWrite ==
    ASSUME NEW pair, PairSound(pair), NEW d \in Data
    PROVE  LET q == [pair EXCEPT ![Target(pair)] = NextSlot(pair, d)]
           IN PairSound(q) /\ Selected(q).result = "OK" /\ Selected(q).data = d
<1> DEFINE n == Selected(pair).gen
           t == Target(pair)
           new == NextSlot(pair, d)
           q == [pair EXCEPT ![t] = new]
           good == {q[i] : i \in {j \in 0 .. 1 : q[j].kind = "valid"}}
           newest == CHOOSE g \in good : \A h \in good : h.gen <= g.gen
<1>1. n \in Nat /\ t \in 0 .. 1 /\ t = n % 2
      /\ (pair[1 - t].kind = "valid" => pair[1 - t].gen = n)
    BY SelectedFacts, OtherSlot DEF Target
<1>2. pair \in [0 .. 1 -> SlotType] /\ 1 - t \in 0 .. 1 /\ 1 - t # t
      /\ \A i \in 0 .. 1 : i = t \/ i = 1 - t
    BY <1>1 DEF PairSound
<1>3. new \in SlotType /\ new.kind = "valid" /\ new.gen = n + 1 /\ new.data = d
    BY <1>1 DEF NextSlot, SlotType
<1>4. q \in [0 .. 1 -> SlotType] /\ q[t] = new /\ q[1 - t] = pair[1 - t]
    BY <1>1, <1>2, <1>3
<1>5. (n + 1) % 2 = 1 - t
    BY <1>1
<1>6. PairSound(q)
  <2>1. pair[1 - t].kind = "valid" => pair[1 - t].gen > 0 /\ pair[1 - t].gen % 2 = 1 - (1 - t)
      BY <1>2 DEF PairSound
  <2>2. QED
    <3> HIDE DEF q, new, t, n
    <3>1. \A i \in 0 .. 1 : q[i].kind = "valid" => q[i].gen > 0 /\ q[i].gen % 2 = 1 - i
        BY <1>1, <1>2, <1>3, <1>4, <1>5, <2>1
    <3>2. QED
        BY <1>4, <3>1 DEF PairSound
<1> HIDE DEF q, new, t, n
<1>7. /\ new \in good
      /\ \A g \in good : g = new \/ g.gen = n
    BY <1>1, <1>2, <1>3, <1>4
<1>8. newest = new
  <2>1. \A h \in good : h.gen <= new.gen
      BY <1>1, <1>3, <1>7
  <2>2. \A g \in good : (\A h \in good : h.gen <= g.gen) => g = new
      BY <1>1, <1>3, <1>7
  <2>3. QED
      BY <1>7, <2>1, <2>2
<1>9. ~\E g, h \in good : g.gen - h.gen > 1
    BY <1>1, <1>3, <1>7
<1>10. Selected(q).result = "OK" /\ Selected(q).data = d
  <2>1. /\ good # {}
        /\ Selected(q).result = IF (\E g, h \in good : g.gen - h.gen > 1)
                                   \/ (good = {} /\ \E i \in 0 .. 1 : q[i].kind = "ruined")
                                THEN "INTEGRITY" ELSE "OK"
        /\ Selected(q).data = IF good = {} THEN Nothing ELSE newest.data
      BY <1>7 DEF Selected
  <2>2. QED
    <3> HIDE DEF good, newest
    <3>1. QED
        BY <1>3, <1>8, <1>9, <2>1
<1>11. QED
    BY <1>6, <1>10 DEF q, t, new

\* The bank in force and the images it holds follow from its slots alone.
LEMMA SameBank ==
    ASSUME NEW k \in 0 .. 1, slots'[k] = slots[k], digest' = digest
    PROVE  k \in InForce' <=> k \in InForce
BY DEF InForce, Readable, Content

\* A whole image that was written can be read.
LEMMA WrittenInForce ==
    ASSUME NEW k \in 0 .. 1, commit.left = {}, commit.image \in Image, Written(k)
    PROVE  Readable(k) /\ Content(k) = commit.image
<1>1. \A s \in Sector : Selected(slots[k][s]).result = "OK"
                        /\ Selected(slots[k][s]).data = commit.image[s]
    BY DEF Written
<1>2. commit.image = [s \in Sector |-> commit.image[s]]
    BY ImageAssumption
<1>3. QED
    BY <1>1, <1>2 DEF Readable, Content

\* Every step of a commit, of opening and of closing keeps the invariant.
LEMMA BlockStep == BlockInv /\ [BNext]_bvars => BlockInv'
<1> SUFFICES ASSUME BlockInv, [BNext]_bvars
             PROVE  BlockInv'
    OBVIOUS
<1>0. /\ slots \in [0 .. 1 -> [Sector -> [0 .. 1 -> SlotType]]]
      /\ \A k \in 0 .. 1, s \in Sector : PairSound(slots[k][s])
      /\ store \in [ready : BOOLEAN, active : 0 .. 1] /\ store.active \in 0 .. 1
      /\ commit \in [image : Image \cup {None}, left : SUBSET Sector, on : BOOLEAN]
      /\ TargetBank \in 0 .. 1 /\ TargetBank # store.active
    BY DEF BlockInv, TargetBank
<1>9. /\ NoCommit \in [image : Image \cup {None}, left : SUBSET Sector, on : BOOLEAN]
      /\ NoCommit.on = FALSE /\ NoCommit.left = {}
      /\ Closed \in [ready : BOOLEAN, active : 0 .. 1] /\ Closed.ready = FALSE
    BY DEF NoCommit, Closed
<1>1. CASE Open
  <2>1. /\ UNCHANGED <<slots, digest, commit>> /\ ~commit.on /\ (digest = None \/ InForce # {})
        /\ store' = [ready |-> TRUE,
                     active |-> IF digest = None THEN 1 ELSE IF 0 \in InForce THEN 0 ELSE 1]
      BY <1>1 DEF Open
  <2>2. InForce \subseteq 0 .. 1 /\ InForce' = InForce
      BY <2>1 DEF InForce, Readable, Content
  <2>3. digest # None => store'.active \in InForce
    <3>1. \A k \in InForce : k = 0 \/ k = 1
        BY <2>2
    <3>2. digest # None => 0 \in InForce \/ 1 \in InForce
        BY <2>1, <3>1
    <3>3. QED
        BY <2>1, <3>2
  <2>4. QED
      BY <1>0, <2>1, <2>2, <2>3 DEF BlockInv, AnchoredImageKept
<1>2. ASSUME NEW image \in Image, CommitBegin(image) PROVE BlockInv'
  <2>1. /\ UNCHANGED <<slots, digest, store>> /\ store.ready
        /\ commit' = [image |-> image, left |-> Sector, on |-> TRUE]
      BY <1>2 DEF CommitBegin
  <2>2. InForce' = InForce /\ Written(TargetBank)'
      BY <2>1 DEF InForce, Readable, Content, Written
  <2>3. QED
      BY <2>1, <2>2 DEF BlockInv, AnchoredImageKept
<1>3. CASE CommitSector
  <2> DEFINE tgt == TargetBank
             s == CHOOSE x \in commit.left : \A y \in commit.left : x <= y
             pair == slots[tgt][s]
             at == Target(pair)
             new == NextSlot(pair, commit.image[s])
  <2>1. commit.left # {} /\ commit.on /\ store.ready /\ commit.image \in Image
        /\ Written(tgt) /\ digest' = digest
      BY <1>3 DEF CommitSector, BlockInv
  <2>2. s \in commit.left /\ s \in Sector
    <3>1. commit.left \subseteq Sector
        BY <1>0
    <3>2. \E x \in commit.left : \A y \in commit.left : x <= y
        BY <2>1, <3>1, SectorAssumption, LeastNat
    <3>3. QED
        BY <3>1, <3>2
  <2>3. PairSound(pair) /\ at \in 0 .. 1 /\ commit.image[s] \in Data
    <3>1. PairSound(pair)
        BY <1>0, <2>2
    <3>2. at \in 0 .. 1
      <4> HIDE DEF pair
      <4>1. QED
          BY <3>1, OtherSlot
    <3>3. commit.image[s] \in Data
      <4> HIDE DEF s
      <4>1. QED
          BY <2>1, <2>2 DEF Data
    <3>4. QED
        BY <3>1, <3>2, <3>3
  <2>4. digest # None => store.active \in InForce
      BY <2>1 DEF BlockInv
  <2>5. ASSUME NEW v \in SlotType, slots' = [slots EXCEPT ![tgt][s][at] = v],
               PairSound([pair EXCEPT ![at] = v])
        PROVE  /\ slots' \in [0 .. 1 -> [Sector -> [0 .. 1 -> SlotType]]]
               /\ slots'[tgt][s] = [pair EXCEPT ![at] = v]
               /\ \A r \in Sector \ {s} : slots'[tgt][r] = slots[tgt][r]
               /\ \A k \in 0 .. 1, r \in Sector : PairSound(slots'[k][r])
               /\ digest # None => store.active \in InForce'
    <3> HIDE DEF tgt, s, at
    <3>1. /\ slots' \in [0 .. 1 -> [Sector -> [0 .. 1 -> SlotType]]]
          /\ slots'[tgt] = [slots[tgt] EXCEPT ![s][at] = v]
          /\ \A k \in 0 .. 1 \ {tgt} : slots'[k] = slots[k]
        BY <1>0, <2>2, <2>3, <2>5 DEF tgt
    <3>2. /\ slots'[tgt][s] = [pair EXCEPT ![at] = v]
          /\ \A r \in Sector \ {s} : slots'[tgt][r] = slots[tgt][r]
        BY <1>0, <2>2, <3>1 DEF tgt
    <3>3. \A k \in 0 .. 1, r \in Sector : PairSound(slots'[k][r])
        BY <1>0, <2>5, <3>1, <3>2
    <3>4. slots'[store.active] = slots[store.active]
        BY <1>0, <3>1 DEF tgt
    <3>5. QED
        BY <1>0, <2>1, <2>4, <3>1, <3>2, <3>3, <3>4, SameBank
  <2>6. /\ PairSound([pair EXCEPT ![at] = new]) /\ new \in SlotType
        /\ Selected([pair EXCEPT ![at] = new]).result = "OK"
        /\ Selected([pair EXCEPT ![at] = new]).data = commit.image[s]
    <3>1. new \in SlotType
        BY <2>3, SelectedFacts, SMTT(60) DEF NextSlot, SlotType
    <3>2. QED
        BY <2>3, <3>1, SelectedAfterWrite
  <2>7. PairSound([pair EXCEPT ![at] = RuinedSlot]) /\ RuinedSlot \in SlotType
    <3>1. RuinedSlot \in SlotType /\ RuinedSlot.kind = "ruined"
        BY DEF RuinedSlot, SlotType, Data
    <3>2. QED
        BY <2>3, <3>1 DEF PairSound
  <2> HIDE DEF tgt, s, pair, at, new
  <2>8. CASE /\ slots' = [slots EXCEPT ![tgt][s][at] = new]
             /\ commit' = [commit EXCEPT !.left = @ \ {s}] /\ UNCHANGED store
    <3>1. /\ commit' \in [image : Image \cup {None}, left : SUBSET Sector, on : BOOLEAN]
          /\ commit'.image = commit.image /\ commit'.on = commit.on
          /\ commit'.left = commit.left \ {s}
        BY <1>0, <2>8
    <3>2. /\ slots' \in [0 .. 1 -> [Sector -> [0 .. 1 -> SlotType]]]
          /\ slots'[tgt][s] = [pair EXCEPT ![at] = new]
          /\ \A r \in Sector \ {s} : slots'[tgt][r] = slots[tgt][r]
          /\ \A k \in 0 .. 1, r \in Sector : PairSound(slots'[k][r])
          /\ digest # None => store.active \in InForce'
        BY <2>5, <2>6, <2>8
    <3>3. TargetBank' = tgt
        BY <2>8 DEF tgt, TargetBank
    <3>4. Written(TargetBank)'
      <4>1. SUFFICES ASSUME NEW r \in Sector \ commit'.left
                     PROVE  /\ Selected(slots'[tgt][r]).result = "OK"
                            /\ Selected(slots'[tgt][r]).data = commit.image[r]
          BY <3>1, <3>3 DEF Written
      <4>2. CASE r = s
          BY <2>6, <3>2, <4>2
      <4>3. CASE r # s
          BY <2>1, <3>1, <3>2, <4>3 DEF Written
      <4>4. QED
          BY <4>2, <4>3
    <3>5. AnchoredImageKept'
        BY <2>1, <3>2 DEF AnchoredImageKept
    <3>6. QED
        BY <1>0, <2>1, <2>8, <3>1, <3>2, <3>4, <3>5 DEF BlockInv
  <2>9. ASSUME Fails, \/ UNCHANGED slots
                      \/ \E v \in {RuinedSlot, new} : slots' = [slots EXCEPT ![tgt][s][at] = v]
        PROVE  BlockInv'
    <3>1. /\ slots' \in [0 .. 1 -> [Sector -> [0 .. 1 -> SlotType]]]
          /\ \A k \in 0 .. 1, r \in Sector : PairSound(slots'[k][r])
          /\ digest # None => store.active \in InForce'
      <4>1. CASE UNCHANGED slots
          BY <1>0, <2>1, <2>4, <4>1, SameBank
      <4>2. CASE \E v \in {RuinedSlot, new} : slots' = [slots EXCEPT ![tgt][s][at] = v]
          BY <2>5, <2>6, <2>7, <4>2
      <4>3. QED
          BY <2>9, <4>1, <4>2
    <3>2. /\ commit' = NoCommit /\ store' \in [ready : BOOLEAN, active : 0 .. 1]
          /\ store'.ready = FALSE
        BY <1>0, <2>9 DEF Fails
    <3>3. AnchoredImageKept'
        BY <2>1, <3>1 DEF AnchoredImageKept
    <3>4. QED
        BY <1>9, <3>1, <3>2, <3>3 DEF BlockInv
  <2>10. QED
    <3>1. \/ /\ slots' = [slots EXCEPT ![tgt][s][at] = new]
             /\ commit' = [commit EXCEPT !.left = @ \ {s}] /\ UNCHANGED store
          \/ Fails /\ UNCHANGED slots
          \/ Fails /\ \E v \in {RuinedSlot, new} : slots' = [slots EXCEPT ![tgt][s][at] = v]
        BY <1>3 DEF CommitSector, tgt, s, at, pair, new
    <3>2. QED
        BY <2>8, <2>9, <3>1, SMTT(60)
<1>4. CASE CommitDigest
  <2>1. /\ commit.on /\ commit.left = {} /\ UNCHANGED slots
        /\ commit.image \in Image /\ Written(TargetBank) /\ store.ready
        /\ commit' = NoCommit
      BY <1>4 DEF CommitDigest, Fails, BlockInv
  <2>2. Readable(TargetBank) /\ Content(TargetBank) = commit.image
      BY <1>0, <2>1, WrittenInForce
  <2>3. digest' = commit.image => TargetBank \in InForce'
      BY <1>0, <2>1, <2>2 DEF InForce, Readable, Content
  <2>4. CASE digest' = commit.image /\ store' = [store EXCEPT !.active = 1 - @]
    <3>1. store' \in [ready : BOOLEAN, active : 0 .. 1] /\ store'.active = TargetBank
        BY <1>0, <2>4 DEF TargetBank
    <3>2. AnchoredImageKept'
        BY <2>3, <2>4 DEF AnchoredImageKept
    <3>3. QED
        BY <1>0, <1>9, <2>1, <2>3, <2>4, <3>1, <3>2 DEF BlockInv
  <2>5. CASE Fails /\ digest' \in {digest, commit.image}
    <3>1. store' \in [ready : BOOLEAN, active : 0 .. 1] /\ store'.ready = FALSE
        BY <1>0, <2>5 DEF Fails
    <3>2. AnchoredImageKept'
      <4>1. CASE digest' = commit.image
          BY <2>3, <4>1 DEF AnchoredImageKept
      <4>2. CASE digest' = digest
        <5>1. digest # None => store.active \in InForce'
            BY <1>0, <2>1, <4>2, SameBank DEF BlockInv
        <5>2. QED
            BY <4>2, <5>1 DEF AnchoredImageKept
      <4>3. QED
          BY <2>5, <4>1, <4>2
    <3>3. QED
        BY <1>0, <1>9, <2>1, <3>1, <3>2 DEF BlockInv
  <2>6. QED
      BY <1>4, <2>4, <2>5 DEF CommitDigest
<1>5. CASE CloseStore
  <2>1. store' = Closed /\ commit' = NoCommit /\ UNCHANGED <<slots, digest>>
      BY <1>5 DEF CloseStore
  <2>2. InForce' = InForce
      BY <2>1 DEF InForce, Readable, Content
  <2>3. QED
      BY <1>9, <2>1, <2>2 DEF BlockInv, AnchoredImageKept
<1>6. CASE UNCHANGED bvars
  <2>1. UNCHANGED <<slots, digest, store, commit>>
      BY <1>6 DEF bvars
  <2>2. InForce' = InForce /\ TargetBank' = TargetBank
      BY <2>1 DEF InForce, Readable, Content, TargetBank
  <2>3. Written(TargetBank)' <=> Written(TargetBank)
      BY <2>1, <2>2 DEF Written
  <2>4. QED
      BY <2>1, <2>2, <2>3 DEF BlockInv, AnchoredImageKept
<1>7. QED
    BY <1>1, <1>2, <1>3, <1>4, <1>5, <1>6 DEF BNext

\* The image whose digest is in the journal can be read from one of the banks,
\* wherever fv_fido_store_commit was cut off: no passkey that was committed is
\* lost.
THEOREM BlockAnchoredImageKept == BSpec => []AnchoredImageKept
<1>1. BInit => BlockInv
  <2> SUFFICES ASSUME BInit
               PROVE  BlockInv
      OBVIOUS
  <2>1. EmptySlot \in SlotType /\ EmptySlot.kind = "empty"
      BY DEF EmptySlot, SlotType, Data
  <2>2. /\ slots \in [0 .. 1 -> [Sector -> [0 .. 1 -> SlotType]]]
        /\ \A k \in 0 .. 1, s \in Sector, i \in 0 .. 1 : slots[k][s][i] = EmptySlot
      BY <2>1 DEF BInit
  <2>3. \A k \in 0 .. 1, s \in Sector : PairSound(slots[k][s])
      BY <2>1, <2>2 DEF PairSound
  <2>4. QED
      BY <2>2, <2>3 DEF BInit, BlockInv, NoCommit, Closed, AnchoredImageKept
<1>2. BlockInv => AnchoredImageKept
    BY DEF BlockInv
<1>3. QED
    BY <1>1, <1>2, BlockStep, PTL DEF BSpec

-----------------------------------------------------------------------------
(* The pickers of a secret, for every number of wheels, values and words   *)
(* and every length.                                                       *)

WheelEntry ==
    [method : {"WHEELS"}, values : [0 .. Wheels - 1 -> 0 .. WheelValues - 1],
     selected : 0 .. Wheels - 1]
TurnEntry == [method : {"DIRECTIONS"}, values : Seq(Way)]
PadEntry == [method : {"KEYPAD"}, values : Seq(0 .. 9), selected : 0 .. 11]
WordValue == 0 .. 63 \cup {EmptyWord}
WordEntry ==
    [method : {"WORD_LIST"}, values : [0 .. Words - 1 -> WordValue], selected : 0 .. Words - 1,
     depth : 0 .. 2, prefix : Nat, reviewing : BOOLEAN]
Key == Way \cup {SelectKey, BackKey}

\* The promise of WordsSound, of any entry.
SoundWords(e) ==
    /\ e.prefix < 4 ^ e.depth
    /\ e.reviewing => WordsComplete(e) /\ e.depth = 0
    /\ ~WordsComplete(e) => e.values[e.selected] = EmptyWord

\* No entry leaves its table: cursor, digits, lengths and words are those the
\* arrays of fv_secret_entry_t have room for.
EntryInBounds ==
    \/ entry \in WheelEntry
    \/ entry \in TurnEntry /\ Len(entry.values) <= MaxTurns
    \/ entry \in PadEntry /\ Len(entry.values) <= MaxPin
    \/ entry \in WordEntry

EntryInv == EntryInBounds /\ (entry \in WordEntry => SoundWords(entry))

\* A step round a wheel, a row or a column stays on it.
LEMMA StepFacts ==
    ASSUME NEW size \in Nat \ {0}, NEW n \in 0 .. size - 1, NEW forward \in BOOLEAN
    PROVE  Step(n, forward, size) \in 0 .. size - 1
<1>1. \A a \in Nat : a % size \in 0 .. size - 1
    BY SMT
<1>2. (n + (IF forward THEN 1 ELSE size - 1)) \in Nat
    OBVIOUS
<1>3. QED
    BY <1>1, <1>2 DEF Step

\* Every answer carries the entry.
LEMMA AnswerFacts ==
    ASSUME NEW e
    PROVE  Changed(e).entry = e /\ Ignored(e).entry = e /\ Complete(e).entry = e
BY DEF Changed, Ignored, Complete, Answered

\* The wheels stay within their values.
LEMMA WheelsStep ==
    ASSUME NEW e \in WheelEntry, NEW key \in Key
    PROVE  HandleWheels(e, key).entry \in WheelEntry
<1>1. /\ e.selected \in 0 .. Wheels - 1 /\ e.values \in [0 .. Wheels - 1 -> 0 .. WheelValues - 1]
      /\ e.values[e.selected] \in 0 .. WheelValues - 1
    BY DEF WheelEntry
<1>2. /\ Step(e.selected, key = Right, Wheels) \in 0 .. Wheels - 1
      /\ Step(e.values[e.selected], key = Up, WheelValues) \in 0 .. WheelValues - 1
  <2>1. (key = Right) \in BOOLEAN /\ (key = Up) \in BOOLEAN
      OBVIOUS
  <2>2. QED
      BY <1>1, <2>1, StepFacts, WheelAssumption, Zenon
<1>3. /\ \A n \in 0 .. Wheels - 1 : [e EXCEPT !.selected = n] \in WheelEntry
      /\ \A v \in 0 .. WheelValues - 1 : [e EXCEPT !.values[e.selected] = v] \in WheelEntry
    BY <1>1 DEF WheelEntry
<1>4. CASE key \in {Left, Right}
  <2>1. key \notin {Up, Down} /\ key # SelectKey
      BY <1>4 DEF Left, Right, Up, Down, SelectKey
  <2>2. HandleWheels(e, key) = Changed([e EXCEPT !.selected = Step(@, key = Right, Wheels)])
      BY <1>4, <2>1, Zenon DEF HandleWheels
  <2>3. [e EXCEPT !.selected = Step(e.selected, key = Right, Wheels)] \in WheelEntry
      BY <1>2, <1>3, Zenon
  <2>4. QED
      BY <2>2, <2>3, AnswerFacts, Zenon
<1>5. CASE key \in {Up, Down}
  <2>1. key \notin {Left, Right} /\ key # SelectKey
      BY <1>5 DEF Left, Right, Up, Down, SelectKey
  <2>2. HandleWheels(e, key) = Changed([e EXCEPT !.values[e.selected] = Step(@, key = Up, WheelValues)])
      BY <1>5, <2>1, Zenon DEF HandleWheels
  <2>3. [e EXCEPT !.values[e.selected] = Step(e.values[e.selected], key = Up, WheelValues)]
          \in WheelEntry
      BY <1>2, <1>3, Zenon
  <2>4. QED
      BY <2>2, <2>3, AnswerFacts, Zenon
<1>6. CASE key \in {SelectKey, BackKey}
  <2>1. key \notin {Left, Right} /\ key \notin {Up, Down}
      BY <1>6 DEF Left, Right, Up, Down, SelectKey, BackKey
  <2>2. HandleWheels(e, key) = Complete(e) \/ HandleWheels(e, key) = Ignored(e)
      BY <2>1, Zenon DEF HandleWheels
  <2>3. QED
      BY <2>2, AnswerFacts, Zenon
<1>7. QED
    BY <1>4, <1>5, <1>6 DEF Key, Way, Left, Right, Up, Down

\* What is left of a sequence without its last element.
LEMMA FrontFacts ==
    ASSUME NEW S, NEW q \in Seq(S), q # <<>>
    PROVE  Front(q) \in Seq(S) /\ Len(Front(q)) <= Len(q)
BY DEF Front

\* The directions stay within the buffer.
LEMMA DirectionsStep ==
    ASSUME NEW e \in TurnEntry, Len(e.values) <= MaxTurns, NEW key \in Key
    PROVE  LET f == HandleDirections(e, key).entry
           IN f \in TurnEntry /\ Len(f.values) <= MaxTurns
<1>1. e.values \in Seq(Way) /\ Len(e.values) \in Nat /\ MaxTurns \in Nat
    BY LengthAssumption DEF TurnEntry
<1>2. CASE key = BackKey /\ e.values # <<>>
  <2>1. key \notin Way /\ key # SelectKey
      BY <1>2 DEF Way, SelectKey, BackKey
  <2>2. HandleDirections(e, key) = Changed([e EXCEPT !.values = Front(@)])
      BY <1>2, <2>1, Zenon DEF HandleDirections
  <2>3. Front(e.values) \in Seq(Way) /\ Len(Front(e.values)) <= Len(e.values)
      BY <1>1, <1>2, FrontFacts
  <2>4. /\ [e EXCEPT !.values = Front(@)] \in TurnEntry
        /\ [e EXCEPT !.values = Front(@)].values = Front(e.values)
      BY <2>3 DEF TurnEntry
  <2>5. Len(Front(e.values)) <= MaxTurns
      BY <1>1, <2>3
  <2>6. QED
      BY <2>2, <2>4, <2>5, AnswerFacts, Zenon
<1>3. CASE key \in Way
  <2>1. key # BackKey /\ key # SelectKey
      BY <1>3 DEF Way, SelectKey, BackKey
  <2>2. HandleDirections(e, key) =
          Changed(IF Len(e.values) < MaxTurns THEN [e EXCEPT !.values = Append(@, key)] ELSE e)
      BY <1>3, <2>1, Zenon DEF HandleDirections
  <2>3. Append(e.values, key) \in Seq(Way) /\ Len(Append(e.values, key)) = Len(e.values) + 1
      BY <1>1, <1>3
  <2>4. /\ [e EXCEPT !.values = Append(@, key)] \in TurnEntry
        /\ [e EXCEPT !.values = Append(@, key)].values = Append(e.values, key)
      BY <2>3 DEF TurnEntry
  <2>5. Len(e.values) < MaxTurns => Len(Append(e.values, key)) <= MaxTurns
      BY <1>1, <2>3
  <2>6. QED
      BY <2>2, <2>4, <2>5, AnswerFacts, ZenonT(60)
<1>4. CASE key \notin Way /\ ~(key = BackKey /\ e.values # <<>>)
  <2>1. HandleDirections(e, key) = Complete(e) \/ HandleDirections(e, key) = Ignored(e)
      BY <1>4, Zenon DEF HandleDirections
  <2>2. QED
      BY <2>1, AnswerFacts, Zenon
<1>5. QED
    BY <1>2, <1>3, <1>4

\* The keypad: the cursor stays on its twelve cells and the digits in the buffer.
LEMMA KeypadStep ==
    ASSUME NEW e \in PadEntry, Len(e.values) <= MaxPin, NEW key \in Key
    PROVE  LET f == HandleKeypad(e, key).entry
           IN f \in PadEntry /\ Len(f.values) <= MaxPin
<1> DEFINE row == e.selected \div 4
           column == e.selected % 4
           value == KeypadValue[e.selected + 1]
           erased == IF e.values = <<>> THEN e ELSE [e EXCEPT !.values = Front(@)]
           added == [e EXCEPT !.values = Append(@, value)]
           Good(f) == f \in PadEntry /\ Len(f.values) <= MaxPin
<1>1. /\ e.selected \in 0 .. 11 /\ e.values \in Seq(0 .. 9) /\ Len(e.values) \in Nat
      /\ MaxPin \in Nat
    BY LengthAssumption DEF PadEntry
<1>2. row \in 0 .. 2 /\ column \in 0 .. 3 /\ value \in 0 .. 11
    BY <1>1, SMTT(60) DEF KeypadValue
<1>3. \A n \in 0 .. 11 : Good([e EXCEPT !.selected = n])
    BY <1>1 DEF PadEntry
<1>4. /\ row * 4 + Step(column, key = Right, 4) \in 0 .. 11
      /\ Step(row, key = Down, 3) * 4 + column \in 0 .. 11
  <2>1. Step(column, key = Right, 4) \in 0 .. 4 - 1 /\ Step(row, key = Down, 3) \in 0 .. 3 - 1
    <3>1. (key = Right) \in BOOLEAN /\ (key = Down) \in BOOLEAN
        OBVIOUS
    <3>2. column \in 0 .. 4 - 1 /\ row \in 0 .. 3 - 1 /\ 4 \in Nat \ {0} /\ 3 \in Nat \ {0}
        BY <1>2
    <3>3. QED
        BY <3>1, <3>2, StepFacts, Zenon
  <2>2. QED
    <3> HIDE DEF row, column
    <3>1. \A a \in 0 .. 3, r \in 0 .. 2 : r * 4 + a \in 0 .. 11
        OBVIOUS
    <3>2. QED
        BY <1>2, <2>1, <3>1, SMTT(60)
<1>5. Good(erased)
  <2>1. CASE e.values = <<>>
      BY <2>1
  <2>2. CASE e.values # <<>>
    <3>1. Front(e.values) \in Seq(0 .. 9) /\ Len(Front(e.values)) <= Len(e.values)
        BY <1>1, <2>2, FrontFacts
    <3>2. /\ [e EXCEPT !.values = Front(@)] \in PadEntry
          /\ [e EXCEPT !.values = Front(@)].values = Front(e.values)
        BY <3>1 DEF PadEntry
    <3>3. Len(Front(e.values)) <= MaxPin
        BY <1>1, <3>1
    <3>4. QED
        BY <2>2, <3>2, <3>3
  <2>3. QED
      BY <2>1, <2>2
<1>6. value < 10 /\ Len(e.values) < MaxPin => Good(added)
  <2> HIDE DEF value
  <2>1. ASSUME value < 10, Len(e.values) < MaxPin
        PROVE  Good(added)
    <3>1. Append(e.values, value) \in Seq(0 .. 9)
          /\ Len(Append(e.values, value)) = Len(e.values) + 1
        BY <1>1, <1>2, <2>1
    <3>2. added \in PadEntry /\ added.values = Append(e.values, value)
        BY <3>1 DEF PadEntry
    <3>3. Len(Append(e.values, value)) <= MaxPin
        BY <1>1, <2>1, <3>1
    <3>4. QED
        BY <3>2, <3>3
  <2>2. QED
      BY <2>1
<1>7. CASE key \in {Left, Right}
  <2>1. key \notin {Up, Down} /\ key # SelectKey /\ key # BackKey
      BY <1>7 DEF Left, Right, Up, Down, SelectKey, BackKey
  <2>2. HandleKeypad(e, key) = Changed([e EXCEPT !.selected = row * 4 + Step(column, key = Right, 4)])
      BY <1>7, <2>1, Zenon DEF HandleKeypad
  <2>3. Good([e EXCEPT !.selected = row * 4 + Step(column, key = Right, 4)])
      BY <1>3, <1>4, Zenon
  <2>4. QED
      BY <2>2, <2>3, AnswerFacts, ZenonT(60)
<1>8. CASE key \in {Up, Down}
  <2>1. key \notin {Left, Right} /\ key # SelectKey /\ key # BackKey
      BY <1>8 DEF Left, Right, Up, Down, SelectKey, BackKey
  <2>2. HandleKeypad(e, key) = Changed([e EXCEPT !.selected = Step(row, key = Down, 3) * 4 + column])
      BY <1>8, <2>1, Zenon DEF HandleKeypad
  <2>3. Good([e EXCEPT !.selected = Step(row, key = Down, 3) * 4 + column])
      BY <1>3, <1>4, Zenon
  <2>4. QED
      BY <2>2, <2>3, AnswerFacts, ZenonT(60)
<1>9. CASE key = BackKey
  <2>1. key \notin {Left, Right} /\ key \notin {Up, Down} /\ key # SelectKey
      BY <1>9 DEF Left, Right, Up, Down, SelectKey, BackKey
  <2>2. HandleKeypad(e, key) = Changed(erased) \/ HandleKeypad(e, key) = Ignored(e)
      BY <1>9, <2>1, Zenon DEF HandleKeypad
  <2>3. QED
      BY <1>5, <2>2, AnswerFacts, ZenonT(60)
<1>10. CASE key = SelectKey
  <2>1. key \notin {Left, Right} /\ key \notin {Up, Down} /\ key # BackKey
      BY <1>10 DEF Left, Right, Up, Down, SelectKey, BackKey
  <2>2. HandleKeypad(e, key) =
          IF value = 11 /\ Len(e.values) >= MinPin THEN Complete(e)
          ELSE Changed(IF value = 10 THEN erased
                       ELSE IF value < 10 /\ Len(e.values) < MaxPin THEN added ELSE e)
      BY <1>10, <2>1, Zenon DEF HandleKeypad
  <2>3. \/ HandleKeypad(e, key) = Complete(e)
        \/ HandleKeypad(e, key) = Changed(erased)
        \/ HandleKeypad(e, key) = Changed(added) /\ value < 10 /\ Len(e.values) < MaxPin
        \/ HandleKeypad(e, key) = Changed(e)
    <3> HIDE DEF value, erased, added
    <3>1. QED
        BY <2>2, Zenon
  <2>4. QED
      BY <1>5, <1>6, <2>3, AnswerFacts, ZenonT(60)
<1>11. QED
    BY <1>7, <1>8, <1>9, <1>10 DEF Key, Way, Left, Right, Up, Down

\* WordsComplete of an entry whose values are typed.
LEMMA CompleteFacts ==
    ASSUME NEW e \in WordEntry
    PROVE  /\ WordsComplete(e) <=> \A i \in 0 .. Words - 1 : e.values[i] # EmptyWord
           /\ DOMAIN e.values = 0 .. Words - 1
           /\ e.values \in [0 .. Words - 1 -> WordValue]
           /\ \A i \in 0 .. Words - 1 : e.values[i] \in WordValue
<1>1. e.values \in [0 .. Words - 1 -> WordValue]
    BY DEF WordEntry
<1>2. DOMAIN e.values = 0 .. Words - 1 /\ \A i \in 0 .. Words - 1 : e.values[i] \in WordValue
    BY <1>1
<1>3. \A v \in WordValue : v < 64 <=> v # EmptyWord
    BY DEF WordValue, EmptyWord
<1>4. QED
    BY <1>1, <1>2, <1>3 DEF WordsComplete

\* The missing word that is asked for next exists and is missing.
LEMMA NextMissingFacts ==
    ASSUME NEW e \in WordEntry, e.depth = 0, e.prefix = 0, ~e.reviewing
    PROVE  NextMissing(e) \in WordEntry /\ SoundWords(NextMissing(e))
<1>0. 4 ^ 0 = 1 /\ Words \in Nat
    BY WordAssumption
<1>1. CASE WordsComplete(e)
  <2>1. NextMissing(e) = [e EXCEPT !.reviewing = TRUE]
      BY <1>1 DEF NextMissing
  <2>2. /\ NextMissing(e) \in WordEntry /\ NextMissing(e).values = e.values
        /\ NextMissing(e).depth = 0 /\ NextMissing(e).prefix = 0
      BY <2>1 DEF WordEntry
  <2>3. WordsComplete(NextMissing(e))
      BY <1>1, <2>2 DEF WordsComplete
  <2>4. QED
      BY <1>0, <2>2, <2>3 DEF SoundWords
<1>2. CASE ~WordsComplete(e)
  <2> DEFINE missing == {i \in 0 .. Words - 1 : e.values[i] = EmptyWord}
             first == CHOOSE i \in DOMAIN e.values :
                        e.values[i] = EmptyWord /\ \A k \in 0 .. (i - 1) : e.values[k] # EmptyWord
  <2>1. missing \subseteq Nat /\ missing # {}
      BY <1>0, <1>2, CompleteFacts
  <2>2. PICK m \in missing : \A i \in missing : m <= i
      BY <2>1, LeastNat
  <2>3. \A k \in 0 .. (m - 1) : e.values[k] # EmptyWord
      BY <1>0, <2>2
  <2>4. first \in 0 .. Words - 1 /\ e.values[first] = EmptyWord
      BY <2>2, <2>3, CompleteFacts
  <2>5. NextMissing(e) = [e EXCEPT !.selected = first]
      BY <1>2, Zenon DEF NextMissing
  <2> HIDE DEF first
  <2>6. /\ NextMissing(e) \in WordEntry /\ NextMissing(e).values = e.values
        /\ NextMissing(e).depth = 0 /\ NextMissing(e).prefix = 0 /\ ~NextMissing(e).reviewing
        /\ NextMissing(e).selected = first
      BY <2>4, <2>5 DEF WordEntry
  <2>7. QED
      BY <1>0, <2>4, <2>6 DEF SoundWords
<1>3. QED
    BY <1>1, <1>2

\* BACK in the word list: an undone turn leaves a shorter prefix, and a word that
\* is taken back is the one asked for.
LEMMA WordsBackStep ==
    ASSUME NEW e \in WordEntry, SoundWords(e)
    PROVE  LET f == WordsBack(e).entry IN f \in WordEntry /\ SoundWords(f)
<1> DEFINE f == WordsBack(e).entry
<1>0. /\ 4 ^ 0 = 1 /\ 4 ^ 1 = 4 /\ 4 ^ 2 = 16 /\ Words \in Nat \ {0}
      /\ e.depth \in 0 .. 2 /\ e.prefix \in Nat /\ e.selected \in 0 .. Words - 1
      /\ e.reviewing \in BOOLEAN
    BY WordAssumption DEF WordEntry
<1>1. CASE e.depth > 0
  <2>1. WordsBack(e) = Changed([e EXCEPT !.depth = @ - 1, !.prefix = @ \div 4])
    <3>1. e.depth # 0
        BY <1>0, <1>1
    <3>2. QED
        BY <1>1, <3>1, Zenon DEF WordsBack
  <2>2. f = [e EXCEPT !.depth = @ - 1, !.prefix = @ \div 4]
      BY <2>1, AnswerFacts, Zenon
  <2>3. e.depth - 1 \in 0 .. 2 /\ e.prefix \div 4 \in Nat /\ e.prefix \div 4 < 4 ^ (e.depth - 1)
    <3>1. e.depth = 1 \/ e.depth = 2
        BY <1>0, <1>1
    <3>2. CASE e.depth = 1
        BY <1>0, <3>2 DEF SoundWords
    <3>3. CASE e.depth = 2
        BY <1>0, <3>3 DEF SoundWords
    <3>4. QED
        BY <3>1, <3>2, <3>3
  <2>4. /\ f \in WordEntry /\ f.values = e.values /\ f.selected = e.selected
        /\ f.reviewing = e.reviewing /\ f.depth = e.depth - 1 /\ f.prefix = e.prefix \div 4
      BY <2>2, <2>3 DEF WordEntry
  <2>5. ~e.reviewing /\ (WordsComplete(f) <=> WordsComplete(e))
      BY <1>0, <1>1, <2>4 DEF SoundWords, WordsComplete
  <2>6. QED
    <3> HIDE DEF f
    <3>1. SoundWords(f)
        BY <2>3, <2>4, <2>5 DEF SoundWords
    <3>2. QED
        BY <2>4, <3>1 DEF f
<1>2. CASE e.depth = 0 /\ ~e.reviewing /\ WordsComplete(e)
  <2>1. WordsBack(e) = Changed([e EXCEPT !.reviewing = TRUE])
    <3>1. ~(e.depth > 0)
        BY <1>2
    <3>2. QED
        BY <1>2, <3>1, Zenon DEF WordsBack
  <2>2. f = [e EXCEPT !.reviewing = TRUE]
      BY <2>1, AnswerFacts, Zenon
  <2>3. /\ f \in WordEntry /\ f.values = e.values /\ f.depth = e.depth /\ f.prefix = e.prefix
      BY <2>2 DEF WordEntry
  <2>4. WordsComplete(f)
      BY <1>2, <2>3 DEF WordsComplete
  <2>5. QED
      BY <1>2, <2>3, <2>4 DEF SoundWords
<1>3. CASE e.depth = 0 /\ (e.reviewing \/ (e.selected > 0 /\ ~WordsComplete(e)))
  <2> DEFINE at == IF e.reviewing THEN Words - 1 ELSE e.selected - 1
  <2>1. WordsBack(e) =
          Changed([e EXCEPT !.selected = at, !.values[at] = EmptyWord, !.reviewing = FALSE])
    <3>1. ~(e.depth > 0)
        BY <1>3
    <3>2. QED
        BY <1>3, <3>1, Zenon DEF WordsBack
  <2>2. f = [e EXCEPT !.selected = at, !.values[at] = EmptyWord, !.reviewing = FALSE]
      BY <2>1, AnswerFacts, Zenon
  <2>3. at \in 0 .. Words - 1
      BY <1>0, <1>3
  <2>4. e.values \in [0 .. Words - 1 -> WordValue] /\ EmptyWord \in WordValue
      BY DEF WordEntry, WordValue
  <2>5. [e.values EXCEPT ![at] = EmptyWord] \in [0 .. Words - 1 -> WordValue]
        /\ [e.values EXCEPT ![at] = EmptyWord][at] = EmptyWord
      BY <2>3, <2>4
  <2> HIDE DEF at
  <2>6. /\ f \in WordEntry /\ f.depth = e.depth /\ f.prefix = e.prefix /\ f.reviewing = FALSE
        /\ f.values[f.selected] = EmptyWord
      BY <2>2, <2>3, <2>5 DEF WordEntry
  <2>7. QED
      BY <2>6 DEF SoundWords
<1>4. CASE ~\/ e.depth > 0
            \/ e.depth = 0 /\ ~e.reviewing /\ WordsComplete(e)
            \/ e.depth = 0 /\ (e.reviewing \/ (e.selected > 0 /\ ~WordsComplete(e)))
  <2>1. WordsBack(e) = Ignored(e)
      BY <1>4, Zenon DEF WordsBack
  <2>2. QED
      BY <2>1, AnswerFacts, Zenon
<1>5. QED
    BY <1>1, <1>2, <1>3, <1>4

\* The word list, key by key.
LEMMA WordsStep ==
    ASSUME NEW e \in WordEntry, SoundWords(e), NEW key \in Key, key \in Way => key < WordWays
    PROVE  LET f == HandleWords(e, key).entry IN f \in WordEntry /\ SoundWords(f)
<1> DEFINE f == HandleWords(e, key).entry
<1>0. /\ 4 ^ 0 = 1 /\ 4 ^ 1 = 4 /\ 4 ^ 2 = 16 /\ Words \in Nat \ {0} /\ WordWays \in 0 .. Words
      /\ e.depth \in 0 .. 2 /\ e.prefix \in Nat /\ e.selected \in 0 .. Words - 1
      /\ e.reviewing \in BOOLEAN
    BY WordAssumption DEF WordEntry
<1>1. CASE key = BackKey
  <2>1. HandleWords(e, key) = WordsBack(e)
    <3>1. key # SelectKey /\ key \notin Way
        BY <1>1 DEF BackKey, SelectKey, Way
    <3>2. QED
        BY <1>1, <3>1, Zenon DEF HandleWords
  <2>2. QED
      BY <2>1, WordsBackStep
<1>2. CASE key = SelectKey
  <2>1. HandleWords(e, key) = Complete(e) \/ HandleWords(e, key) = Ignored(e)
    <3>1. key # BackKey /\ key \notin Way
        BY <1>2 DEF BackKey, SelectKey, Way
    <3>2. QED
        BY <1>2, <3>1, Zenon DEF HandleWords
  <2>2. QED
      BY <2>1, AnswerFacts, Zenon
<1>3. CASE key \in Way
  <2> DEFINE chosen == [e EXCEPT !.values[e.selected] = e.prefix * 4 + key,
                                 !.prefix = 0, !.depth = 0]
  <2>0. key \in 0 .. 3 /\ key < WordWays
      BY <1>3 DEF Way
  <2>1. HandleWords(e, key) =
          Changed(IF e.reviewing THEN [e EXCEPT !.selected = key, !.reviewing = FALSE]
                  ELSE IF e.depth < 2
                  THEN [e EXCEPT !.prefix = @ * 4 + key, !.depth = @ + 1]
                  ELSE NextMissing(chosen))
    <3>1. key # BackKey /\ key # SelectKey
        BY <1>3 DEF BackKey, SelectKey, Way
    <3>2. QED
        BY <1>3, <3>1, Zenon DEF HandleWords
  <2>2. CASE e.reviewing
    <3>1. f = [e EXCEPT !.selected = key, !.reviewing = FALSE]
        BY <2>1, <2>2, AnswerFacts, Zenon
    <3>2. key \in 0 .. Words - 1
        BY <1>0, <2>0
    <3>3. /\ f \in WordEntry /\ f.values = e.values /\ f.depth = e.depth /\ f.prefix = e.prefix
          /\ f.reviewing = FALSE
        BY <3>1, <3>2 DEF WordEntry
    <3>4. WordsComplete(f)
        BY <2>2, <3>3 DEF SoundWords, WordsComplete
    <3>5. QED
        BY <3>3, <3>4 DEF SoundWords
  <2>3. CASE ~e.reviewing /\ e.depth < 2
    <3>1. f = [e EXCEPT !.prefix = @ * 4 + key, !.depth = @ + 1]
        BY <2>1, <2>3, AnswerFacts, Zenon
    <3>2. /\ e.prefix * 4 + key \in Nat /\ e.depth + 1 \in 0 .. 2
          /\ e.prefix * 4 + key < 4 ^ (e.depth + 1)
      <4>1. CASE e.depth = 0
          BY <1>0, <2>0, <4>1 DEF SoundWords
      <4>2. CASE e.depth = 1
          BY <1>0, <2>0, <4>2 DEF SoundWords
      <4>3. QED
          BY <1>0, <2>3, <4>1, <4>2
    <3>3. /\ f \in WordEntry /\ f.values = e.values /\ f.selected = e.selected
          /\ f.reviewing = e.reviewing /\ f.depth = e.depth + 1 /\ f.prefix = e.prefix * 4 + key
        BY <3>1, <3>2 DEF WordEntry
    <3>4. WordsComplete(f) <=> WordsComplete(e)
        BY <3>3 DEF WordsComplete
    <3> HIDE DEF f
    <3>5. SoundWords(f)
        BY <2>3, <3>2, <3>3, <3>4 DEF SoundWords
    <3>6. QED
        BY <3>3, <3>5 DEF f
  <2>4. CASE ~e.reviewing /\ ~(e.depth < 2)
    <3>1. f = NextMissing(chosen)
        BY <2>1, <2>4, AnswerFacts, Zenon
    <3>2. e.prefix * 4 + key \in WordValue
      <4>1. e.depth = 2
          BY <1>0, <2>4
      <4>2. e.prefix < 16
          BY <4>1, <1>0 DEF SoundWords
      <4>3. e.prefix * 4 + key \in 0 .. 63
          BY <4>2, <1>0, <2>0
      <4>4. QED
          BY <4>3 DEF WordValue
    <3>3. [e.values EXCEPT ![e.selected] = e.prefix * 4 + key] \in [0 .. Words - 1 -> WordValue]
        BY <3>2 DEF WordEntry
    <3>4. /\ chosen \in WordEntry /\ chosen.depth = 0 /\ chosen.prefix = 0
          /\ chosen.reviewing = e.reviewing
      <4>1. \A w \in [0 .. Words - 1 -> WordValue] :
              LET c == [e EXCEPT !.values = w, !.prefix = 0, !.depth = 0]
              IN  c \in WordEntry /\ c.depth = 0 /\ c.prefix = 0 /\ c.reviewing = e.reviewing
        <5> HIDE DEF chosen, f
        <5> TAKE w \in [0 .. Words - 1 -> WordValue]
        <5> DEFINE c == [e EXCEPT !.values = w, !.prefix = 0, !.depth = 0]
        <5>1. 0 \in 0 .. 2 /\ 0 \in Nat
            OBVIOUS
        <5>2. c \in WordEntry
            BY <5>1 DEF WordEntry
        <5>3. c.depth = 0 /\ c.prefix = 0
            BY DEF WordEntry
        <5>4. c.reviewing = e.reviewing
            BY Zenon DEF WordEntry
        <5>5. QED
            BY <5>2, <5>3, <5>4, Zenon
      <4>2. chosen = [e EXCEPT !.values = [e.values EXCEPT ![e.selected] = e.prefix * 4 + key],
                               !.prefix = 0, !.depth = 0]
          BY DEF WordEntry
      <4>3. QED
          BY <3>3, <4>1, <4>2, Zenon
    <3> HIDE DEF chosen
    <3>5. QED
        BY <2>4, <3>1, <3>4, NextMissingFacts
  <2>5. QED
      BY <1>0, <2>2, <2>3, <2>4
<1>4. QED
    BY <1>1, <1>2, <1>3 DEF Key

\* Every key keeps the entry in its table.
LEMMA EntryStep == EntryInv /\ [ENext]_evars => EntryInv'
<1> SUFFICES ASSUME EntryInv, [ENext]_evars
             PROVE  EntryInv'
    OBVIOUS
<1>1. CASE UNCHANGED evars
    BY <1>1 DEF evars, EntryInv, EntryInBounds
<1>2. CASE PressKey
  <2>1. PICK key \in Key : /\ entry.method = "WORD_LIST" /\ key \in Way => key < WordWays
                           /\ entry' = EntryHandle(entry, key).entry
      BY <1>2 DEF PressKey, Key
  <2>2. CASE entry \in WheelEntry
    <3>1. entry.method = "WHEELS"
        BY <2>2 DEF WheelEntry
    <3>2. EntryHandle(entry, key) = HandleWheels(entry, key)
        BY <3>1 DEF EntryHandle
    <3>3. entry' \in WheelEntry
        BY <2>1, <2>2, <3>2, WheelsStep
    <3>4. QED
        BY <3>3 DEF EntryInv, EntryInBounds, WheelEntry, WordEntry
  <2>3. CASE entry \in TurnEntry /\ Len(entry.values) <= MaxTurns
    <3>1. entry.method = "DIRECTIONS"
        BY <2>3 DEF TurnEntry
    <3>2. EntryHandle(entry, key) = HandleDirections(entry, key)
        BY <3>1 DEF EntryHandle
    <3>3. entry' \in TurnEntry /\ Len(entry'.values) <= MaxTurns
        BY <2>1, <2>3, <3>2, DirectionsStep
    <3>4. QED
        BY <3>3 DEF EntryInv, EntryInBounds, TurnEntry, WordEntry
  <2>4. CASE entry \in PadEntry /\ Len(entry.values) <= MaxPin
    <3>1. entry.method = "KEYPAD"
        BY <2>4 DEF PadEntry
    <3>2. EntryHandle(entry, key) = HandleKeypad(entry, key)
        BY <3>1 DEF EntryHandle
    <3>3. entry' \in PadEntry /\ Len(entry'.values) <= MaxPin
        BY <2>1, <2>4, <3>2, KeypadStep
    <3>4. QED
        BY <3>3 DEF EntryInv, EntryInBounds, PadEntry, WordEntry
  <2>5. CASE entry \in WordEntry
    <3>1. entry.method = "WORD_LIST"
        BY <2>5 DEF WordEntry
    <3>2. EntryHandle(entry, key) = HandleWords(entry, key)
        BY <3>1 DEF EntryHandle
    <3>3. entry' \in WordEntry /\ SoundWords(entry')
        BY <2>1, <2>5, <3>1, <3>2, WordsStep DEF EntryInv
    <3>4. QED
        BY <3>3 DEF EntryInv, EntryInBounds
  <2>6. QED
      BY <2>2, <2>3, <2>4, <2>5 DEF EntryInv, EntryInBounds
<1>3. QED
    BY <1>1, <1>2 DEF ENext

\* The inductive invariant of the pickers.
THEOREM EntryInvariant == ESpec => []EntryInv
<1>1. EInit => EntryInv
  <2> SUFFICES ASSUME NEW m \in {"WHEELS", "DIRECTIONS", "KEYPAD", "WORD_LIST"},
                      entry = BeginEntryOf(m)
               PROVE  EntryInv
      BY DEF EInit
  <2>1. CASE m = "WHEELS"
    <3>1. entry \in WheelEntry
        BY <2>1, WheelAssumption DEF BeginEntryOf, WheelEntry
    <3>2. QED
        BY <3>1 DEF EntryInv, EntryInBounds, WheelEntry, WordEntry
  <2>2. CASE m = "DIRECTIONS"
    <3>1. entry \in TurnEntry /\ Len(entry.values) <= MaxTurns
        BY <2>2, LengthAssumption DEF BeginEntryOf, TurnEntry
    <3>2. QED
        BY <3>1 DEF EntryInv, EntryInBounds, TurnEntry, WordEntry
  <2>3. CASE m = "KEYPAD"
    <3>1. entry \in PadEntry /\ Len(entry.values) <= MaxPin
        BY <2>3, LengthAssumption DEF BeginEntryOf, PadEntry
    <3>2. QED
        BY <3>1 DEF EntryInv, EntryInBounds, PadEntry, WordEntry
  <2>4. CASE m = "WORD_LIST"
    <3>1. entry = [method |-> "WORD_LIST", values |-> [i \in 0 .. (Words - 1) |-> EmptyWord],
                   selected |-> 0, depth |-> 0, prefix |-> 0, reviewing |-> FALSE]
        BY <2>4 DEF BeginEntryOf
    <3>2. /\ entry \in WordEntry /\ entry.prefix = 0 /\ entry.depth = 0 /\ ~entry.reviewing
          /\ entry.values[entry.selected] = EmptyWord
        BY <3>1, WordAssumption DEF WordEntry, WordValue
    <3>3. 4 ^ 0 = 1
        OBVIOUS
    <3>4. QED
        BY <3>2, <3>3 DEF EntryInv, EntryInBounds, SoundWords
  <2>5. QED
      BY <2>1, <2>2, <2>3, <2>4
<1>2. QED
    BY <1>1, EntryStep, PTL DEF ESpec

\* No sequence of keys takes a cursor, a digit or a length out of the arrays of
\* fv_secret_entry_t.
THEOREM EntryStaysInBounds == ESpec => []EntryInBounds
<1>1. EntryInv => EntryInBounds
    BY DEF EntryInv
<1>2. QED
    BY <1>1, EntryInvariant, PTL

\* No sequence of turns, undone turns and edits leaves the table of 64 words or
\* the review of incomplete words, or overwrites a word but from the review.
THEOREM EntryWordsSound == ESpec => []WordsSound
<1>1. EntryInv => WordsSound
  <2> SUFFICES ASSUME EntryInv, entry.method = "WORD_LIST"
               PROVE  /\ entry.prefix < 4 ^ entry.depth /\ entry.depth <= 2
                      /\ entry.reviewing => WordsComplete(entry) /\ entry.depth = 0
                      /\ ~WordsComplete(entry) => entry.values[entry.selected] = EmptyWord
      BY DEF WordsSound
  <2>1. entry \in WordEntry
      BY DEF EntryInv, EntryInBounds, WheelEntry, TurnEntry, PadEntry
  <2>2. QED
      BY <2>1 DEF EntryInv, SoundWords, WordEntry
<1>2. QED
    BY <1>1, EntryInvariant, PTL

-----------------------------------------------------------------------------
(* The whole device.  The application, for every number of attempts and    *)
(* every set of secrets.                                                   *)

AppFields == {"state", "attempts", "provisioned", "unlocked", "secret", "setup", "change", "changeMethod", "method",
              "mode", "setting", "index", "count"}

\* The states of a session, and those a device can only be in once its setup
\* is on record.
OpenStates == {"MODE_SELECT", "VAULT_UNLOCKED", "FIDO_READY", "PASSKEY_LIST", "PASSKEY_DELETE_CONFIRM"} \cup SettingsStates
SetUpStates ==
    {"BOOT_MEDIA_REQUIRED", "VAULT_SECRET_ENTRY", "VAULT_RESERVING_ATTEMPT", "VAULT_AUTHENTICATING",
     "VAULT_RECORDING_SUCCESS"} \cup OpenStates

AppSound(a) ==
    /\ AppFields \subseteq DOMAIN a
    /\ a.attempts \in 0 .. MaxUnlockAttempts /\ a.provisioned \in BOOLEAN /\ a.unlocked \in BOOLEAN
    /\ a.state \in SetUpStates => a.provisioned
    /\ a.unlocked => a.state \in OpenStates

\* The commands of a round: what is left of a wipe, or one task.
Wiping == Wipe \cup {"DESTROY"}
Storing == {"ERASE_TRANSIENT", "STORE_ATTEMPT"}
Task == {"INSPECT", "PREPARE", "PROVISION", "STORE_ATTEMPT", "AUTHENTICATE", "CHANGE", "ATTACH_MSC", "ATTACH_FIDO",
         "PASSKEY_BEGIN", "PASSKEY_READ", "PASSKEY_DELETE", "PASSKEY_END"}
Alone == {{c} : c \in Task}
Round == (SUBSET Wiping) \cup Alone \cup {Storing}

\* The commands that only a device that is set up is given.
OnRecord == {"STORE_ATTEMPT", "AUTHENTICATE", "CHANGE"}

\* The attempts, as the application counts them.
Charged(a, e, o) ==
    /\ o.app.provisioned = a.provisioned
         \/ (e = "PROVISIONING_SUCCEEDED" /\ o.app.attempts = 0 /\ o.app.provisioned
               /\ o.app.state = "VAULT_SECRET_ENTRY")
    /\ \/ o.app.attempts = a.attempts
       \/ o.app.attempts = a.attempts + 1 /\ o.app.state = "VAULT_RESERVING_ATTEMPT"
       \/ o.app.attempts = 0 /\ e \in {"AUTH_SUCCEEDED", "PROVISIONING_SUCCEEDED"}
            /\ o.app.state # "VAULT_RESERVING_ATTEMPT"
    /\ o.app.state = "VAULT_RESERVING_ATTEMPT" =>
          \/ a.state = "VAULT_RESERVING_ATTEMPT" /\ o.app.attempts = a.attempts
          \/ o.app.attempts = a.attempts + 1
    /\ "AUTHENTICATE" \in o.cmds =>
          /\ e = "ATTEMPT_COUNTER_STORED" /\ a.state = "VAULT_RESERVING_ATTEMPT" /\ o.app.attempts = a.attempts
          /\ o.app.state = "VAULT_AUTHENTICATING"
    /\ o.cmds \cap OnRecord # {} => o.app.provisioned

\* A session opens when the success is on record, and closes with a wipe.
Opened(a, e, o) ==
    /\ o.app.unlocked => o.cmds \cap Wiping = {}
    /\ a.unlocked /\ ~o.app.unlocked => Wipe \subseteq o.cmds
    /\ o.app.unlocked /\ ~a.unlocked => e = "ATTEMPT_COUNTER_STORED" /\ a.state = "VAULT_RECORDING_SUCCESS"
    /\ o.app.state = "VAULT_RECORDING_SUCCESS" =>
          \/ e = "AUTH_SUCCEEDED" /\ o.cmds = Storing
          \/ a.state = "VAULT_RECORDING_SUCCESS" /\ e # "ATTEMPT_COUNTER_STORED"
    /\ e = "AUTH_SUCCEEDED" /\ a.state = "VAULT_AUTHENTICATING" =>
          o.app.state = "VAULT_RECORDING_SUCCESS"
    /\ e = "ATTEMPT_COUNTER_STORED" /\ a.state = "VAULT_RECORDING_SUCCESS" => o.app.unlocked
    /\ o.cmds \cap {"ATTACH_MSC", "ATTACH_FIDO"} # {} => o.app.unlocked

\* The outcome of a command is a wipe, or goes on with the secret.
Replies == {"MEDIA_FOUND", "MEDIA_FAILED", "MEDIA_PREPARED", "PROVISIONING_SUCCEEDED", "PROVISIONING_FAILED",
            "ATTEMPT_COUNTER_STORED", "AUTH_SUCCEEDED", "AUTH_FAILED", "CREDENTIAL_CHANGED"}
Ordered(a, e, p, o) ==
    /\ o.cmds \in Round
    /\ "STORE_ATTEMPT" \in o.cmds =>
          \/ o.cmds = Storing /\ e = "AUTH_SUCCEEDED" /\ o.app.state = "VAULT_RECORDING_SUCCESS"
          \/ o.cmds = {"STORE_ATTEMPT"} /\ p.result = "COMPLETE" /\ o.app.state = "VAULT_RESERVING_ATTEMPT"
    /\ e \in Replies /\ p = NoPick => o.cmds \in (SUBSET Wiping) \cup {{"AUTHENTICATE"}, Storing}

Outcome(a, e, p, o) == AppSound(o.app) /\ Charged(a, e, o) /\ Opened(a, e, o) /\ Ordered(a, e, p, o)

\* An outcome that charges nothing and opens no session.
Plain(a, e, o) ==
    /\ AppFields \subseteq DOMAIN o.app /\ o.app.attempts = a.attempts /\ o.app.provisioned = a.provisioned
    /\ o.app.state \in SetUpStates => a.provisioned
    /\ o.app.state \notin {"VAULT_RESERVING_ATTEMPT", "VAULT_RECORDING_SUCCESS"}
    /\ \/ o.app.unlocked = a.unlocked /\ o.cmds \in {{}} \cup Alone /\ (a.unlocked => o.app.state \in OpenStates)
       \/ o.app.unlocked = FALSE /\ o.cmds \in SUBSET Wiping /\ Wipe \subseteq o.cmds
       \/ o.app.unlocked = a.unlocked /\ ~a.unlocked /\ o.cmds \in SUBSET Wiping
    /\ o.cmds \notin {{"AUTHENTICATE"}, {"STORE_ATTEMPT"}}
    /\ "CHANGE" \in o.cmds => a.provisioned
    /\ "ATTACH_MSC" \in o.cmds \/ "ATTACH_FIDO" \in o.cmds => o.app.unlocked
    /\ e \in Replies => o.cmds \in SUBSET Wiping

\* Such an outcome is one the runtime may rely on.
LEMMA PlainOutcome ==
    ASSUME NEW a, AppSound(a), NEW e, NEW p, NEW o, Plain(a, e, o),
           ~(e = "AUTH_SUCCEEDED" /\ a.state = "VAULT_AUTHENTICATING"),
           ~(e = "ATTEMPT_COUNTER_STORED" /\ a.state = "VAULT_RECORDING_SUCCESS")
    PROVE  Outcome(a, e, p, o)
<1>1. AppSound(o.app)
    BY DEF AppSound, Plain
<1>2. Charged(a, e, o)
    BY DEF Charged, Plain, Alone, Task, OnRecord, Wiping, Wipe
<1>3. Opened(a, e, o)
    BY DEF Opened, Plain, Alone, Task, Wiping, Wipe, AppSound
<1>4. Ordered(a, e, p, o)
    BY DEF Ordered, Plain, Round, Alone, Task, Wiping, Wipe
<1>5. QED
    BY <1>1, <1>2, <1>3, <1>4 DEF Outcome

\* An event that nothing listens to.
LEMMA StayPlain ==
    ASSUME NEW a, AppSound(a), NEW e, a.state \notin {"VAULT_RESERVING_ATTEMPT", "VAULT_RECORDING_SUCCESS"}
    PROVE  Plain(a, e, Stay(a))
<1> DEFINE o == Stay(a)
<1>1. o.app = a /\ o.cmds = {}
    BY DEF Stay, Result
<1> HIDE DEF o
<1>2. Plain(a, e, o)
    BY <1>1 DEF Plain, AppSound
<1>3. QED
    BY <1>2 DEF o

\* The setup screens of the media.
LEMMA MediaPlain ==
    ASSUME NEW a, AppSound(a), NEW e,
           a.state \in {"SETUP_REQUIRED", "SETUP_MEDIA_CHECKING", "SETUP_MEDIA_CONFIRM", "SETUP_MEDIA_INITIALIZING",
                        "SETUP_MEDIA_ERROR"}
    PROVE  Plain(a, e, SetupMedia(a, e))
<1> DEFINE o == SetupMedia(a, e)
<1>1. AppFields \subseteq DOMAIN a /\ ~a.unlocked
    BY DEF AppSound, OpenStates, SettingsStates
<1>2. /\ AppFields \subseteq DOMAIN o.app /\ o.app.attempts = a.attempts /\ o.app.provisioned = a.provisioned
      /\ o.app.unlocked = a.unlocked
    BY <1>1 DEF AppFields, SetupMedia, Stay, Result, Go
<1>3. /\ o.app.state \in SetupStates /\ o.cmds \in {{}, {"INSPECT"}, {"PREPARE"}}
      /\ e \in Replies => o.cmds = {}
    BY <1>1 DEF AppFields, SetupMedia, Stay, Result, Go, SetupStates, Replies
<1> HIDE DEF o
<1>4. Plain(a, e, o)
    BY <1>1, <1>2, <1>3 DEF Plain, Alone, Task, SetupStates, SetUpStates, OpenStates, SettingsStates
<1>5. QED
    BY <1>4 DEF o

\* The screens of the first secret.
LEMMA SetupSecretPlain ==
    ASSUME NEW a, AppSound(a), a.state \in SetupStates, NEW e, NEW p
    PROVE  Plain(a, e, SetupSecret(a, e, p))
<1>1. \A x \in SetupStates : x \notin SetUpStates
    BY DEF SetupStates, SetUpStates, OpenStates, SettingsStates
<1>2. ~a.unlocked /\ AppFields \subseteq DOMAIN a
    BY <1>1 DEF AppSound, SetUpStates, OpenStates
<1> DEFINE o == SetupSecret(a, e, p)
<1>3. /\ AppFields \subseteq DOMAIN o.app /\ o.app.attempts = a.attempts /\ o.app.provisioned = a.provisioned
      /\ o.app.unlocked = a.unlocked
    BY <1>2 DEF AppFields, SetupSecret, Stay, Result, Go, BeginSecret
<1>4. /\ o.app.state \in SetupStates \cup {"PROVISIONING"} /\ o.cmds \in {{}, {"PROVISION"}}
      /\ e \in Replies => o.cmds = {}
    BY <1>2 DEF AppFields, SetupSecret, Stay, Result, Go, BeginSecret, SetupStates, Replies
<1> HIDE DEF o
<1>5. Plain(a, e, o)
    BY <1>1, <1>2, <1>3, <1>4 DEF Plain, Alone, Task, SetupStates, SetUpStates, OpenStates, SettingsStates
<1>6. QED
    BY <1>5 DEF o

\* The choice of a mode.
LEMMA ModeSelectPlain ==
    ASSUME NEW a, AppSound(a), a.state = "MODE_SELECT", NEW e
    PROVE  Plain(a, e, ModeSelect(a, e))
<1> DEFINE o == ModeSelect(a, e)
<1>1. AppFields \subseteq DOMAIN a /\ a.provisioned
    BY DEF AppSound, SetUpStates, OpenStates
<1>2. AppFields \subseteq DOMAIN o.app /\ o.app.attempts = a.attempts /\ o.app.provisioned = a.provisioned
    BY <1>1 DEF AppFields, ModeSelect, Stay, Result, Go, BeginSecret, LeaveSensitiveMode, SettingsClear
<1>3. \/ /\ o.app.unlocked = a.unlocked /\ o.cmds \in {{}, {"ATTACH_MSC"}, {"ATTACH_FIDO"}}
         /\ a.unlocked => o.app.state \in OpenStates
         /\ o.cmds # {} => a.unlocked /\ e = "SELECT"
         /\ o.app.state \in OpenStates \cup {"VAULT_SECRET_ENTRY"}
      \/ o.app.unlocked = FALSE /\ o.cmds = Wipe /\ o.app.state = "VAULT_SECRET_ENTRY"
    BY <1>1 DEF AppFields, ModeSelect, Stay, Result, Go, BeginSecret, LeaveSensitiveMode, SettingsClear, OpenStates, SettingsStates
<1> HIDE DEF o
<1>4. Plain(a, e, o)
    BY <1>1, <1>2, <1>3 DEF Plain, Alone, Task, Wipe, Wiping, OpenStates, SettingsStates, Replies
<1>5. QED
    BY <1>4 DEF o

\* The passkey screens.
LEMMA PasskeysPlain ==
    ASSUME NEW a, AppSound(a), a.state \in {"FIDO_READY", "PASSKEY_LIST", "PASSKEY_DELETE_CONFIRM"}, NEW e
    PROVE  Plain(a, e, Passkeys(a, e))
<1> DEFINE o == Passkeys(a, e)
<1>1. AppFields \subseteq DOMAIN a /\ a.provisioned
    BY DEF AppSound, SetUpStates, OpenStates
<1>2. AppFields \subseteq DOMAIN o.app /\ o.app.attempts = a.attempts /\ o.app.provisioned = a.provisioned
    BY <1>1 DEF AppFields, Passkeys, Stay, Result, Go, BeginSecret, LeaveSensitiveMode, SettingsClear
<1>3. \/ /\ o.app.unlocked = a.unlocked
         /\ o.cmds \in {{}, {"PASSKEY_BEGIN"}, {"PASSKEY_DELETE"}, {"PASSKEY_END"}, {"PASSKEY_READ"}}
         /\ e \in Replies => o.cmds = {}
         /\ o.app.state \in OpenStates
      \/ o.app.unlocked = FALSE /\ o.cmds = Wipe /\ o.app.state = "VAULT_SECRET_ENTRY"
    BY <1>1 DEF AppFields, Passkeys, Stay, Result, Go, BeginSecret, LeaveSensitiveMode, SettingsClear, OpenStates, SettingsStates, Replies
<1> HIDE DEF o
<1>4. Plain(a, e, o)
    BY <1>1, <1>2, <1>3 DEF Plain, Alone, Task, Wipe, Wiping, OpenStates, SettingsStates
<1>5. QED
    BY <1>4 DEF o

\* The settings.
LEMMA SettingsHandlePlain ==
    ASSUME NEW a, AppSound(a), a.state \in SettingsStates, NEW e, NEW p
    PROVE  Plain(a, e, SettingsHandle(a, e, p))
<1> DEFINE o == SettingsHandle(a, e, p)
<1>1. AppFields \subseteq DOMAIN a /\ a.provisioned
    BY DEF AppSound, SetUpStates, OpenStates
<1>2. AppFields \subseteq DOMAIN o.app /\ o.app.attempts = a.attempts /\ o.app.provisioned = a.provisioned
    BY <1>1 DEF AppFields, SettingsHandle, Stay, Result, Go, BeginSecret, SettingsClear, BeginEntry, Cancel
<1>3. \/ /\ o.app.unlocked = a.unlocked /\ o.cmds \in {{}, {"CHANGE"}}
         /\ e \in Replies => o.cmds = {}
         /\ o.app.state \in SettingsStates
      \/ o.app.unlocked = FALSE /\ o.cmds = Wipe /\ o.app.state = "CHANGE_SAVED"
    BY <1>1, ZenonT(60) DEF AppFields, SettingsHandle, Stay, Result, Go, BeginSecret, SettingsClear, BeginEntry, Cancel, SettingsStates, Replies
<1> HIDE DEF o
<1>4. Plain(a, e, o)
    BY <1>1, <1>2, <1>3 DEF Plain, Alone, Task, Wipe, Wiping, OpenStates, SettingsStates
<1>5. QED
    BY <1>4 DEF o

\* A fault.
LEMMA FaultPlain ==
    ASSUME NEW a, AppSound(a), NEW e
    PROVE  Plain(a, e, EnterFault(a))
<1> DEFINE o == EnterFault(a)
<1>1. AppFields \subseteq DOMAIN a
    BY DEF AppSound
<1>2. /\ AppFields \subseteq DOMAIN o.app /\ o.app.attempts = a.attempts /\ o.app.provisioned = a.provisioned
      /\ o.app.unlocked = FALSE /\ o.app.state = "FAULT" /\ o.cmds = Wipe
    BY <1>1 DEF AppFields, EnterFault, Result, SettingsClear
<1> HIDE DEF o
<1>3. Plain(a, e, o)
    BY <1>2 DEF Plain, Alone, Task, Wipe, Wiping, SetUpStates, OpenStates, SettingsStates
<1>4. QED
    BY <1>3 DEF o

\* A session that is left.
LEMMA LeavePlain ==
    ASSUME NEW a, AppSound(a), a.provisioned, NEW e
    PROVE  Plain(a, e, LeaveSensitiveMode(a))
<1> DEFINE o == LeaveSensitiveMode(a)
<1>1. AppFields \subseteq DOMAIN a
    BY DEF AppSound
<1>2. /\ AppFields \subseteq DOMAIN o.app /\ o.app.attempts = a.attempts /\ o.app.provisioned = a.provisioned
      /\ o.app.unlocked = FALSE /\ o.app.state = "VAULT_SECRET_ENTRY" /\ o.cmds = Wipe
    BY <1>1 DEF AppFields, LeaveSensitiveMode, BeginSecret, Result, SettingsClear
<1> HIDE DEF o
<1>3. Plain(a, e, o)
    BY <1>2 DEF Plain, Alone, Task, Wipe, Wiping, SetUpStates, OpenStates, SettingsStates
<1>4. QED
    BY <1>3 DEF o

\* The choice between leaving, a fault and the settings themselves.
LEMMA SettingsPlain ==
    ASSUME NEW a, AppSound(a), a.state \in SettingsStates, NEW e, NEW p
    PROVE  Plain(a, e, Settings(a, e, p))
<1>1. a.provisioned
    BY DEF AppSound, SetUpStates, OpenStates
<1>2. \/ Settings(a, e, p) = LeaveSensitiveMode(a)
      \/ Settings(a, e, p) = EnterFault(a)
      \/ Settings(a, e, p) = SettingsHandle(a, e, p)
    BY DEF Settings
<1>3. QED
    BY <1>1, <1>2, LeavePlain, FaultPlain, SettingsHandlePlain

\* The end of the provisioning.
LEMMA ProvisioningOutcome ==
    ASSUME NEW a, AppSound(a), a.state = "PROVISIONING", NEW e, NEW p
    PROVE  Outcome(a, e, p, Provisioning(a, e))
<1> DEFINE o == Provisioning(a, e)
<1>1. AppFields \subseteq DOMAIN a /\ ~a.unlocked
    BY DEF AppSound, OpenStates, SettingsStates
<1>2. AppFields \subseteq DOMAIN o.app /\ o.app.unlocked = a.unlocked
    BY <1>1 DEF AppFields, Provisioning, Result, Stay, Go, BeginSecret
<1>3. \/ /\ e = "PROVISIONING_SUCCEEDED" /\ o.app.provisioned = TRUE /\ o.app.attempts = 0
         /\ o.app.state = "VAULT_SECRET_ENTRY" /\ o.cmds = {"ERASE_TRANSIENT", "ERASE_KEYS"}
      \/ /\ o.app.provisioned = a.provisioned /\ o.app.attempts = a.attempts
         /\ o.app.state \in {"SETUP_REQUIRED", "PROVISIONING"} /\ o.cmds \in {{}, {"ERASE_TRANSIENT", "ERASE_KEYS"}}
    BY <1>1 DEF AppFields, Provisioning, Result, Stay, Go, BeginSecret
<1> HIDE DEF o
<1>4. AppSound(o.app)
  <2>1. o.app.provisioned \in BOOLEAN /\ o.app.unlocked \in BOOLEAN
      BY <1>2, <1>3, Zenon DEF AppSound
  <2>2. o.app.attempts \in 0 .. MaxUnlockAttempts
      BY <1>3, AttemptsAssumption DEF AppSound
  <2>3. o.app.state \in SetUpStates => o.app.provisioned
      BY <1>3 DEF SetUpStates, OpenStates, SettingsStates
  <2>4. QED
      BY <1>1, <1>2, <2>1, <2>2, <2>3 DEF AppSound
<1>5. Charged(a, e, o)
    BY <1>1, <1>2, <1>3 DEF Charged, OnRecord
<1>6. Opened(a, e, o)
  <2>1. /\ ~o.app.unlocked /\ ~a.unlocked /\ o.app.state # "VAULT_RECORDING_SUCCESS" /\ a.state = "PROVISIONING"
        /\ o.cmds \cap {"ATTACH_MSC", "ATTACH_FIDO"} = {}
      BY <1>1, <1>2, <1>3
  <2>2. QED
      BY <2>1 DEF Opened
<1>7. Ordered(a, e, p, o)
    BY <1>3 DEF Ordered, Round, Alone, Task, Wipe, Wiping
<1>8. Outcome(a, e, p, o)
    BY <1>4, <1>5, <1>6, <1>7 DEF Outcome
<1>9. QED
    BY <1>8 DEF o

\* An attempt: charged, stored, evaluated, cleared.
LEMMA UnlockOutcome ==
    ASSUME NEW a, AppSound(a), NEW e, NEW p,
           a.state \in {"VAULT_SECRET_ENTRY", "VAULT_RESERVING_ATTEMPT", "VAULT_AUTHENTICATING", "VAULT_RECORDING_SUCCESS"}
    PROVE  Outcome(a, e, p, Unlock(a, e, p))
<1> DEFINE o == Unlock(a, e, p)
<1>1. AppFields \subseteq DOMAIN a /\ ~a.unlocked /\ a.provisioned /\ a.attempts \in 0 .. MaxUnlockAttempts
    BY DEF AppSound, SetUpStates, OpenStates, SettingsStates
<1>2. AppFields \subseteq DOMAIN o.app /\ o.app.provisioned = a.provisioned
    BY <1>1 DEF AppFields, Unlock, Result, Stay, Go, BeginSecret, LeaveSensitiveMode, SettingsClear
<1>3. \/ /\ o.app = a /\ o.cmds = {}
         /\ ~(a.state = "VAULT_AUTHENTICATING" /\ e = "AUTH_SUCCEEDED")
         /\ ~(a.state = "VAULT_RECORDING_SUCCESS" /\ e = "ATTEMPT_COUNTER_STORED")
      \/ /\ o.app.state \in {"DESTROYED", "VAULT_SECRET_ENTRY"} /\ o.app.attempts = a.attempts /\ ~o.app.unlocked
         /\ o.cmds \in {Wipe, Wipe \cup {"DESTROY"}, {"ERASE_TRANSIENT", "ERASE_KEYS"}}
         /\ ~(a.state = "VAULT_AUTHENTICATING" /\ e = "AUTH_SUCCEEDED")
         /\ ~(a.state = "VAULT_RECORDING_SUCCESS" /\ e = "ATTEMPT_COUNTER_STORED")
      \/ /\ o.app.state = "VAULT_RESERVING_ATTEMPT" /\ o.app.attempts = a.attempts + 1 /\ ~o.app.unlocked
         /\ a.state = "VAULT_SECRET_ENTRY" /\ a.attempts < MaxUnlockAttempts
         /\ p.result = "COMPLETE" /\ o.cmds = {"STORE_ATTEMPT"}
      \/ /\ o.app.state = "VAULT_AUTHENTICATING" /\ o.app.attempts = a.attempts /\ ~o.app.unlocked
         /\ a.state = "VAULT_RESERVING_ATTEMPT" /\ e = "ATTEMPT_COUNTER_STORED" /\ o.cmds = {"AUTHENTICATE"}
      \/ /\ o.app.state = "VAULT_RECORDING_SUCCESS" /\ o.app.attempts = 0 /\ ~o.app.unlocked
         /\ e = "AUTH_SUCCEEDED" /\ o.cmds = Storing
      \/ /\ o.app.state = "MODE_SELECT" /\ o.app.attempts = a.attempts /\ o.app.unlocked = TRUE
         /\ a.state = "VAULT_RECORDING_SUCCESS" /\ e = "ATTEMPT_COUNTER_STORED" /\ o.cmds = {}
    BY <1>1, AttemptsAssumption DEF AppFields, Unlock, Result, Stay, Go, BeginSecret, LeaveSensitiveMode, SettingsClear, Storing
<1>4. o.app.unlocked \in BOOLEAN
    BY <1>1 DEF AppSound, AppFields, Unlock, Result, Stay, Go, BeginSecret, LeaveSensitiveMode, SettingsClear
<1> HIDE DEF o
<1>5. AppSound(o.app)
    BY <1>1, <1>2, <1>3, <1>4, AttemptsAssumption DEF AppSound, SetUpStates, OpenStates, SettingsStates
<1>6. Charged(a, e, o)
    BY <1>1, <1>2, <1>3, <1>4, AttemptsAssumption DEF Charged, OnRecord, Wipe, Storing
<1>7. Opened(a, e, o)
    BY <1>1, <1>2, <1>3, <1>4 DEF Opened, Wipe, Wiping, Storing
<1>8. Ordered(a, e, p, o)
    BY <1>3 DEF Ordered, Round, Alone, Task, Wipe, Wiping, Storing, NoPick, Replies
<1>9. Outcome(a, e, p, o)
    BY <1>5, <1>6, <1>7, <1>8 DEF Outcome
<1>10. QED
    BY <1>9 DEF o

\* The end of the start-up, with the device destroyed when the attempts are used up.
LEMMA BootPlain ==
    ASSUME NEW a, AppSound(a), a.state \in {"BOOTING", "BOOT_MEDIA_REQUIRED"}, NEW e
    PROVE  Plain(a, e, CompleteBoot(a))
<1> DEFINE o == CompleteBoot(a)
<1>1. AppFields \subseteq DOMAIN a /\ ~a.unlocked
    BY DEF AppSound, OpenStates, SettingsStates
<1>2. /\ AppFields \subseteq DOMAIN o.app /\ o.app.attempts = a.attempts /\ o.app.provisioned = a.provisioned
      /\ o.app.unlocked = a.unlocked
    BY <1>1 DEF AppFields, CompleteBoot, Result, Stay, Go, BeginSecret
<1>3. \/ o.app.state = "DESTROYED" /\ o.cmds = Wipe \cup {"DESTROY"}
      \/ o.app.state = "VAULT_SECRET_ENTRY" /\ o.cmds = {} /\ a.provisioned
      \/ o.app.state = "SETUP_REQUIRED" /\ o.cmds = {}
    BY <1>1 DEF AppFields, CompleteBoot, Result, Stay, Go, BeginSecret
<1> HIDE DEF o
<1>4. Plain(a, e, o)
    BY <1>1, <1>2, <1>3 DEF Plain, Wipe, Wiping, SetUpStates, OpenStates, SettingsStates
<1>5. QED
    BY <1>4 DEF o

\* The wait for a card.
LEMMA WaitPlain ==
    ASSUME NEW a, AppSound(a), a.provisioned, ~a.unlocked, NEW e
    PROVE  Plain(a, e, Stay(Go(a, "BOOT_MEDIA_REQUIRED")))
<1> DEFINE o == Stay(Go(a, "BOOT_MEDIA_REQUIRED"))
<1>1. /\ AppFields \subseteq DOMAIN o.app /\ o.app.attempts = a.attempts /\ o.app.provisioned = a.provisioned
      /\ o.app.unlocked = a.unlocked /\ o.app.state = "BOOT_MEDIA_REQUIRED" /\ o.cmds = {}
    BY DEF AppSound, AppFields, Stay, Result, Go
<1> HIDE DEF o
<1>2. Plain(a, e, o)
    BY <1>1 DEF Plain
<1>3. QED
    BY <1>2 DEF o

\* A card that is lost during the setup.
LEMMA LostPlain ==
    ASSUME NEW a, AppSound(a), a.state \in SetupStates, NEW e
    PROVE  Plain(a, e, MediaLostDuringSetup(a))
<1> DEFINE o == MediaLostDuringSetup(a)
<1>1. AppFields \subseteq DOMAIN a /\ ~a.unlocked
    BY DEF AppSound, SetupStates, OpenStates, SettingsStates
<1>2. /\ AppFields \subseteq DOMAIN o.app /\ o.app.attempts = a.attempts /\ o.app.provisioned = a.provisioned
      /\ o.app.unlocked = a.unlocked /\ o.app.state = "SETUP_MEDIA_ERROR" /\ o.cmds = Wipe
    BY <1>1 DEF AppFields, MediaLostDuringSetup, Result, SettingsClear
<1> HIDE DEF o
<1>3. Plain(a, e, o)
    BY <1>1, <1>2 DEF Plain, Wipe, Wiping, SetUpStates, OpenStates, SettingsStates
<1>4. QED
    BY <1>3 DEF o

\* What the runtime may rely on, whatever the event.
LEMMA HandleOutcome ==
    ASSUME NEW a, AppSound(a), NEW e, NEW p
    PROVE  Outcome(a, e, p, Handle(a, e, p))
<1> DEFINE o == Handle(a, e, p)
<1>2. CASE a.state \in {"VAULT_SECRET_ENTRY", "VAULT_RESERVING_ATTEMPT", "VAULT_AUTHENTICATING",
                        "VAULT_RECORDING_SUCCESS"} /\ e \notin {"FATAL_ERROR", "STORAGE_FAILED"}
  <2>1. o = Unlock(a, e, p)
      BY <1>2 DEF Handle, SettingsStates
  <2>2. QED
      BY <1>2, <2>1, UnlockOutcome
<1>3. CASE a.state = "PROVISIONING" /\ e \notin {"FATAL_ERROR", "STORAGE_FAILED"}
  <2>1. o = Provisioning(a, e)
      BY <1>3 DEF Handle, SettingsStates
  <2>2. QED
      BY <1>3, <2>1, ProvisioningOutcome
<1>4. CASE e \in {"FATAL_ERROR", "STORAGE_FAILED"}
  <2>1. o = EnterFault(a) \/ (a.state \in SetupStates /\ o = MediaLostDuringSetup(a))
      BY <1>4 DEF Handle
  <2>2. Plain(a, e, o)
      BY <2>1, FaultPlain, LostPlain
  <2>3. QED
      BY <1>4, <2>2, PlainOutcome
<1>5. CASE /\ a.state \notin {"VAULT_SECRET_ENTRY", "VAULT_RESERVING_ATTEMPT", "VAULT_AUTHENTICATING",
                              "VAULT_RECORDING_SUCCESS", "PROVISIONING"}
           /\ e \notin {"FATAL_ERROR", "STORAGE_FAILED"}
  <2>1. \/ o = Settings(a, e, p) /\ a.state \in SettingsStates
        \/ o = Stay(Go(a, "BOOT_MEDIA_REQUIRED")) /\ a.state = "BOOTING" /\ a.provisioned
        \/ o = CompleteBoot(a) /\ a.state \in {"BOOTING", "BOOT_MEDIA_REQUIRED"}
        \/ o = SetupMedia(a, e) /\ a.state \in {"SETUP_REQUIRED", "SETUP_MEDIA_CHECKING", "SETUP_MEDIA_CONFIRM",
                                                 "SETUP_MEDIA_INITIALIZING", "SETUP_MEDIA_ERROR"}
        \/ o = ModeSelect(a, e) /\ a.state = "MODE_SELECT"
        \/ o = LeaveSensitiveMode(a) /\ a.state = "VAULT_UNLOCKED"
        \/ o = Passkeys(a, e) /\ a.state \in {"FIDO_READY", "PASSKEY_LIST", "PASSKEY_DELETE_CONFIRM"}
        \/ o = SetupSecret(a, e, p) /\ a.state \in SetupStates
        \/ o = Stay(a)
      BY <1>5 DEF Handle, SetupStates
  <2>2. /\ a.state = "BOOTING" => ~a.unlocked
        /\ a.state = "VAULT_UNLOCKED" => a.provisioned
      BY DEF AppSound, SetUpStates, OpenStates, SettingsStates
  <2> HIDE DEF o
  <2>3. Plain(a, e, o)
      BY <1>5, <2>1, <2>2, SettingsPlain, WaitPlain, BootPlain, MediaPlain, ModeSelectPlain, LeavePlain, PasskeysPlain,
         SetupSecretPlain, StayPlain
  <2>4. QED
      BY <1>5, <2>3, PlainOutcome DEF o
<1>6. QED
    BY <1>2, <1>3, <1>4, <1>5

-----------------------------------------------------------------------------
(* The runtime *)

Rows == {"rows", "format", "active", "vault", "super0", "super1", "header", "journal"}

\* The commands go round by round, and a wipe is never mixed with a task.
RoundSound ==
    /\ cmds \in Round /\ next \in SUBSET Wipe
    /\ ~(cmds \subseteq Wiping) => next = {}
    /\ app = Off => cmds = {} /\ next = {}
    /\ step \in Rows => jrn = NoRecord

\* What is on record bounds the wrong secrets that were evaluated.
CountSound(j, g) ==
    /\ j # NoRecord => "attempts" \in DOMAIN j /\ j.attempts \in 0 .. MaxUnlockAttempts
    /\ g \in 0 .. MaxUnlockAttempts
    /\ g <= IF j = NoRecord THEN 0 ELSE j.attempts

\* What the application counts is at least as much, and one more while an
\* attempt is charged.
Counts(a, cs, j, g) ==
    /\ AppSound(a)
    /\ a.provisioned => j # NoRecord /\ g <= a.attempts
    /\ a.state = "VAULT_RESERVING_ATTEMPT" => g < a.attempts
    /\ "AUTHENTICATE" \in cs => g < a.attempts /\ a.attempts = j.attempts /\ a.state = "VAULT_AUTHENTICATING"
    /\ cs \cap OnRecord # {} => a.provisioned

\* The first command in the order of execution is one of those pending.
LEMMA FirstPending ==
    ASSUME NEW cs, cs \subseteq Wiping \cup Task, cs # {}
    PROVE  First(cs) \in cs /\ (First(cs) = "STORE_ATTEMPT" => "ERASE_TRANSIENT" \notin cs)
<1> DEFINE Place == {i \in 1 .. 16 : Order[i] \in cs}
           Here(i) == Order[i] \in cs /\ \A j \in 1 .. (i - 1) : Order[j] \notin cs
<1>1. Len(Order) = 16
    BY DEF Order
<1>2. \A x \in Wiping \cup Task : \E i \in 1 .. 16 : Order[i] = x
  <2>1. /\ Order[1] = "DETACH" /\ Order[2] = "ERASE_TRANSIENT" /\ Order[3] = "ERASE_KEYS" /\ Order[4] = "DESTROY"
        /\ Order[5] = "INSPECT" /\ Order[6] = "PREPARE" /\ Order[7] = "PROVISION" /\ Order[8] = "STORE_ATTEMPT"
        /\ Order[9] = "AUTHENTICATE" /\ Order[10] = "CHANGE" /\ Order[11] = "ATTACH_MSC" /\ Order[12] = "ATTACH_FIDO"
        /\ Order[13] = "PASSKEY_BEGIN" /\ Order[14] = "PASSKEY_READ" /\ Order[15] = "PASSKEY_DELETE"
        /\ Order[16] = "PASSKEY_END"
      BY DEF Order
  <2>2. QED
      BY <2>1 DEF Wiping, Wipe, Task
<1>3. Place # {} /\ Place \subseteq Nat
    BY <1>2
<1>4. PICK i \in Place : \A j \in Place : i <= j
    BY <1>3, LeastNat
<1>5. i \in 1 .. Len(Order) /\ Here(i)
    BY <1>1, <1>4
<1>6. PICK k \in 1 .. Len(Order) : First(cs) = Order[k] /\ Here(k)
    BY <1>5 DEF First
<1>7. Order[2] = "ERASE_TRANSIENT" /\ \A n \in 1 .. 16 : Order[n] = "STORE_ATTEMPT" => n = 8
    BY DEF Order
<1>8. Order[k] = "STORE_ATTEMPT" => k = 8
    BY <1>1, <1>6, <1>7
<1> HIDE DEF Place
<1>9. QED
    BY <1>1, <1>6, <1>7, <1>8

\* Whoever carries out a task has nothing else to do.
LEMMA TaskAlone ==
    ASSUME RoundSound, NEW c \in Task, Doing(c)
    PROVE  cmds = {c} /\ next = {} /\ First(cmds) = c /\ On
<1>1. cmds \subseteq Wiping \cup Task
    BY DEF RoundSound, Round, Alone, Task, Storing, Wiping, Wipe
<1>2. First(cmds) = c /\ c \in cmds /\ (c = "STORE_ATTEMPT" => "ERASE_TRANSIENT" \notin cmds)
    BY <1>1, FirstPending DEF Doing
<1>3. cmds = {c}
    BY <1>2 DEF RoundSound, Round, Alone, Task, Storing, Wiping, Wipe
<1>4. QED
    BY <1>2, <1>3 DEF RoundSound, Task, Wiping, Wipe, On

\* What is left of a wipe, or the secret that goes before the counter is stored.
LEMMA WipeGoesOn ==
    ASSUME RoundSound, NEW c \in Wiping, Doing(c)
    PROVE  /\ First(cmds) = c /\ c \in cmds /\ On
           /\ cmds \subseteq Wiping \/ (c = "ERASE_TRANSIENT" /\ cmds = Storing /\ next = {})
<1>1. cmds \subseteq Wiping \cup Task
    BY DEF RoundSound, Round, Alone, Task, Storing, Wiping, Wipe
<1>2. First(cmds) = c /\ c \in cmds
    BY <1>1, FirstPending DEF Doing
<1>3. cmds \subseteq Wiping \/ (c = "ERASE_TRANSIENT" /\ cmds = Storing)
    BY <1>2 DEF RoundSound, Round, Alone, Task, Storing, Wiping, Wipe
<1>4. QED
    BY <1>2, <1>3 DEF RoundSound, Storing, Wiping, Wipe, On

\* A fault of the application keeps its count.
LEMMA FaultCounts ==
    ASSUME NEW a, NEW cs, NEW j, NEW g, Counts(a, cs, j, g)
    PROVE  /\ Counts(EnterFault(a).app, {}, j, g) /\ EnterFault(a).cmds = Wipe
           /\ EnterFault(a).app.state = "FAULT" /\ EnterFault(a).app.unlocked = FALSE
           /\ EnterFault(a).app.provisioned = a.provisioned
<1> DEFINE o == EnterFault(a)
<1>1. AppFields \subseteq DOMAIN a
    BY DEF Counts, AppSound
<1>2. /\ AppFields \subseteq DOMAIN o.app /\ o.app.attempts = a.attempts /\ o.app.provisioned = a.provisioned
      /\ o.app.unlocked = FALSE /\ o.app.state = "FAULT" /\ o.cmds = Wipe
    BY <1>1 DEF AppFields, EnterFault, Result, SettingsClear
<1> HIDE DEF o
<1>3. Counts(o.app, {}, j, g)
    BY <1>2 DEF Counts, AppSound, SetUpStates, OpenStates, SettingsStates
<1>4. QED
    BY <1>2, <1>3 DEF o

\* A session that is forgotten, and a fault after it.
LEMMA FailCounts ==
    ASSUME NEW a, NEW cs, NEW j, NEW g, Counts(a, cs, j, g)
    PROVE  /\ Counts(Fail(a).app, {}, j, g) /\ Fail(a).cmds = Wipe
           /\ Fail(a).app.state = "FAULT" /\ Fail(a).app.unlocked = FALSE
           /\ Fail(a).app.provisioned = a.provisioned
<1> DEFINE o == Fail(a)
<1>1. AppFields \subseteq DOMAIN a
    BY DEF Counts, AppSound
<1>2. /\ AppFields \subseteq DOMAIN o.app /\ o.app.attempts = a.attempts /\ o.app.provisioned = a.provisioned
      /\ o.app.unlocked = FALSE /\ o.app.state = "FAULT" /\ o.cmds = Wipe
    BY <1>1 DEF AppFields, Fail, ForgetSession, EnterFault, Result, SettingsClear
<1> HIDE DEF o
<1>3. Counts(o.app, {}, j, g)
    BY <1>2 DEF Counts, AppSound, SetUpStates, OpenStates, SettingsStates
<1>4. QED
    BY <1>2, <1>3 DEF o

\* The wiped application.
LEMMA ForgetCounts ==
    ASSUME NEW a, NEW cs, NEW j, NEW g, Counts(a, cs, j, g)
    PROVE  /\ Counts(ForgetSession(a), cs, j, g)
           /\ ForgetSession(a).provisioned = a.provisioned /\ ForgetSession(a).state = a.state
           /\ ForgetSession(a).unlocked = a.unlocked
<1> DEFINE b == ForgetSession(a)
<1>1. AppFields \subseteq DOMAIN a
    BY DEF Counts, AppSound
<1>2. /\ AppFields \subseteq DOMAIN b /\ b.attempts = a.attempts /\ b.provisioned = a.provisioned
      /\ b.unlocked = a.unlocked /\ b.state = a.state
    BY <1>1 DEF AppFields, ForgetSession, SettingsClear
<1> HIDE DEF b
<1>3. Counts(b, cs, j, g)
    BY <1>2 DEF Counts, AppSound
<1>4. QED
    BY <1>2, <1>3 DEF b

\* An application that is on record as the invariant says.
LEMMA CountsOn ==
    ASSUME NEW a, NEW cs, NEW j, NEW g, Counts(a, cs, j, g)
    PROVE  a # Off
<1>1. "attempts" \in DOMAIN a
    BY DEF Counts, AppSound, AppFields
<1>2. QED
    BY <1>1 DEF Off

\* The outcome of an event fits what is on record.
LEMMA HandleCounts ==
    ASSUME NEW a, NEW e, NEW p, NEW j, NEW g, Counts(a, {}, j, g), CountSound(j, g),
           e = "PROVISIONING_SUCCEEDED" => j # NoRecord /\ g = 0,
           e = "AUTH_SUCCEEDED" => g = 0,
           e = "ATTEMPT_COUNTER_STORED" /\ a.state = "VAULT_RESERVING_ATTEMPT" => j.attempts = a.attempts
    PROVE  Counts(Handle(a, e, p).app, Handle(a, e, p).cmds, j, g) /\ Handle(a, e, p).cmds \in Round
<1> DEFINE o == Handle(a, e, p)
<1>1. Outcome(a, e, p, o)
    BY HandleOutcome DEF Counts
<1> HIDE DEF o
<1>2. AppSound(a) /\ AppSound(o.app) /\ Charged(a, e, o) /\ o.cmds \in Round
    BY <1>1 DEF Outcome, Ordered, Counts
<1>3. a.attempts \in Nat /\ o.app.attempts \in Nat /\ g \in Nat
    BY <1>2, AttemptsAssumption DEF AppSound, CountSound
<1>4. ASSUME o.app.provisioned
      PROVE  j # NoRecord /\ g <= o.app.attempts
  <2>1. a.provisioned \/ (e = "PROVISIONING_SUCCEEDED" /\ o.app.attempts = 0)
      BY <1>2, <1>4, Zenon DEF Charged
  <2>2. o.app.attempts \in {a.attempts, a.attempts + 1} \/ e \in {"AUTH_SUCCEEDED", "PROVISIONING_SUCCEEDED"}
      BY <1>2 DEF Charged
  <2>3. QED
      BY <1>3, <2>1, <2>2 DEF Counts
<1>5. o.app.state = "VAULT_RESERVING_ATTEMPT" => g < o.app.attempts
  <2> SUFFICES ASSUME o.app.state = "VAULT_RESERVING_ATTEMPT"
               PROVE  g < o.app.attempts
      OBVIOUS
  <2>1. o.app.provisioned
      BY <1>2 DEF AppSound, SetUpStates
  <2>2. a.provisioned
      BY <1>2, <2>1, Zenon DEF Charged
  <2>3. QED
      BY <1>2, <1>3, <2>2 DEF Counts, Charged
<1>6. "AUTHENTICATE" \in o.cmds =>
        g < o.app.attempts /\ o.app.attempts = j.attempts /\ o.app.state = "VAULT_AUTHENTICATING"
    BY <1>2, <1>3 DEF Charged, Counts
<1>7. Counts(o.app, o.cmds, j, g)
    BY <1>2, <1>4, <1>5, <1>6 DEF Counts, Charged
<1>8. QED
    BY <1>2, <1>7 DEF o

-----------------------------------------------------------------------------
(* The ends of a command *)

\* A step that ends a command leaves the rounds in order.
Ended(j, g) ==
    /\ step' = "" /\ cmds' \in Round /\ next' \in SUBSET Wipe
    /\ ~(cmds' \subseteq Wiping) => next' = {}
    /\ app' # Off /\ Counts(app', cmds', j, g)

\* The end of a task: its outcome, or a fault when there are no more rounds.
LEMMA TaskFinish ==
    ASSUME RoundSound, NEW c \in Task, Doing(c), NEW out, Finish(out)
    PROVE  /\ step' = "" /\ next' = {}
           /\ \/ app' = out.app /\ cmds' = out.cmds
                   /\ turns' = (IF out.cmds = {} THEN 0 ELSE turns + 1)
              \/ /\ app' = Fail(out.app).app /\ cmds' = {} /\ turns' = 0
                 /\ out.cmds # {} /\ ~(turns + 1 < MaxTransitions)
<1>1. cmds = {c} /\ next = {} /\ First(cmds) = c
    BY TaskAlone
<1>2. cmds \ {First(cmds)} = {} /\ next \cup out.cmds = out.cmds
    BY <1>1
<1>3. QED
    BY <1>2 DEF Finish

\* So a task ends well when its outcome does.
LEMMA TaskEnds ==
    ASSUME RoundSound, NEW c \in Task, Doing(c), NEW out, Finish(out), out.cmds \in Round,
           NEW j, NEW g, Counts(out.app, out.cmds, j, g)
    PROVE  Ended(j, g)
<1>1. Counts(Fail(out.app).app, {}, j, g)
    BY FailCounts
<1>2. Counts(app', cmds', j, g) /\ cmds' \in Round /\ next' = {} /\ step' = ""
  <2>1. {} \in Round
      BY DEF Round
  <2>2. /\ step' = "" /\ next' = {}
        /\ \/ app' = out.app /\ cmds' = out.cmds
           \/ app' = Fail(out.app).app /\ cmds' = {}
      BY TaskFinish
  <2>3. QED
      BY <1>1, <2>1, <2>2
<1>3. app' # Off
    BY <1>2, CountsOn
<1>4. QED
    BY <1>2, <1>3 DEF Ended

\* A wipe that goes on, or begins anew.
LEMMA WipeEnds ==
    ASSUME RoundSound, NEW c \in Wiping, Doing(c), NEW out, Finish(out), out.cmds \in {{}, Wipe},
           cmds = Storing => out.cmds = {} /\ out.app.provisioned,
           NEW j, NEW g, Counts(out.app, {}, j, g)
    PROVE  Ended(j, g)
<1> DEFINE rest == cmds \ {c}
           more == next \cup out.cmds
<1>1. First(cmds) = c /\ c \in cmds /\ (cmds \subseteq Wiping \/ (c = "ERASE_TRANSIENT" /\ cmds = Storing /\ next = {}))
    BY WipeGoesOn
<1>2. step' = "" /\ IF rest # {} THEN app' = out.app /\ cmds' = rest /\ next' = more /\ turns' = turns
                    ELSE \/ app' = out.app /\ cmds' = more /\ next' = {}
                         \/ app' = Fail(out.app).app /\ cmds' = {} /\ next' = {}
    BY <1>1 DEF Finish
<1>3. more \in SUBSET Wipe /\ more \in Round /\ {} \in Round
    BY DEF RoundSound, Round, Wiping
<1>4. \/ rest \in SUBSET Wiping
      \/ rest = {"STORE_ATTEMPT"} /\ more = {} /\ out.app.provisioned
    BY <1>1 DEF Storing
<1>5. rest \in Round
    BY <1>4 DEF Round, Alone, Task
<1>6. Counts(Fail(out.app).app, {}, j, g)
    BY FailCounts
<1>7. Counts(out.app, rest, j, g) /\ Counts(out.app, more, j, g)
  <2>1. "AUTHENTICATE" \notin rest /\ "AUTHENTICATE" \notin more
      BY <1>3, <1>4 DEF Wiping, Wipe
  <2>2. rest \cap OnRecord # {} => out.app.provisioned
      BY <1>4 DEF Wiping, Wipe, OnRecord
  <2>3. more \cap OnRecord = {}
      BY <1>3 DEF Wipe, OnRecord
  <2>4. QED
      BY <2>1, <2>2, <2>3 DEF Counts
<1>8. Counts(app', cmds', j, g)
    BY <1>2, <1>6, <1>7
<1>9. app' # Off
    BY <1>8, CountsOn
<1>10. cmds' \in Round /\ next' \in SUBSET Wipe /\ (~(cmds' \subseteq Wiping) => next' = {})
    BY <1>2, <1>3, <1>4, <1>5 DEF Wiping
<1>11. QED
    BY <1>2, <1>8, <1>9, <1>10 DEF Ended

\* A command fails: the session is dropped.
LEMMA BrokenEnds ==
    ASSUME RoundSound, NEW c \in (Task \cup Wiping) \ {"ERASE_TRANSIENT"}, Doing(c), Finish(Fail(app)),
           Counts(app, cmds, jrn, guesses)
    PROVE  Ended(jrn, guesses)
<1>1. Counts(Fail(app).app, {}, jrn, guesses) /\ Fail(app).cmds = Wipe
    BY FailCounts
<1>2. Wipe \in Round /\ Counts(Fail(app).app, Wipe, jrn, guesses)
    BY <1>1 DEF Round, Wiping, Wipe, Counts, OnRecord
<1>3. CASE c \in Task
    BY <1>1, <1>2, <1>3, TaskEnds
<1>4. CASE c \in Wiping
  <2>1. cmds # Storing
      BY <1>4, WipeGoesOn DEF Storing, Wiping, Wipe
  <2>2. QED
      BY <1>1, <1>4, <2>1, WipeEnds
<1>5. QED
    BY <1>3, <1>4

\* A task that breaks off, whatever it has put on record.
LEMMA FaultEnds ==
    ASSUME RoundSound, NEW c \in Task, Doing(c), Finish(Fail(app)), NEW j, NEW g, Counts(app, {}, j, g)
    PROVE  Ended(j, g)
<1> DEFINE out == Fail(app)
<1>1. Counts(out.app, {}, j, g) /\ out.cmds = Wipe
    BY FailCounts
<1>2. out.cmds \in Round /\ Counts(out.app, out.cmds, j, g) /\ Finish(out)
    BY <1>1 DEF Round, Wiping, Wipe, Counts, OnRecord
<1> HIDE DEF out
<1>3. QED
    BY <1>2, TaskEnds

\* A command answers with an event.
LEMMA AnswerEnds ==
    ASSUME RoundSound, NEW c \in Task, Doing(c), NEW e, Answer(e), NEW j, NEW g, Counts(app, {}, j, g), CountSound(j, g),
           e = "PROVISIONING_SUCCEEDED" => j # NoRecord /\ g = 0,
           e = "AUTH_SUCCEEDED" => g = 0,
           e = "ATTEMPT_COUNTER_STORED" /\ app.state = "VAULT_RESERVING_ATTEMPT" => j.attempts = app.attempts
    PROVE  Ended(j, g)
<1> DEFINE out == Handle(app, e, NoPick)
<1>1. Counts(out.app, out.cmds, j, g) /\ out.cmds \in Round
    BY HandleCounts
<1>2. Finish(out)
    BY DEF Answer
<1> HIDE DEF out
<1>3. QED
    BY <1>1, <1>2, TaskEnds

-----------------------------------------------------------------------------
(* Attempts *)

\* The roots are in the fuses before the record is made.
RootsType == [rows : {"empty", "rows", "format", "active", "torn"}, revoked : {"no", "torn", "yes"}]
Burnt == {"vault", "super0", "super1", "header", "journal"}
RootsSound == otp \in RootsType /\ (jrn # NoRecord \/ step \in Burnt => otp.rows # "empty")

GuessInv ==
    RoundSound /\ RootsSound /\ CountSound(jrn, guesses) /\ (On => Counts(app, cmds, jrn, guesses))

\* The invariant after a command.
LEMMA EndedInv ==
    ASSUME Ended(jrn', guesses'), CountSound(jrn', guesses'), otp' \in RootsType,
           jrn' # NoRecord => otp'.rows # "empty"
    PROVE  GuessInv'
<1>1. RoundSound'
    BY DEF Ended, RoundSound, Rows
<1>2. RootsSound'
    BY DEF Ended, RootsSound, Burnt
<1>3. QED
    BY <1>1, <1>2 DEF GuessInv, Ended, On

Harmless == Replies \ {"PROVISIONING_SUCCEEDED", "AUTH_SUCCEEDED", "ATTEMPT_COUNTER_STORED"}

\* A step of a task that leaves the journal and the fuses alone.
LEMMA TaskStep ==
    ASSUME GuessInv, NEW c \in Task, Doing(c), UNCHANGED <<otp, jrn, guesses>>,
           \/ Done \/ Broken
           \/ \E e \in Harmless : Answer(e)
           \/ \E s : Working(s) /\ (s \in Rows => jrn = NoRecord) /\ (s \in Burnt => otp.rows # "empty")
    PROVE  GuessInv'
<1>1. RoundSound /\ On /\ Counts(app, cmds, jrn, guesses) /\ CountSound(jrn, guesses) /\ RootsSound
    BY TaskAlone DEF GuessInv
<1>2. Counts(app, {}, jrn, guesses) /\ {} \in Round
    BY <1>1 DEF Counts, Round
<1>3. CASE Done
  <2> DEFINE out == Stay(app)
  <2>1. out.app = app /\ out.cmds = {} /\ Finish(out)
      BY <1>3 DEF Stay, Result, Done
  <2> HIDE DEF out
  <2>2. Ended(jrn, guesses)
      BY <1>1, <1>2, <2>1, TaskEnds
  <2>3. QED
      BY <1>1, <2>2, EndedInv DEF RootsSound
<1>4. CASE Broken
  <2>1. Ended(jrn, guesses)
    <3>1. c \in (Task \cup Wiping) \ {"ERASE_TRANSIENT"} /\ Finish(Fail(app))
        BY <1>4 DEF Broken, Task
    <3>2. QED
        BY <1>1, <3>1, BrokenEnds
  <2>2. QED
      BY <1>1, <2>1, EndedInv DEF RootsSound
<1>5. CASE \E e \in Harmless : Answer(e)
  <2>1. PICK e \in Harmless : Answer(e)
      BY <1>5
  <2>2. e \notin {"PROVISIONING_SUCCEEDED", "AUTH_SUCCEEDED", "ATTEMPT_COUNTER_STORED"}
      BY DEF Harmless
  <2>3. Ended(jrn, guesses)
      BY <1>1, <1>2, <2>1, <2>2, AnswerEnds
  <2>4. QED
      BY <1>1, <2>3, EndedInv DEF RootsSound
<1>6. CASE \E s : Working(s) /\ (s \in Rows => jrn = NoRecord) /\ (s \in Burnt => otp.rows # "empty")
    BY <1>1, <1>6 DEF Working, GuessInv, RoundSound, RootsSound, On
<1>7. QED
    BY <1>3, <1>4, <1>5, <1>6

\* A step of the main loop, whatever event it makes.
LEMMA LoopStep ==
    ASSUME GuessInv, Idle, UNCHANGED <<otp, jrn, guesses, step>>,
           \/ UNCHANGED <<app, cmds, next>>
           \/ \E e, p : Dispatch(e, p) /\ e \notin Replies
    PROVE  GuessInv'
<1>1. On /\ cmds = {} /\ RoundSound /\ RootsSound /\ CountSound(jrn, guesses) /\ Counts(app, {}, jrn, guesses)
    BY DEF GuessInv, Idle
<1>2. CASE UNCHANGED <<app, cmds, next>>
    BY <1>1, <1>2 DEF GuessInv, RoundSound, RootsSound, On
<1>3. CASE \E e, p : Dispatch(e, p) /\ e \notin Replies
  <2>1. PICK e, p : Dispatch(e, p) /\ e \notin Replies
      BY <1>3
  <2> DEFINE out == Handle(app, e, p)
  <2>2. Counts(out.app, out.cmds, jrn, guesses) /\ out.cmds \in Round
    <3>1. e \notin {"PROVISIONING_SUCCEEDED", "AUTH_SUCCEEDED", "ATTEMPT_COUNTER_STORED"}
        BY <2>1 DEF Replies
    <3>2. QED
        BY <1>1, <3>1, HandleCounts
  <2>3. app' = out.app /\ cmds' = out.cmds /\ next' = {}
      BY <2>1 DEF Dispatch
  <2> HIDE DEF out
  <2>4. app' # Off
      BY <2>2, <2>3, CountsOn
  <2>5. RoundSound' /\ RootsSound'
      BY <1>1, <2>2, <2>3, <2>4 DEF RoundSound, RootsSound
  <2>6. QED
      BY <1>1, <2>2, <2>3, <2>4, <2>5 DEF GuessInv, On
<1>4. QED
    BY <1>2, <1>3

\* A step of a wipe that leaves the journal alone, and the fuses in place.
LEMMA WipeStep ==
    ASSUME GuessInv, NEW c \in Wiping, Doing(c), UNCHANGED <<jrn, guesses>>,
           otp' \in RootsType, otp'.rows = otp.rows,
           \/ \E b : Finish(Stay(b)) /\ Counts(b, {}, jrn, guesses) /\ b.provisioned = app.provisioned
           \/ Broken /\ c # "ERASE_TRANSIENT"
    PROVE  GuessInv'
<1>1. RoundSound /\ On /\ Counts(app, cmds, jrn, guesses) /\ CountSound(jrn, guesses) /\ RootsSound
    BY WipeGoesOn DEF GuessInv
<1>2. Ended(jrn, guesses) => GuessInv'
    BY <1>1, EndedInv DEF RootsSound
<1>3. CASE \E b : Finish(Stay(b)) /\ Counts(b, {}, jrn, guesses) /\ b.provisioned = app.provisioned
  <2>1. PICK b : Finish(Stay(b)) /\ Counts(b, {}, jrn, guesses) /\ b.provisioned = app.provisioned
      BY <1>3
  <2> DEFINE out == Stay(b)
  <2>2. out.app = b /\ out.cmds = {} /\ Finish(out)
      BY <2>1 DEF Stay, Result
  <2> HIDE DEF out
  <2>3. cmds = Storing => b.provisioned
    <3>1. cmds = Storing => app.provisioned
        BY <1>1 DEF Counts, Storing, OnRecord
    <3>2. QED
        BY <2>1, <3>1, Zenon
  <2>4. Ended(jrn, guesses)
      BY <1>1, <2>1, <2>2, <2>3, WipeEnds
  <2>5. QED
      BY <1>2, <2>4
<1>4. CASE Broken /\ c # "ERASE_TRANSIENT"
  <2>1. Finish(Fail(app)) /\ c \in (Task \cup Wiping) \ {"ERASE_TRANSIENT"}
      BY <1>4 DEF Broken
  <2>2. Ended(jrn, guesses)
      BY <1>1, <2>1, BrokenEnds
  <2>3. QED
      BY <1>2, <2>2
<1>5. QED
    BY <1>3, <1>4

\* The commands of a wipe.
LEMMA WipeActs == GuessInv /\ (Detach \/ EraseTransient \/ EraseKeys \/ Destroy) => GuessInv'
<1> SUFFICES ASSUME GuessInv, Detach \/ EraseTransient \/ EraseKeys \/ Destroy
             PROVE  GuessInv'
    OBVIOUS
<1> USE DEF durable
<1>1. ASSUME NEW c \in Wiping, Doing(c)
      PROVE  Counts(app, {}, jrn, guesses) /\ RootsSound /\ AppFields \subseteq DOMAIN app
  <2>1. On /\ Counts(app, cmds, jrn, guesses)
      BY <1>1, WipeGoesOn DEF GuessInv
  <2>2. QED
      BY <2>1 DEF GuessInv, Counts, AppSound
<1>2. CASE Detach
  <2>1. Doing("DETACH") /\ "DETACH" \in Wiping /\ "DETACH" # "ERASE_TRANSIENT"
      BY <1>2 DEF Detach, Wiping, Wipe
  <2>2. UNCHANGED <<otp, jrn, guesses>> /\ (Finish(Stay(app)) \/ Broken)
      BY <1>2 DEF Detach, Done
  <2>3. QED
      BY <1>1, <2>1, <2>2, WipeStep DEF RootsSound
<1>3. CASE EraseTransient
  <2> DEFINE b == [app EXCEPT !.secret = NoEntry, !.setup = NoEntry]
  <2>1. Doing("ERASE_TRANSIENT") /\ "ERASE_TRANSIENT" \in Wiping
      BY <1>3 DEF EraseTransient, Wiping, Wipe
  <2>2. UNCHANGED <<otp, jrn, guesses>> /\ Finish(Stay(b))
      BY <1>3 DEF EraseTransient
  <2>3. /\ AppFields \subseteq DOMAIN b /\ b.attempts = app.attempts /\ b.provisioned = app.provisioned
        /\ b.unlocked = app.unlocked /\ b.state = app.state
      BY <1>1, <2>1 DEF AppFields
  <2> HIDE DEF b
  <2>4. Counts(b, {}, jrn, guesses)
      BY <1>1, <2>1, <2>3 DEF Counts, AppSound
  <2>5. QED
      BY <1>1, <2>1, <2>2, <2>3, <2>4, WipeStep DEF RootsSound
<1>4. CASE EraseKeys
  <2>1. Doing("ERASE_KEYS") /\ "ERASE_KEYS" \in Wiping
      BY <1>4 DEF EraseKeys, Wiping, Wipe
  <2>2. UNCHANGED <<otp, jrn, guesses>> /\ Finish(Stay(ForgetSession(app)))
      BY <1>4 DEF EraseKeys
  <2>3. Counts(ForgetSession(app), {}, jrn, guesses) /\ ForgetSession(app).provisioned = app.provisioned
      BY <1>1, <2>1, ForgetCounts
  <2>4. QED
      BY <1>1, <2>1, <2>2, <2>3, WipeStep DEF RootsSound
<1>5. CASE Destroy
  <2>1. Doing("DESTROY") /\ "DESTROY" \in Wiping /\ "DESTROY" # "ERASE_TRANSIENT"
      BY <1>5 DEF Destroy, Wiping, Wipe
  <2>2. UNCHANGED <<jrn, guesses>> /\ (Finish(Stay(app)) \/ Broken)
      BY <1>5 DEF Destroy, Done
  <2>3. otp \in RootsType
      BY <1>1, <2>1 DEF RootsSound
  <2>4. \E r \in {"no", "yes", "torn"} : otp' = [otp EXCEPT !.revoked = r]
      BY <1>5, <2>3 DEF Destroy, RootsType
  <2>5. otp' \in RootsType /\ otp'.rows = otp.rows
      BY <2>3, <2>4 DEF RootsType
  <2>6. QED
      BY <1>1, <2>1, <2>2, <2>5, WipeStep
<1>6. QED
    BY <1>2, <1>3, <1>4, <1>5

\* The commands that write neither fuses nor journal.
LEMMA PlainTasks ==
    GuessInv /\ (InspectMedia \/ PrepareMedia \/ ProvisionVault \/ ProvisionSuper \/ ProvisionHeader
                   \/ ChangeStart \/ ChangeStage \/ ChangeVerify \/ AttachMassStorage \/ AttachPasskeys) => GuessInv'
<1> USE DEF durable
<1>1. {"MEDIA_FOUND", "MEDIA_FAILED", "MEDIA_PREPARED", "PROVISIONING_FAILED", "CREDENTIAL_CHANGED"} \subseteq Harmless
    BY DEF Harmless, Replies
<1>2. /\ {"INSPECT", "PREPARE", "PROVISION", "CHANGE", "ATTACH_MSC", "ATTACH_FIDO"} \subseteq Task
      /\ {"", "anchor", "stage", "commit", "verify"} \cap Rows = {} /\ Burnt \subseteq Rows
    BY DEF Task, Rows, Burnt
<1>3. ASSUME GuessInv, step \in Burnt
      PROVE  jrn = NoRecord /\ otp.rows # "empty"
    BY <1>2, <1>3 DEF GuessInv, RoundSound, RootsSound
<1>4. ASSUME GuessInv, InspectMedia
      PROVE  GuessInv'
  <2>1. Doing("INSPECT") /\ UNCHANGED <<otp, jrn, guesses>> /\ \E e \in Harmless : Answer(e)
      BY <1>1, <1>4 DEF InspectMedia
  <2>2. QED
      BY <1>2, <1>4, <2>1, TaskStep
<1>5. ASSUME GuessInv, PrepareMedia
      PROVE  GuessInv'
  <2>1. Doing("PREPARE") /\ UNCHANGED <<otp, jrn, guesses>> /\ \E e \in Harmless : Answer(e)
      BY <1>1, <1>5 DEF PrepareMedia
  <2>2. QED
      BY <1>2, <1>5, <2>1, TaskStep
<1>6. ASSUME GuessInv, ProvisionVault
      PROVE  GuessInv'
  <2>1. /\ Doing("PROVISION") /\ UNCHANGED <<otp, jrn, guesses>> /\ step = "vault"
        /\ Working("super0") \/ \E e \in Harmless : Answer(e)
      BY <1>1, <1>6 DEF ProvisionVault, SetupFails
  <2>2. QED
      BY <1>2, <1>3, <1>6, <2>1, TaskStep DEF Burnt
<1>7. ASSUME GuessInv, ProvisionSuper
      PROVE  GuessInv'
  <2>1. /\ Doing("PROVISION") /\ UNCHANGED <<otp, jrn, guesses>> /\ step \in {"super0", "super1"}
        /\ Working("super1") \/ Working("header") \/ \E e \in Harmless : Answer(e)
      BY <1>1, <1>7 DEF ProvisionSuper, SetupFails
  <2>2. QED
      BY <1>2, <1>3, <1>7, <2>1, TaskStep DEF Burnt
<1>8. ASSUME GuessInv, ProvisionHeader
      PROVE  GuessInv'
  <2>1. /\ Doing("PROVISION") /\ UNCHANGED <<otp, jrn, guesses>> /\ step = "header"
        /\ Working("journal") \/ \E e \in Harmless : Answer(e)
      BY <1>1, <1>8 DEF ProvisionHeader, SetupFails
  <2>2. QED
      BY <1>2, <1>3, <1>8, <2>1, TaskStep DEF Burnt
<1>9. ASSUME GuessInv, ChangeStart
      PROVE  GuessInv'
  <2>1. /\ Doing("CHANGE") /\ UNCHANGED <<otp, jrn, guesses>>
        /\ Broken \/ Working("anchor") \/ Working("stage")
      BY <1>9 DEF ChangeStart
  <2>2. QED
      BY <1>2, <1>9, <2>1, TaskStep
<1>10. ASSUME GuessInv, ChangeStage
       PROVE  GuessInv'
  <2>1. Doing("CHANGE") /\ UNCHANGED <<otp, jrn, guesses>> /\ (Broken \/ Working("commit"))
      BY <1>10 DEF ChangeStage
  <2>2. QED
      BY <1>2, <1>10, <2>1, TaskStep
<1>11. ASSUME GuessInv, ChangeVerify
       PROVE  GuessInv'
  <2>1. Doing("CHANGE") /\ UNCHANGED <<otp, jrn, guesses>> /\ (Broken \/ \E e \in Harmless : Answer(e))
      BY <1>1, <1>11 DEF ChangeVerify
  <2>2. QED
      BY <1>2, <1>11, <2>1, TaskStep
<1>12. ASSUME GuessInv, AttachMassStorage
       PROVE  GuessInv'
  <2>1. Doing("ATTACH_MSC") /\ UNCHANGED <<otp, jrn, guesses>> /\ (Broken \/ Done)
      BY <1>12 DEF AttachMassStorage
  <2>2. QED
      BY <1>2, <1>12, <2>1, TaskStep
<1>13. ASSUME GuessInv, AttachPasskeys
       PROVE  GuessInv'
  <2>1. Doing("ATTACH_FIDO") /\ UNCHANGED <<otp, jrn, guesses>> /\ (Broken \/ Done)
      BY <1>13 DEF AttachPasskeys
  <2>2. QED
      BY <1>2, <1>13, <2>1, TaskStep
<1>14. QED
    BY <1>4, <1>5, <1>6, <1>7, <1>8, <1>9, <1>10, <1>11, <1>12, <1>13

\* The engine moves the index and the count of the passkeys.
LEMMA PasskeyTasks == GuessInv /\ ManagePasskeys => GuessInv'
<1> SUFFICES ASSUME GuessInv, ManagePasskeys
             PROVE  GuessInv'
    OBVIOUS
<1> USE DEF durable
<1>1. PICK c \in Task : Doing(c)
    BY DEF ManagePasskeys, Task
<1>2. RoundSound /\ On /\ Counts(app, cmds, jrn, guesses) /\ CountSound(jrn, guesses) /\ RootsSound
      /\ UNCHANGED <<otp, jrn, guesses>>
    BY <1>1, TaskAlone DEF GuessInv, ManagePasskeys
<1>3. CASE Broken
    BY <1>1, <1>2, <1>3, TaskStep
<1>4. CASE \E n \in 0 .. MaxPasskeys : Finish(Stay([app EXCEPT !.count = n, !.index = IF @ < n THEN @ ELSE 0]))
  <2>1. PICK n \in 0 .. MaxPasskeys : Finish(Stay([app EXCEPT !.count = n, !.index = IF @ < n THEN @ ELSE 0]))
      BY <1>4
  <2> DEFINE b == [app EXCEPT !.count = n, !.index = IF @ < n THEN @ ELSE 0]
             out == Stay(b)
  <2>2. /\ AppFields \subseteq DOMAIN b /\ b.attempts = app.attempts /\ b.provisioned = app.provisioned
        /\ b.unlocked = app.unlocked /\ b.state = app.state
      BY <1>2 DEF AppFields, Counts, AppSound
  <2> HIDE DEF b
  <2>3. out.app = b /\ out.cmds = {} /\ Finish(out)
      BY <2>1 DEF Stay, Result, b
  <2> HIDE DEF out
  <2>4. Counts(b, {}, jrn, guesses) /\ {} \in Round
      BY <1>2, <2>2 DEF Counts, AppSound, Round
  <2>5. Ended(jrn, guesses)
      BY <1>1, <1>2, <2>3, <2>4, TaskEnds
  <2>6. QED
      BY <1>2, <2>5, EndedInv DEF RootsSound
<1>5. QED
    BY <1>3, <1>4 DEF ManagePasskeys

\* Setup begins only without a record, and burns the roots first.
LEMMA RootsTasks == GuessInv /\ (ProvisionStart \/ ProvisionRoots) => GuessInv'
<1> SUFFICES ASSUME GuessInv, ProvisionStart \/ ProvisionRoots
             PROVE  GuessInv'
    OBVIOUS
<1> USE DEF durable
<1>1. Doing("PROVISION") /\ "PROVISION" \in Task /\ "PROVISIONING_FAILED" \in Harmless
    BY DEF ProvisionStart, ProvisionRoots, Task, Harmless, Replies
<1>2. RoundSound /\ On /\ Counts(app, cmds, jrn, guesses) /\ CountSound(jrn, guesses) /\ RootsSound
    BY <1>1, TaskAlone DEF GuessInv
<1>3. CASE ProvisionStart
  <2> DEFINE status == RootsStatus(otp)
             pristine == status \in {"EMPTY", "ACTIVE"} /\ StateResult(otp, jrn) = "NOT_FOUND"
  <2>1. pristine => jrn = NoRecord
    <3>1. status = "EMPTY" => otp.rows = "empty"
        BY <1>2 DEF RootsStatus, RootsSound, RootsType
    <3>2. status = "ACTIVE" => RootsResult(otp) = "OK"
        BY DEF RootsResult
    <3>3. QED
        BY <1>2, <3>1, <3>2 DEF StateResult, RootsSound
  <2>2. status = "ACTIVE" => otp.rows # "empty"
      BY <1>2 DEF RootsStatus, RootsSound, RootsType
  <2>3. /\ UNCHANGED <<otp, jrn, guesses>>
        /\ \/ pristine /\ Working("rows")
           \/ pristine /\ status = "ACTIVE" /\ Working("vault")
           \/ Answer("PROVISIONING_FAILED")
      BY <1>3 DEF ProvisionStart, SetupFails
  <2>4. "rows" \notin Burnt
      BY DEF Burnt
  <2> HIDE DEF status, pristine
  <2>5. QED
      BY <1>1, <2>1, <2>2, <2>3, <2>4, TaskStep
<1>4. CASE ProvisionRoots
  <2> DEFINE after == [rows |-> "format", format |-> "active", active |-> "vault"][step]
  <2>1. step \in {"rows", "format", "active"} /\ jrn = NoRecord /\ jrn' = jrn /\ guesses' = guesses
      BY <1>2, <1>4 DEF ProvisionRoots, RoundSound, Rows
  <2>2. PICK r \in {"torn", step} : otp' = [otp EXCEPT !.rows = r]
      BY <1>4 DEF ProvisionRoots
  <2>3. otp' \in RootsType /\ otp'.rows = r /\ r # "empty"
      BY <1>2, <2>1, <2>2 DEF RootsSound, RootsType
  <2>4. Working(after) \/ Working("vault") \/ Answer("PROVISIONING_FAILED")
      BY <1>4 DEF ProvisionRoots, RootsProve, SetupFails
  <2>5. CASE Answer("PROVISIONING_FAILED")
    <3>1. Counts(app, {}, jrn, guesses)
        BY <1>2 DEF Counts
    <3>2. Ended(jrn, guesses)
        BY <1>1, <1>2, <2>5, <3>1, AnswerEnds
    <3>3. QED
        BY <1>2, <2>1, <2>3, <3>2, EndedInv
  <2>6. CASE Working(after) \/ Working("vault")
    <3>1. UNCHANGED <<app, cmds, next, jrn, guesses>>
        BY <2>1, <2>6 DEF Working
    <3>2. RoundSound' /\ RootsSound'
        BY <1>2, <2>1, <2>3, <3>1 DEF RoundSound, RootsSound
    <3>3. QED
        BY <1>2, <3>1, <3>2 DEF GuessInv, On
  <2>7. QED
      BY <2>4, <2>5, <2>6
<1>5. QED
    BY <1>3, <1>4

\* The first record: no attempt has been made.
LEMMA RecordTask == GuessInv /\ ProvisionState => GuessInv'
<1> SUFFICES ASSUME GuessInv, ProvisionState
             PROVE  GuessInv'
    OBVIOUS
<1>1. /\ Doing("PROVISION") /\ "PROVISION" \in Task /\ "PROVISIONING_FAILED" \in Harmless
      /\ step = "journal" /\ UNCHANGED <<otp, guesses>>
    BY DEF ProvisionState, Task, Harmless, Replies
<1>2. RoundSound /\ On /\ Counts(app, cmds, jrn, guesses) /\ CountSound(jrn, guesses) /\ RootsSound
    BY <1>1, TaskAlone DEF GuessInv
<1>3. jrn = NoRecord /\ otp.rows # "empty" /\ otp \in RootsType
    BY <1>1, <1>2 DEF RoundSound, RootsSound, Rows, Burnt
<1>4. CASE UNCHANGED jrn /\ Answer("PROVISIONING_FAILED")
    BY <1>1, <1>4, TaskStep
<1>5. ASSUME jrn' = Record(1, 0, vid, NoHeader),
             NEW e \in {"PROVISIONING_SUCCEEDED", "PROVISIONING_FAILED"}, Answer(e)
      PROVE  GuessInv'
  <2>1. "attempts" \in DOMAIN jrn' /\ jrn'.attempts = 0 /\ "attempts" \notin DOMAIN NoRecord
      BY <1>5 DEF Record, NoRecord
  <2>2. guesses = 0
      BY <1>2, <1>3, AttemptsAssumption DEF CountSound
  <2>3. CountSound(jrn', guesses)
      BY <2>1, <2>2, AttemptsAssumption DEF CountSound
  <2>4. Counts(app, {}, jrn', guesses)
      BY <1>2, <1>3 DEF Counts, AppSound, SetUpStates
  <2>5. Ended(jrn', guesses)
      BY <1>1, <1>2, <1>5, <2>1, <2>2, <2>3, <2>4, AnswerEnds
  <2>6. QED
      BY <1>1, <1>3, <2>3, <2>5, EndedInv
<1>6. QED
    BY <1>4, <1>5 DEF ProvisionState, SetupFails

\* The counter is stored before the secret is looked at.
LEMMA StoreTask == GuessInv /\ StoreAttempt => GuessInv'
<1> SUFFICES ASSUME GuessInv, StoreAttempt
             PROVE  GuessInv'
    OBVIOUS
<1>1. Doing("STORE_ATTEMPT") /\ "STORE_ATTEMPT" \in Task /\ UNCHANGED <<otp, guesses>>
    BY DEF StoreAttempt, Task
<1>2. RoundSound /\ On /\ Counts(app, cmds, jrn, guesses) /\ CountSound(jrn, guesses) /\ RootsSound
      /\ cmds = {"STORE_ATTEMPT"}
    BY <1>1, TaskAlone DEF GuessInv
<1>3. /\ app.provisioned /\ jrn # NoRecord /\ guesses <= app.attempts /\ app.attempts \in 0 .. MaxUnlockAttempts
      /\ "attempts" \in DOMAIN jrn
    BY <1>2 DEF Counts, OnRecord, AppSound, CountSound
<1>4. CASE UNCHANGED jrn /\ Broken
    BY <1>1, <1>4, TaskStep
<1>5. CASE jrn' = [jrn EXCEPT !.seq = @ + 1, !.attempts = app.attempts] /\ Answer("ATTEMPT_COUNTER_STORED")
  <2>1. "attempts" \in DOMAIN jrn' /\ jrn'.attempts = app.attempts /\ "attempts" \notin DOMAIN NoRecord
      BY <1>3, <1>5 DEF NoRecord
  <2>2. CountSound(jrn', guesses)
      BY <1>2, <1>3, <2>1 DEF CountSound
  <2>3. jrn' # NoRecord
      BY <2>1
  <2>4. Counts(app, {}, jrn', guesses)
      BY <1>2, <1>3, <2>3 DEF Counts
  <2>5. Answer("ATTEMPT_COUNTER_STORED") /\ jrn'.attempts = app.attempts
      BY <1>5, <2>1
  <2>6. Ended(jrn', guesses)
      BY <1>1, <1>2, <2>2, <2>4, <2>5, AnswerEnds
  <2>7. QED
      BY <1>1, <1>2, <1>3, <2>2, <2>6, EndedInv DEF RootsSound
<1>6. CASE jrn' = [jrn EXCEPT !.seq = @ + 1, !.attempts = app.attempts] /\ Broken
  <2>1. "attempts" \in DOMAIN jrn' /\ jrn'.attempts = app.attempts /\ "attempts" \notin DOMAIN NoRecord
      BY <1>3, <1>6 DEF NoRecord
  <2>2. CountSound(jrn', guesses) /\ jrn' # NoRecord
      BY <1>2, <1>3, <2>1 DEF CountSound
  <2>3. Counts(app, {}, jrn', guesses)
      BY <1>2, <1>3, <2>2 DEF Counts
  <2>4. Ended(jrn', guesses)
      BY <1>1, <1>2, <1>6, <2>3, FaultEnds DEF Broken
  <2>5. QED
      BY <1>1, <1>2, <1>3, <2>2, <2>4, EndedInv DEF RootsSound
<1>7. QED
    BY <1>4, <1>5, <1>6 DEF StoreAttempt

\* A secret that is wrong has been charged.
LEMMA SecretTask == GuessInv /\ Authenticate => GuessInv'
<1> SUFFICES ASSUME GuessInv, Authenticate
             PROVE  GuessInv'
    OBVIOUS
<1> USE DEF durable
<1>1. Doing("AUTHENTICATE") /\ "AUTHENTICATE" \in Task /\ UNCHANGED <<otp, jrn>>
    BY DEF Authenticate, Task
<1>2. RoundSound /\ On /\ Counts(app, cmds, jrn, guesses) /\ CountSound(jrn, guesses) /\ RootsSound
      /\ cmds = {"AUTHENTICATE"}
    BY <1>1, TaskAlone DEF GuessInv
<1>3. /\ app.provisioned /\ jrn # NoRecord /\ guesses < app.attempts /\ app.attempts = jrn.attempts
      /\ app.state = "VAULT_AUTHENTICATING" /\ app.attempts \in 0 .. MaxUnlockAttempts /\ guesses \in Nat
      /\ "attempts" \in DOMAIN jrn
    BY <1>2, AttemptsAssumption DEF Counts, OnRecord, AppSound, CountSound
<1>4. ASSUME NEW e \in {"AUTH_SUCCEEDED", "AUTH_FAILED"}, Answer(e),
             guesses' = IF e = "AUTH_SUCCEEDED" THEN 0 ELSE guesses + 1
      PROVE  GuessInv'
  <2>1. CountSound(jrn', guesses')
      BY <1>1, <1>3, <1>4, AttemptsAssumption DEF CountSound
  <2>2. guesses' <= app.attempts
      BY <1>3, <1>4, AttemptsAssumption
  <2>3. Counts(app, {}, jrn', guesses')
      BY <1>1, <1>2, <1>3, <2>2 DEF Counts
  <2>4. Ended(jrn', guesses')
      BY <1>1, <1>2, <1>4, <2>1, <2>3, AnswerEnds
  <2>5. QED
      BY <1>1, <1>2, <1>3, <2>1, <2>4, EndedInv DEF RootsSound
<1>5. CASE Broken /\ UNCHANGED guesses
    BY <1>1, <1>5, TaskStep
<1>6. QED
    BY <1>4, <1>5 DEF Authenticate

\* The anchor moves, the counter does not.
LEMMA AnchorTask == GuessInv /\ ChangeJournal => GuessInv'
<1> SUFFICES ASSUME GuessInv, ChangeJournal
             PROVE  GuessInv'
    OBVIOUS
<1>1. Doing("CHANGE") /\ "CHANGE" \in Task /\ UNCHANGED <<otp, guesses>>
    BY DEF ChangeJournal, Task
<1>2. RoundSound /\ On /\ Counts(app, cmds, jrn, guesses) /\ CountSound(jrn, guesses) /\ RootsSound
      /\ cmds = {"CHANGE"} /\ next = {}
    BY <1>1, TaskAlone DEF GuessInv
<1>3. app.provisioned /\ jrn # NoRecord /\ "attempts" \in DOMAIN jrn
    BY <1>2 DEF Counts, OnRecord, CountSound
<1>4. CASE UNCHANGED jrn /\ Broken
    BY <1>1, <1>4, TaskStep
<1>5. CASE \E head : jrn' = [jrn EXCEPT !.seq = @ + 1, !.anchor = head] /\ \E s \in {"stage", "verify"} : Working(s)
  <2>1. "attempts" \in DOMAIN jrn' /\ jrn'.attempts = jrn.attempts /\ "attempts" \notin DOMAIN NoRecord
      BY <1>3, <1>5 DEF NoRecord
  <2>2. jrn' # NoRecord
      BY <2>1
  <2>3. CountSound(jrn', guesses) /\ Counts(app, cmds, jrn', guesses)
      BY <1>2, <1>3, <2>1, <2>2 DEF CountSound, Counts
  <2>4. UNCHANGED <<app, cmds, next>> /\ step' \in {"stage", "verify"}
      BY <1>5 DEF Working
  <2>5. RoundSound' /\ RootsSound'
      BY <1>1, <1>2, <1>3, <2>4 DEF RoundSound, RootsSound, Rows, Burnt
  <2>6. QED
      BY <1>1, <2>3, <2>4, <2>5 DEF GuessInv, On
<1>6. CASE \E head : jrn' = [jrn EXCEPT !.seq = @ + 1, !.anchor = head] /\ Broken
  <2>1. "attempts" \in DOMAIN jrn' /\ jrn'.attempts = jrn.attempts /\ "attempts" \notin DOMAIN NoRecord
      BY <1>3, <1>6 DEF NoRecord
  <2>2. jrn' # NoRecord
      BY <2>1
  <2>3. CountSound(jrn', guesses) /\ Counts(app, {}, jrn', guesses)
      BY <1>2, <1>3, <2>1, <2>2 DEF CountSound, Counts
  <2>4. Ended(jrn', guesses)
      BY <1>1, <1>2, <1>6, <2>3, FaultEnds DEF Broken
  <2>5. QED
      BY <1>1, <1>2, <1>3, <2>3, <2>4, EndedInv DEF RootsSound
<1>7. QED
    BY <1>4, <1>5, <1>6 DEF ChangeJournal

\* The application as main starts it.
Started(stored, j, method) == AppInit(stored, IF stored THEN j.attempts ELSE 0, method)

\* It faults, or goes on with the card or without.
Begins(a, e) ==
    \/ app' = EnterFault(a).app /\ cmds' = {}
    \/ /\ e \in {"BOOT_COMPLETED", "BOOT_MEDIA_REQUIRED"}
       /\ app' = Handle(a, e, NoPick).app /\ cmds' = Handle(a, e, NoPick).cmds

\* It counts what is on record.
LEMMA StartedCounts ==
    ASSUME NEW stored \in BOOLEAN, NEW j, NEW g, NEW method, CountSound(j, g), stored => j # NoRecord
    PROVE  Counts(Started(stored, j, method), {}, j, g)
<1> DEFINE a == Started(stored, j, method)
           n == IF stored THEN j.attempts ELSE 0
<1>1. n \in 0 .. MaxUnlockAttempts /\ (stored => g <= n)
    BY AttemptsAssumption DEF CountSound
<1>2. n > MaxUnlockAttempts => FALSE
    BY <1>1, AttemptsAssumption
<1> HIDE DEF n
<1>3. /\ AppFields \subseteq DOMAIN a /\ a.state = "BOOTING" /\ a.provisioned = stored /\ a.unlocked = FALSE
      /\ a.attempts = n
    BY <1>2 DEF Started, AppInit, AppFields, n
<1> HIDE DEF a
<1>4. a.provisioned \in BOOLEAN /\ a.unlocked \in BOOLEAN
    BY <1>3, Zenon
<1>5. a.state \notin SetUpStates /\ a.state # "VAULT_RESERVING_ATTEMPT"
    BY <1>3 DEF SetUpStates, OpenStates, SettingsStates
<1>6. a.provisioned => j # NoRecord /\ g <= a.attempts
    BY <1>1, <1>3, Zenon
<1>7. AppSound(a)
    BY <1>1, <1>3, <1>4, <1>5 DEF AppSound
<1>8. Counts(a, {}, j, g)
    BY <1>5, <1>6, <1>7 DEF Counts
<1>9. QED
    BY <1>8 DEF a

\* The start of the device makes the application, and lets it begin.
LEMMA BootBegins == Boot => \E method, e : Begins(Started(StateResult(otp, jrn) = "OK", jrn, method), e)
<1> SUFFICES ASSUME Boot
             PROVE  \E method, e : Begins(Started(StateResult(otp, jrn) = "OK", jrn, method), e)
    OBVIOUS
<1> DEFINE stored == StateResult(otp, jrn) = "OK"
<1>1. PICK reads, present, id, faulted : app' = BootOutcome(reads, present, id, faulted).app
                                         /\ cmds' = BootOutcome(reads, present, id, faulted).cmds
    BY DEF Boot
<1> DEFINE header == IF reads THEN LoadVaultHeader(otp, jrn, card, id)
                     ELSE [result |-> "IO_ERROR", found |-> NoHeader]
           how == Recovered(RootsStatus(otp), present, header)
           method == IF stored /\ how = "READY" THEN header.found.entry.method ELSE 0
           b == Started(stored, jrn, method)
           out == CASE faulted \/ how = "FAILED" -> Stay(EnterFault(b).app)
                    [] ~faulted /\ how = "READY" -> Handle(b, "BOOT_COMPLETED", NoPick)
                    [] OTHER -> Handle(b, "BOOT_MEDIA_REQUIRED", NoPick)
<1>2. app' = out.app /\ cmds' = out.cmds
    BY <1>1 DEF BootOutcome, Started
<1> HIDE DEF header, how, method, b
<1>3. \/ out = Stay(EnterFault(b).app)
      \/ \E e \in {"BOOT_COMPLETED", "BOOT_MEDIA_REQUIRED"} : out = Handle(b, e, NoPick)
    OBVIOUS
<1> HIDE DEF out
<1>4. \/ app' = EnterFault(b).app /\ cmds' = {}
      \/ \E e \in {"BOOT_COMPLETED", "BOOT_MEDIA_REQUIRED"} :
            app' = Handle(b, e, NoPick).app /\ cmds' = Handle(b, e, NoPick).cmds
    BY <1>2, <1>3 DEF Stay, Result
<1>5. QED
    BY <1>4 DEF b, Begins

\* The start of the device reads the counter from the record.
LEMMA BootAct == GuessInv /\ Boot => GuessInv'
<1> SUFFICES ASSUME GuessInv, Boot
             PROVE  GuessInv'
    OBVIOUS
<1> USE DEF durable
<1>1. CountSound(jrn, guesses) /\ RootsSound /\ UNCHANGED <<otp, jrn, guesses>> /\ step' = "" /\ next' = {}
    BY DEF GuessInv, Boot
<1> DEFINE stored == StateResult(otp, jrn) = "OK"
<1>2. \E method, e : Begins(Started(stored, jrn, method), e)
    BY BootBegins
<1>3. PICK method, e : Begins(Started(stored, jrn, method), e)
    BY <1>2
<1> DEFINE a == Started(stored, jrn, method)
<1>4. Counts(a, {}, jrn, guesses)
  <2>1. stored \in BOOLEAN /\ (stored => jrn # NoRecord)
      BY DEF StateResult
  <2> HIDE DEF stored
  <2>2. QED
      BY <1>1, <2>1, StartedCounts, Zenon
<1> HIDE DEF a
<1>5. e \in {"BOOT_COMPLETED", "BOOT_MEDIA_REQUIRED"} =>
        /\ Counts(Handle(a, e, NoPick).app, Handle(a, e, NoPick).cmds, jrn, guesses)
        /\ Handle(a, e, NoPick).cmds \in Round
    BY <1>1, <1>4, HandleCounts
<1>6. Counts(EnterFault(a).app, {}, jrn, guesses) /\ {} \in Round
    BY <1>4, FaultCounts DEF Round
<1>7. \/ app' = EnterFault(a).app /\ cmds' = {}
      \/ /\ e \in {"BOOT_COMPLETED", "BOOT_MEDIA_REQUIRED"}
         /\ app' = Handle(a, e, NoPick).app /\ cmds' = Handle(a, e, NoPick).cmds
    BY <1>3 DEF a, Begins
<1>8. Counts(app', cmds', jrn, guesses) /\ cmds' \in Round
    BY <1>5, <1>6, <1>7
<1>9. app' # Off
    BY <1>8, CountsOn
<1>10. Ended(jrn, guesses)
    BY <1>1, <1>8, <1>9 DEF Ended
<1>11. QED
    BY <1>1, <1>10, EndedInv DEF RootsSound

\* A card that was inserted brings back the counter of the record.
LEMMA CardAct == GuessInv /\ CardInserted => GuessInv'
<1> SUFFICES ASSUME GuessInv, CardInserted
             PROVE  GuessInv'
    OBVIOUS
<1> USE DEF durable
<1>1. Idle /\ UNCHANGED <<otp, jrn, guesses, step>>
    BY DEF CardInserted, NoWork
<1>2. On /\ cmds = {} /\ RoundSound /\ RootsSound /\ CountSound(jrn, guesses) /\ Counts(app, {}, jrn, guesses)
    BY <1>1 DEF GuessInv, Idle
<1>3. CASE app.state # "BOOT_MEDIA_REQUIRED"
  <2>1. UNCHANGED <<app, cmds, next>>
      BY <1>3 DEF CardInserted
  <2>2. QED
      BY <1>1, <2>1, LoopStep
<1>4. CASE app.state = "BOOT_MEDIA_REQUIRED"
  <2>1. PICK method :
          LET b == [app EXCEPT !.attempts = jrn.attempts, !.method = method]
          IN /\ next' = {}
             /\ \/ app' = Handle(b, "BOOT_COMPLETED", NoPick).app /\ cmds' = Handle(b, "BOOT_COMPLETED", NoPick).cmds
                \/ app' = EnterFault(app).app /\ cmds' = EnterFault(app).cmds
                \/ app' = app /\ cmds' = {}
      BY <1>4 DEF CardInserted, Stay, Result
  <2> DEFINE b == [app EXCEPT !.attempts = jrn.attempts, !.method = method]
  <2>2. app.provisioned /\ jrn # NoRecord
      BY <1>2, <1>4 DEF Counts, AppSound, SetUpStates
  <2>3. /\ AppFields \subseteq DOMAIN b /\ b.state = app.state /\ b.provisioned = app.provisioned
        /\ b.unlocked = app.unlocked /\ b.attempts = jrn.attempts
      BY <1>2 DEF Counts, AppSound, AppFields
  <2> HIDE DEF b
  <2>4. Counts(b, {}, jrn, guesses)
      BY <1>2, <1>4, <2>2, <2>3 DEF Counts, AppSound, CountSound
  <2>5. /\ Counts(Handle(b, "BOOT_COMPLETED", NoPick).app, Handle(b, "BOOT_COMPLETED", NoPick).cmds, jrn, guesses)
        /\ Handle(b, "BOOT_COMPLETED", NoPick).cmds \in Round
      BY <1>2, <2>4, HandleCounts
  <2>6. /\ Counts(EnterFault(app).app, {}, jrn, guesses) /\ EnterFault(app).cmds = Wipe /\ Wipe \in Round /\ {} \in Round
        /\ Wipe \cap OnRecord = {} /\ "AUTHENTICATE" \notin Wipe
      BY <1>2, FaultCounts DEF Round, Wiping, Wipe, OnRecord
  <2>7. Counts(EnterFault(app).app, Wipe, jrn, guesses)
      BY <2>6 DEF Counts
  <2>8. \/ app' = Handle(b, "BOOT_COMPLETED", NoPick).app /\ cmds' = Handle(b, "BOOT_COMPLETED", NoPick).cmds
        \/ app' = EnterFault(app).app /\ cmds' = EnterFault(app).cmds
        \/ app' = app /\ cmds' = {}
      BY <2>1 DEF b
  <2>9. Counts(app', cmds', jrn, guesses) /\ cmds' \in Round /\ next' = {}
      BY <1>2, <2>1, <2>5, <2>6, <2>7, <2>8
  <2>10. app' # Off
      BY <2>9, CountsOn
  <2>11. RoundSound' /\ RootsSound'
      BY <1>1, <1>2, <2>9, <2>10 DEF RoundSound, RootsSound
  <2>12. QED
      BY <1>1, <1>2, <2>9, <2>10, <2>11 DEF GuessInv, On
<1>5. QED
    BY <1>3, <1>4

\* Power is lost.
LEMMA CutAct == GuessInv /\ Cut => GuessInv'
<1> SUFFICES ASSUME GuessInv, Cut
             PROVE  GuessInv'
    OBVIOUS
<1> USE DEF durable
<1>1. app' = Off /\ cmds' = {} /\ next' = {} /\ step' = "" /\ guesses' = guesses /\ jrn' = jrn
    BY DEF Cut, Tearing
<1>2. otp \in RootsType /\ (jrn # NoRecord => otp.rows # "empty")
    BY DEF GuessInv, RootsSound
<1>3. \/ otp' = otp
      \/ step \in Rows \ Burnt /\ \E r \in {"torn", "rows", "format", "active"} : otp' = [otp EXCEPT !.rows = r]
      \/ \E r \in {"torn", "yes"} : otp' = [otp EXCEPT !.revoked = r]
    BY DEF Cut, Tearing, Rows, Burnt
<1>4. otp' \in RootsType /\ (jrn # NoRecord => otp'.rows # "empty")
    BY <1>2, <1>3 DEF RootsType
<1>5. RoundSound' /\ RootsSound'
    BY <1>1, <1>4 DEF RoundSound, RootsSound, Round, Rows, Burnt
<1>6. QED
    BY <1>1, <1>5 DEF GuessInv, On

\* The main loop, and what happens outside the device.
LEMMA LoopActs ==
    GuessInv /\ (PollCard \/ CardLost \/ PollConnector \/ HostStorage \/ HostPasskeys \/ TakeUsb \/ Press
                   \/ DisplayLost \/ MoveCard \/ MoveCable \/ UNCHANGED vars) => GuessInv'
<1> SUFFICES ASSUME GuessInv, PollCard \/ CardLost \/ PollConnector \/ HostStorage \/ HostPasskeys \/ TakeUsb \/ Press
                                \/ DisplayLost \/ MoveCard \/ MoveCable \/ UNCHANGED vars
             PROVE  GuessInv'
    OBVIOUS
<1> USE DEF durable
<1>1. CASE MoveCard \/ MoveCable \/ UNCHANGED vars
  <2>1. UNCHANGED <<app, cmds, next, step, otp, jrn, guesses>>
      BY <1>1 DEF MoveCard, MoveCable, vars, ram
  <2>2. QED
      BY <2>1 DEF GuessInv, RoundSound, RootsSound, On
<1>2. CASE PollCard \/ HostStorage \/ HostPasskeys
  <2>1. Idle /\ UNCHANGED <<otp, jrn, guesses, step>> /\ UNCHANGED <<app, cmds, next>>
      BY <1>2 DEF PollCard, HostStorage, HostPasskeys, NoWork
  <2>2. QED
      BY <2>1, LoopStep
<1>3. {"STORAGE_FAILED", "FATAL_ERROR", "LOCK_REQUESTED", "USB_EJECTED"} \cap Replies = {}
    BY DEF Replies
<1>4. CASE CardLost \/ DisplayLost \/ TakeUsb
  <2>1. /\ Idle /\ UNCHANGED <<otp, jrn, guesses, step>>
        /\ \E e \in {"STORAGE_FAILED", "FATAL_ERROR", "LOCK_REQUESTED", "USB_EJECTED"} : Dispatch(e, NoPick)
      BY <1>4 DEF CardLost, DisplayLost, TakeUsb, NoWork
  <2>2. QED
      BY <1>3, <2>1, LoopStep
<1>5. CASE PollConnector
  <2>1. /\ Idle /\ UNCHANGED <<otp, jrn, guesses, step>>
        /\ Dispatch("FATAL_ERROR", NoPick) \/ UNCHANGED <<app, cmds, next>>
      BY <1>5 DEF PollConnector, NoWork
  <2>2. QED
      BY <1>3, <2>1, LoopStep
<1>6. CASE Press
  <2>1. PICK b \in Buttons(app) : \E p \in Picks(b) : Dispatch(b, p)
      BY <1>6 DEF Press
  <2>2. b \notin Replies
      BY DEF Buttons, Replies
  <2>3. Idle /\ UNCHANGED <<otp, jrn, guesses, step>>
      BY <1>6 DEF Press, NoWork
  <2>4. QED
      BY <2>1, <2>2, <2>3, LoopStep
<1>7. QED
    BY <1>1, <1>2, <1>4, <1>5, <1>6

\* First generation: the inductive invariant of the attempts.
THEOREM GuessInvariant == Spec => []GuessInv
<1>1. Init => GuessInv
  <2> SUFFICES ASSUME Init
               PROVE  GuessInv
      OBVIOUS
  <2>1. app = Off /\ cmds = {} /\ next = {} /\ step = "" /\ guesses = 0
      BY DEF Init
  <2>2. \/ jrn = NoRecord /\ otp = [rows |-> "empty", revoked |-> "no"]
        \/ jrn = Record(1, 0, 1, NoHeader) /\ otp = [rows |-> "active", revoked |-> "no"]
      BY Zenon DEF Init, New, SetUp
  <2>3. RootsSound
    <3>1. otp \in RootsType /\ (jrn = NoRecord \/ otp.rows = "active")
        BY <2>2 DEF RootsType
    <3>2. QED
        BY <2>1, <3>1 DEF RootsSound, Burnt
  <2>4. CountSound(jrn, guesses)
    <3>1. jrn = NoRecord \/ ("attempts" \in DOMAIN jrn /\ jrn.attempts = 0)
        BY <2>2 DEF Record, NoRecord
    <3>2. 0 \in 0 .. MaxUnlockAttempts
        BY AttemptsAssumption
    <3>3. jrn # NoRecord => "attempts" \in DOMAIN jrn /\ jrn.attempts = 0
        BY <3>1
    <3>4. guesses <= IF jrn = NoRecord THEN 0 ELSE jrn.attempts
      <4> DEFINE n == IF jrn = NoRecord THEN 0 ELSE jrn.attempts
      <4>1. n = 0
          BY <3>3, Zenon
      <4>2. guesses = 0
          BY <2>1, Zenon
      <4> HIDE DEF n
      <4>3. guesses <= n
          BY <4>1, <4>2
      <4>4. QED
          BY <4>3 DEF n
    <3>5. QED
        BY <2>1, <3>2, <3>3, <3>4 DEF CountSound
  <2>5. RoundSound
      BY <2>1 DEF RoundSound, Round, Rows
  <2>6. QED
      BY <2>1, <2>3, <2>4, <2>5 DEF GuessInv, On
<1>2. GuessInv /\ [Next]_vars => GuessInv'
  <2> SUFFICES ASSUME GuessInv, [Next]_vars
               PROVE  GuessInv'
      OBVIOUS
  <2>1. CASE Boot \/ Cut \/ CardInserted
      BY <2>1, BootAct, CutAct, CardAct
  <2>2. CASE Detach \/ EraseTransient \/ EraseKeys \/ Destroy
      BY <2>2, WipeActs
  <2>3. CASE InspectMedia \/ PrepareMedia \/ ProvisionVault \/ ProvisionSuper \/ ProvisionHeader
               \/ ChangeStart \/ ChangeStage \/ ChangeVerify \/ AttachMassStorage \/ AttachPasskeys
      BY <2>3, PlainTasks
  <2>4. CASE ProvisionStart \/ ProvisionRoots \/ ProvisionState \/ StoreAttempt \/ Authenticate \/ ChangeJournal
               \/ ManagePasskeys
      BY <2>4, RootsTasks, RecordTask, StoreTask, SecretTask, AnchorTask, PasskeyTasks
  <2>5. CASE PollCard \/ CardLost \/ PollConnector \/ HostStorage \/ HostPasskeys \/ TakeUsb \/ Press
               \/ DisplayLost \/ MoveCard \/ MoveCable \/ UNCHANGED vars
      BY <2>5, LoopActs
  <2>6. QED
      BY <2>1, <2>2, <2>3, <2>4, <2>5 DEF Next
<1>3. QED
    BY <1>1, <1>2, PTL DEF Spec

\* First generation: between two right secrets no more wrong ones are evaluated
\* than the device allows, and each was on record before it was looked at.
THEOREM DeviceGuessBound == Spec => []GuessBound
<1>1. GuessInv => GuessBound
    BY AttemptsAssumption DEF GuessInv, CountSound, GuessBound
<1>2. QED
    BY <1>1, GuessInvariant, PTL

-----------------------------------------------------------------------------
(* The keys, the bus and the route *)

UsbType == [up : BOOLEAN, fido : BOOLEAN, attached : BOOLEAN, blocks : BOOLEAN, eject : BOOLEAN, failed : BOOLEAN]
RouteFields == {"faulted", "routed", "state", "route"}
Served == usb.up \/ con.routed
Flag(b) == IF b THEN 1 ELSE 0

\* The keys of a session, the bus and the route are there for it, or there is a
\* command that takes them away.
SessionSafe(a, cs, nx, k, served) ==
    /\ a.unlocked => k = SessionKeys /\ cs \cap Wiping = {} /\ nx = {}
    /\ ~a.unlocked /\ k # NoKeys =>
          "ERASE_KEYS" \in cs \cup nx \/ ("STORE_ATTEMPT" \in cs /\ a.state = "VAULT_RECORDING_SUCCESS")
    /\ ~a.unlocked /\ served => "DETACH" \in cs \cup nx
    /\ a.state = "VAULT_RECORDING_SUCCESS" => "STORE_ATTEMPT" \in cs /\ k = SessionKeys
    /\ cs \cap {"ATTACH_MSC", "ATTACH_FIDO"} # {} => a.unlocked
    /\ cs = {} => nx = {}

\* The rounds of a secret are three, and a wipe begins anew only when the
\* destruction or the last flush of the card failed.
Bounded(a, cs, nx, t, blocks) ==
    /\ t \in Nat
    /\ "AUTHENTICATE" \in cs => t <= 1
    /\ "STORE_ATTEMPT" \in cs => t <= 2 /\ (a.state # "VAULT_RECORDING_SUCCESS" => t = 0)
    /\ ~(cs \subseteq Wiping) => t <= 2
    /\ t + Flag(nx # {}) + Flag(blocks) + Flag("DESTROY" \in cs) <= 5

ServingInv ==
    /\ usb \in UsbType /\ RouteFields \subseteq DOMAIN con
    /\ On => SessionSafe(app, cmds, next, keys, Served) /\ Bounded(app, cmds, next, turns, usb.blocks)

\* A flag counts for one.
LEMMA FlagBound == \A b : Flag(b) \in 0 .. 1 /\ (b => Flag(b) = 1) /\ (~b => Flag(b) = 0)
BY DEF Flag

\* Whatever the application decides, it closes what it leaves behind.
LEMMA OutcomeServes ==
    ASSUME NEW a, AppSound(a), NEW cs \in {{}} \cup Alone, NEW k, NEW served, SessionSafe(a, cs, {}, k, served),
           NEW e, NEW p, NEW o, Outcome(a, e, p, o),
           e = "ATTEMPT_COUNTER_STORED" <=> "STORE_ATTEMPT" \in cs,
           NEW l, NEW now,
           IF e = "AUTH_SUCCEEDED" THEN l = SessionKeys /\ a.state = "VAULT_AUTHENTICATING"
           ELSE l = k \/ (l = NoKeys /\ ~a.unlocked /\ "STORE_ATTEMPT" \notin cs),
           now => served
    PROVE  SessionSafe(o.app, o.cmds, {}, l, now)
<1>1. /\ AppSound(o.app) /\ Opened(a, e, o) /\ o.cmds \in Round
      /\ a.state = "VAULT_AUTHENTICATING" => ~a.unlocked
    BY DEF Outcome, Ordered, AppSound, OpenStates, SettingsStates
<1>2. "ERASE_KEYS" \notin cs /\ "DETACH" \notin cs
    BY DEF Alone, Task
<1>3. o.app.state = "VAULT_RECORDING_SUCCESS" => ~o.app.unlocked
    BY <1>1 DEF AppSound, OpenStates, SettingsStates
<1>4. ~a.unlocked => ~served
    BY <1>2 DEF SessionSafe
<1>5. ~a.unlocked /\ k # NoKeys => "STORE_ATTEMPT" \in cs /\ a.state = "VAULT_RECORDING_SUCCESS"
    BY <1>2 DEF SessionSafe
<1>6. o.app.unlocked => l = SessionKeys /\ o.cmds \cap Wiping = {}
  <2>1. o.app.unlocked => o.cmds \cap Wiping = {}
      BY <1>1 DEF Opened
  <2>2. o.app.unlocked /\ a.unlocked => l = SessionKeys
      BY DEF SessionSafe
  <2>3. o.app.unlocked /\ ~a.unlocked => l = SessionKeys
      BY <1>1 DEF SessionSafe, Opened
  <2>4. QED
      BY <2>1, <2>2, <2>3
<1>7. ~o.app.unlocked /\ l # NoKeys =>
        "ERASE_KEYS" \in o.cmds \/ ("STORE_ATTEMPT" \in o.cmds /\ o.app.state = "VAULT_RECORDING_SUCCESS")
  <2>1. ~o.app.unlocked /\ a.unlocked => "ERASE_KEYS" \in o.cmds
      BY <1>1 DEF Opened, Wipe
  <2>2. e = "AUTH_SUCCEEDED" => "STORE_ATTEMPT" \in o.cmds /\ o.app.state = "VAULT_RECORDING_SUCCESS"
      BY <1>1 DEF Opened, Storing
  <2>3. ~a.unlocked /\ l # NoKeys /\ e # "AUTH_SUCCEEDED" => o.app.unlocked
      BY <1>1, <1>5 DEF Opened
  <2>4. QED
      BY <2>1, <2>2, <2>3
<1>8. ~o.app.unlocked /\ now => "DETACH" \in o.cmds
    BY <1>1, <1>4 DEF Opened, Wipe
<1>9. o.app.state = "VAULT_RECORDING_SUCCESS" => "STORE_ATTEMPT" \in o.cmds /\ l = SessionKeys
  <2>1. e = "AUTH_SUCCEEDED" /\ o.app.state = "VAULT_RECORDING_SUCCESS" => "STORE_ATTEMPT" \in o.cmds /\ l = SessionKeys
      BY <1>1 DEF Opened, Storing
  <2>2. e # "AUTH_SUCCEEDED" => o.app.state # "VAULT_RECORDING_SUCCESS"
      BY <1>1 DEF Opened, SessionSafe
  <2>3. QED
      BY <2>1, <2>2
<1>10. o.cmds \cap {"ATTACH_MSC", "ATTACH_FIDO"} # {} => o.app.unlocked
    BY <1>1 DEF Opened
<1>11. QED
    BY <1>6, <1>7, <1>8, <1>9, <1>10 DEF SessionSafe

\* In particular when nothing is being carried out.
LEMMA IdleServes ==
    ASSUME NEW a, AppSound(a), NEW k, NEW served, SessionSafe(a, {}, {}, k, served),
           NEW e, e # "AUTH_SUCCEEDED", e # "ATTEMPT_COUNTER_STORED", NEW p, NEW o, Outcome(a, e, p, o),
           NEW now, now => served
    PROVE  SessionSafe(o.app, o.cmds, {}, k, now)
<1>1. e = "ATTEMPT_COUNTER_STORED" <=> "STORE_ATTEMPT" \in {}
    OBVIOUS
<1>2. {} \in {{}} \cup Alone
    OBVIOUS
<1>3. IF e = "AUTH_SUCCEEDED" THEN k = SessionKeys /\ a.state = "VAULT_AUTHENTICATING"
      ELSE k = k \/ (k = NoKeys /\ ~a.unlocked /\ "STORE_ATTEMPT" \notin {})
    OBVIOUS
<1>4. QED
    BY <1>1, <1>2, <1>3, OutcomeServes

\* A fault leaves nothing that the wipe does not take away.
LEMMA FaultServes ==
    ASSUME NEW a, a.unlocked = FALSE, a.state = "FAULT", NEW cs \in SUBSET Wiping, NEW nx \in SUBSET Wipe, cs = {} => nx = {},
           NEW k, NEW served, k # NoKeys => "ERASE_KEYS" \in cs \cup nx, served => "DETACH" \in cs \cup nx
    PROVE  SessionSafe(a, cs, nx, k, served)
BY DEF SessionSafe, Wiping, Wipe

\* The round after a task.
LEMMA OutcomeBounded ==
    ASSUME NEW a, NEW cs \in Alone, NEW t, NEW blocks, Bounded(a, cs, {}, t, blocks),
           NEW e \in Replies, NEW o, Outcome(a, e, NoPick, o),
           e = "ATTEMPT_COUNTER_STORED" => "STORE_ATTEMPT" \in cs,
           e = "AUTH_SUCCEEDED" => "AUTHENTICATE" \in cs,
           NEW now
    PROVE  /\ Bounded(o.app, o.cmds, {}, t + 1, now) /\ t + 1 <= 5
           /\ Bounded(o.app, {}, {}, 0, now)
<1>1. t \in Nat /\ t <= 2
    BY DEF Bounded, Alone, Task, Wiping, Wipe
<1>2. Charged(a, e, o) /\ Ordered(a, e, NoPick, o) /\ Opened(a, e, o)
    BY DEF Outcome
<1>3. "AUTHENTICATE" \in o.cmds => t + 1 <= 1
  <2>1. "AUTHENTICATE" \in o.cmds => a.state = "VAULT_RESERVING_ATTEMPT" /\ "STORE_ATTEMPT" \in cs
      BY <1>2 DEF Charged
  <2>2. QED
      BY <1>1, <2>1 DEF Bounded
<1>4. "STORE_ATTEMPT" \in o.cmds => t + 1 <= 2 /\ o.app.state = "VAULT_RECORDING_SUCCESS"
  <2>1. "STORE_ATTEMPT" \in o.cmds => e = "AUTH_SUCCEEDED" /\ o.app.state = "VAULT_RECORDING_SUCCESS"
      BY <1>2 DEF Ordered, NoPick
  <2>2. QED
      BY <1>1, <2>1 DEF Bounded
<1>5. ~(o.cmds \subseteq Wiping) => t + 1 <= 2
  <2>1. o.cmds \subseteq Wiping \/ "AUTHENTICATE" \in o.cmds \/ "STORE_ATTEMPT" \in o.cmds
      BY <1>2 DEF Ordered, Storing
  <2>2. QED
      BY <1>1, <1>3, <1>4, <2>1
<1>6. Flag({} # {}) = 0 /\ Flag(now) \in 0 .. 1 /\ Flag("DESTROY" \in o.cmds) \in 0 .. 1 /\ Flag("DESTROY" \in {}) = 0
    BY DEF Flag
<1>7. Bounded(o.app, o.cmds, {}, t + 1, now)
    BY <1>1, <1>3, <1>4, <1>5, <1>6 DEF Bounded
<1>8. Bounded(o.app, {}, {}, 0, now)
    BY <1>6 DEF Bounded
<1>9. QED
    BY <1>1, <1>7, <1>8

\* A step of the runtime that serves the host no more than before.
BusSound == usb' \in UsbType /\ RouteFields \subseteq DOMAIN con'
Quieter == (Served' => Served) /\ (usb'.blocks => usb.blocks)

\* What the application does when it is started, or the loop hands it an event, takes few rounds.
LEMMA FreshBounded == \A a, cs, blocks : Bounded(a, cs, {}, 0, blocks)
<1> TAKE a, cs, blocks
<1>1. Flag({} # {}) = 0 /\ Flag(blocks) \in 0 .. 1 /\ Flag("DESTROY" \in cs) \in 0 .. 1
    BY DEF Flag
<1>2. QED
    BY <1>1 DEF Bounded

\* A task that ends without an event.
LEMMA TaskStays ==
    ASSUME GuessInv, ServingInv, NEW c \in Task, Doing(c), c # "STORE_ATTEMPT",
           NEW b, Finish(Stay(b)), b.state = app.state, b.unlocked = app.unlocked, Kept,
           BusSound, Served' => Served \/ app.unlocked
    PROVE  ServingInv'
<1> DEFINE out == Stay(b)
<1>1. RoundSound /\ cmds = {c} /\ next = {} /\ On
    BY TaskAlone DEF GuessInv
<1>2. out.app = b /\ out.cmds = {} /\ Finish(out)
    BY DEF Stay, Result
<1> HIDE DEF out
<1>3. app' = b /\ cmds' = {} /\ next' = {} /\ turns' = 0
    BY <1>1, <1>2, TaskFinish
<1>4. SessionSafe(app, {c}, {}, keys, Served)
    BY <1>1 DEF ServingInv
<1>5. c \notin Wiping
    BY DEF Task, Wiping, Wipe
<1>6. keys' = keys
    BY DEF Kept
<1>7. SessionSafe(b, {}, {}, keys, Served')
    BY <1>4, <1>5 DEF SessionSafe, Wiping, Wipe
<1>8. Bounded(app', cmds', next', turns', usb'.blocks)
    BY <1>3, FreshBounded
<1>9. QED
    BY <1>3, <1>6, <1>7, <1>8 DEF ServingInv, BusSound

\* A task that fails.
LEMMA TaskBreaks ==
    ASSUME GuessInv, ServingInv, NEW c \in Task, Doing(c), Broken, BusSound
    PROVE  ServingInv'
<1> DEFINE out == Fail(app)
<1>1. RoundSound /\ cmds = {c} /\ next = {} /\ On /\ Counts(app, cmds, jrn, guesses)
    BY TaskAlone DEF GuessInv
<1>2. out.cmds = Wipe /\ out.app.state = "FAULT" /\ out.app.unlocked = FALSE /\ Finish(out) /\ keys' = NoKeys
    BY <1>1, FailCounts DEF Broken
<1> HIDE DEF out
<1>3. turns \in Nat /\ turns <= 2
    BY <1>1 DEF ServingInv, Bounded, Task, Wiping, Wipe
<1>4. Wipe # {} /\ Wipe \subseteq Wiping /\ "DETACH" \in Wipe /\ "DESTROY" \notin Wipe
    BY DEF Wipe, Wiping
<1>5. app' = out.app /\ cmds' = Wipe /\ next' = {} /\ turns' = turns + 1
  <2>1. turns + 1 < MaxTransitions
      BY <1>3, TransitionsAssumption
  <2>2. \/ app' = out.app /\ cmds' = out.cmds /\ next' = {}
             /\ turns' = (IF out.cmds = {} THEN 0 ELSE turns + 1)
        \/ ~(turns + 1 < MaxTransitions)
      BY <1>1, <1>2, TaskFinish
  <2>3. QED
      BY <1>2, <1>4, <2>1, <2>2
<1>6. SessionSafe(app', cmds', next', keys', Served')
    BY <1>2, <1>4, <1>5, FaultServes
<1>7. Flag({} # {}) = 0 /\ Flag(usb'.blocks) \in 0 .. 1 /\ Flag("DESTROY" \in Wipe) \in 0 .. 1
    BY DEF Flag
<1>8. Bounded(app', cmds', next', turns', usb'.blocks)
    BY <1>3, <1>4, <1>5, <1>7 DEF Bounded, Wipe
<1>9. QED
    BY <1>6, <1>8 DEF ServingInv, BusSound

\* A task that answers with an event.
LEMMA TaskAnswers ==
    ASSUME GuessInv, ServingInv, NEW c \in Task, Doing(c), NEW e \in Replies, Answer(e),
           e = "ATTEMPT_COUNTER_STORED" <=> c = "STORE_ATTEMPT",
           IF e = "AUTH_SUCCEEDED" THEN keys' = SessionKeys /\ c = "AUTHENTICATE"
           ELSE Kept \/ (keys' = NoKeys /\ c = "AUTHENTICATE"),
           BusSound, Served' => Served
    PROVE  ServingInv'
<1> DEFINE o == Handle(app, e, NoPick)
<1>1. RoundSound /\ cmds = {c} /\ next = {} /\ On /\ AppSound(app) /\ Counts(app, cmds, jrn, guesses)
    BY TaskAlone DEF GuessInv, Counts
<1>2. Outcome(app, e, NoPick, o) /\ Finish(o)
    BY <1>1, HandleOutcome DEF Answer
<1> HIDE DEF o
<1>3. c = "AUTHENTICATE" => app.state = "VAULT_AUTHENTICATING" /\ ~app.unlocked
    BY <1>1 DEF Counts, AppSound, OpenStates, SettingsStates
<1>4. SessionSafe(app, {c}, {}, keys, Served) /\ Bounded(app, {c}, {}, turns, usb.blocks) /\ {c} \in Alone
    BY <1>1 DEF ServingInv, Alone
<1>5. IF e = "AUTH_SUCCEEDED" THEN keys' = SessionKeys /\ app.state = "VAULT_AUTHENTICATING"
      ELSE keys' = keys \/ (keys' = NoKeys /\ ~app.unlocked /\ "STORE_ATTEMPT" \notin {c})
    BY <1>3 DEF Kept
<1>6. SessionSafe(o.app, o.cmds, {}, keys', Served')
  <2>1. e = "ATTEMPT_COUNTER_STORED" <=> "STORE_ATTEMPT" \in {c}
      OBVIOUS
  <2>2. {c} \in {{}} \cup Alone
      BY <1>4
  <2>3. QED
      BY <1>1, <1>2, <1>4, <1>5, <2>1, <2>2, OutcomeServes
<1>7. /\ Bounded(o.app, o.cmds, {}, turns + 1, usb'.blocks) /\ turns + 1 <= 5
      /\ Bounded(o.app, {}, {}, 0, usb'.blocks) /\ turns \in Nat
  <2>1. e = "ATTEMPT_COUNTER_STORED" => "STORE_ATTEMPT" \in {c}
      OBVIOUS
  <2>2. e = "AUTH_SUCCEEDED" => "AUTHENTICATE" \in {c}
      OBVIOUS
  <2>3. turns \in Nat
      BY <1>4 DEF Bounded
  <2>4. QED
      BY <1>2, <1>4, <2>1, <2>2, <2>3, OutcomeBounded
<1>8. turns + 1 < MaxTransitions
    BY <1>7, TransitionsAssumption
<1>9. /\ app' = o.app /\ cmds' = o.cmds /\ next' = {}
      /\ turns' = (IF o.cmds = {} THEN 0 ELSE turns + 1)
    BY <1>1, <1>2, <1>8, TaskFinish
<1>10. Bounded(app', cmds', next', turns', usb'.blocks)
    BY <1>7, <1>9
<1>11. QED
    BY <1>6, <1>9, <1>10 DEF ServingInv, BusSound

\* A task that goes on.
LEMMA TaskWorks ==
    ASSUME ServingInv, On, NEW s, Working(s), Kept, BusSound, Quieter
    PROVE  ServingInv'
<1>1. SessionSafe(app, cmds, next, keys, Served) /\ Bounded(app, cmds, next, turns, usb.blocks)
    BY DEF ServingInv
<1>2. UNCHANGED <<app, cmds, next, turns, keys>>
    BY DEF Working, Kept
<1>3. SessionSafe(app, cmds, next, keys, Served')
    BY <1>1 DEF SessionSafe, Quieter
<1>4. Flag(usb'.blocks) \in 0 .. 1 /\ Flag(usb.blocks) \in 0 .. 1 /\ Flag(usb'.blocks) <= Flag(usb.blocks)
    BY DEF Flag, Quieter
<1>5. Flag(next # {}) \in 0 .. 1 /\ Flag("DESTROY" \in cmds) \in 0 .. 1
    BY DEF Flag
<1>6. Bounded(app, cmds, next, turns, usb'.blocks)
    BY <1>1, <1>4, <1>5 DEF Bounded
<1>7. QED
    BY <1>2, <1>3, <1>6 DEF ServingInv, BusSound

\* A command of a wipe: the rest goes on, or the wipe begins anew.
LEMMA WipeMoves ==
    ASSUME GuessInv, ServingInv, NEW c \in Wiping, Doing(c), NEW out, Finish(out),
           \/ out.cmds = {}
           \/ out.cmds = Wipe /\ c = "DESTROY"
           \/ out.cmds = Wipe /\ usb.blocks /\ ~usb'.blocks,
           usb'.blocks => usb.blocks, cmds = Storing => out.app.state = app.state
    PROVE  /\ app' = out.app /\ cmds' \cup next' = (cmds \ {c}) \cup next \cup out.cmds
           /\ cmds \ {c} = {} => next' = {}
           /\ cmds \ {c} # {} => cmds' = cmds \ {c}
           /\ Bounded(app', cmds', next', turns', usb'.blocks)
<1> DEFINE rest == cmds \ {c}
           more == next \cup out.cmds
           blocks == usb'.blocks
<1>1. /\ First(cmds) = c /\ c \in cmds /\ On /\ next \in SUBSET Wipe
      /\ cmds \subseteq Wiping \/ (c = "ERASE_TRANSIENT" /\ cmds = Storing)
    BY WipeGoesOn DEF GuessInv, RoundSound
<1>2. /\ Bounded(app, cmds, next, turns, usb.blocks) /\ SessionSafe(app, cmds, next, keys, Served)
      /\ turns \in Nat /\ turns + Flag(next # {}) + Flag(usb.blocks) + Flag("DESTROY" \in cmds) <= 5
    BY <1>1 DEF ServingInv, Bounded
<1>3. ~app.unlocked
    BY <1>1, <1>2 DEF SessionSafe
<1>4. /\ Flag(usb.blocks) \in 0 .. 1 /\ Flag(blocks) \in 0 .. 1 /\ Flag(blocks) <= Flag(usb.blocks)
      /\ usb.blocks /\ ~blocks => Flag(blocks) + 1 <= Flag(usb.blocks)
    BY DEF Flag
<1>5. Wipe # {} /\ "DESTROY" \notin Wipe
    BY DEF Wipe
<1>6. /\ Flag("DESTROY" \in cmds) \in 0 .. 1 /\ Flag("DESTROY" \in rest) \in 0 .. 1 /\ Flag("DESTROY" \in more) = 0
      /\ Flag("DESTROY" \in rest) <= Flag("DESTROY" \in cmds)
      /\ c = "DESTROY" => Flag("DESTROY" \in rest) + 1 <= Flag("DESTROY" \in cmds)
  <2>1. "DESTROY" \in rest => "DESTROY" \in cmds
      OBVIOUS
  <2>2. c = "DESTROY" => "DESTROY" \in cmds /\ "DESTROY" \notin rest
      BY <1>1
  <2>3. "DESTROY" \notin more
      BY <1>1, <1>5
  <2> HIDE DEF rest, more
  <2>4. QED
      BY <2>1, <2>2, <2>3 DEF Flag
<1>7. Flag(next # {}) \in 0 .. 1 /\ Flag(more # {}) \in 0 .. 1 /\ Flag({} # {}) = 0 /\ (next # {} => Flag(next # {}) = 1)
    BY DEF Flag
<1>8. /\ turns + Flag(more # {}) + Flag(blocks) + Flag("DESTROY" \in rest) <= 5
      /\ more # {} => turns + 1 + Flag(blocks) <= 5
  <2>1. CASE out.cmds = {}
    <3>1. more = next
        BY <2>1
    <3> HIDE DEF rest, more, blocks
    <3>2. QED
        BY <1>2, <1>4, <1>6, <1>7, <3>1
  <2>2. CASE c = "DESTROY" \/ (usb.blocks /\ ~blocks)
    <3>1. Flag(blocks) + Flag("DESTROY" \in rest) + 1 <= Flag(usb.blocks) + Flag("DESTROY" \in cmds)
      <4> HIDE DEF rest, more, blocks
      <4>1. CASE c = "DESTROY"
          BY <1>4, <1>6, <4>1
      <4>2. CASE usb.blocks /\ ~blocks
        <5>1. Flag(blocks) + 1 <= Flag(usb.blocks)
            BY <1>4, <4>2, Zenon
        <5>2. QED
            BY <1>4, <1>6, <5>1
      <4>3. QED
          BY <2>2, <4>1, <4>2
    <3> HIDE DEF rest, more, blocks
    <3>2. QED
        BY <1>2, <1>4, <1>6, <1>7, <3>1
  <2>3. QED
      BY <2>1, <2>2
<1>9. more # {} => turns + 1 < MaxTransitions
  <2> HIDE DEF more, blocks
  <2>1. QED
      BY <1>2, <1>4, <1>8, TransitionsAssumption
<1>10. \/ /\ rest # {} /\ app' = out.app /\ cmds' = rest /\ next' = more /\ turns' = turns
       \/ /\ rest = {} /\ app' = out.app /\ cmds' = more /\ next' = {}
          /\ turns' = (IF more = {} THEN 0 ELSE turns + 1)
    BY <1>1, <1>9 DEF Finish
<1>11. Bounded(out.app, rest, more, turns, blocks)
  <2>1. /\ "AUTHENTICATE" \notin rest /\ ("STORE_ATTEMPT" \in rest => cmds = Storing)
        /\ ~(rest \subseteq Wiping) => cmds = Storing
      BY <1>1 DEF Wiping, Wipe, Storing
  <2>2. cmds = Storing => turns <= 2 /\ (out.app.state # "VAULT_RECORDING_SUCCESS" => turns = 0)
    <3>1. cmds = Storing => "STORE_ATTEMPT" \in cmds
        BY DEF Storing
    <3>2. QED
        BY <1>2, <3>1 DEF Bounded
  <2> HIDE DEF rest, more, blocks
  <2>3. QED
      BY <1>2, <1>8, <2>1, <2>2 DEF Bounded
<1>12. more # {} => Bounded(out.app, more, {}, turns + 1, blocks)
  <2>1. "AUTHENTICATE" \notin more /\ "STORE_ATTEMPT" \notin more /\ more \subseteq Wiping
      BY <1>1 DEF Wiping, Wipe
  <2> HIDE DEF rest, more, blocks
  <2>2. ASSUME more # {}
        PROVE  turns + 1 + Flag({} # {}) + Flag(blocks) + Flag("DESTROY" \in more) <= 5
      BY <1>2, <1>4, <1>6, <1>7, <1>8, <2>2
  <2>3. turns + 1 \in Nat
      BY <1>2
  <2>4. QED
      BY <2>1, <2>2, <2>3 DEF Bounded
<1>13. Bounded(app', cmds', next', turns', blocks)
  <2>1. more = {} => Bounded(out.app, more, {}, 0, blocks)
      BY FreshBounded
  <2> HIDE DEF rest, more, blocks
  <2>2. QED
      BY <1>10, <1>11, <1>12, <2>1
<1>14. QED
    BY <1>10, <1>13

\* A command of a wipe that takes something away, or fails.
LEMMA WipeServes ==
    ASSUME GuessInv, ServingInv, NEW c \in Wiping, Doing(c), BusSound, Quieter,
           c = "DETACH" => ~Served',
           \/ \E b : /\ Finish(Stay(b)) /\ b.state = app.state /\ b.unlocked = app.unlocked
                   /\ IF c = "ERASE_KEYS" THEN keys' = NoKeys ELSE Kept
           \/ Broken /\ (c = "DESTROY" \/ (c = "DETACH" /\ usb.blocks /\ ~usb'.blocks))
    PROVE  ServingInv'
<1>1. /\ First(cmds) = c /\ c \in cmds /\ On /\ next \in SUBSET Wipe
      /\ cmds \subseteq Wiping \/ (c = "ERASE_TRANSIENT" /\ cmds = Storing)
      /\ Counts(app, cmds, jrn, guesses)
    BY WipeGoesOn DEF GuessInv, RoundSound
<1>2. SessionSafe(app, cmds, next, keys, Served) /\ ~app.unlocked
    BY <1>1 DEF ServingInv, SessionSafe
<1>3. /\ Served' => Served
      /\ usb'.blocks => usb.blocks
    BY DEF Quieter
<1> DEFINE left == (cmds \ {c}) \cup next
<1>4. "STORE_ATTEMPT" \in cmds => cmds = Storing /\ c = "ERASE_TRANSIENT"
    BY <1>1 DEF Wiping, Wipe
<1>5. CASE \E b : /\ Finish(Stay(b)) /\ b.state = app.state /\ b.unlocked = app.unlocked
                  /\ IF c = "ERASE_KEYS" THEN keys' = NoKeys ELSE Kept
  <2>1. PICK b : /\ Finish(Stay(b)) /\ b.state = app.state /\ b.unlocked = app.unlocked
                 /\ IF c = "ERASE_KEYS" THEN keys' = NoKeys ELSE Kept
      BY <1>5
  <2> DEFINE out == Stay(b)
  <2>2. out.app = b /\ out.cmds = {} /\ Finish(out)
      BY <2>1 DEF Stay, Result
  <2> HIDE DEF out
  <2>3. /\ app' = b /\ cmds' \cup next' = (cmds \ {c}) \cup next \cup {}
        /\ cmds \ {c} = {} => next' = {}
        /\ cmds \ {c} # {} => cmds' = cmds \ {c}
        /\ Bounded(app', cmds', next', turns', usb'.blocks)
      BY <1>3, <2>1, <2>2, WipeMoves
  <2>4. cmds' \cup next' = left
      BY <2>3
  <2>5. keys' # NoKeys => keys' = keys /\ c # "ERASE_KEYS"
      BY <2>1 DEF Kept
  <2>6. keys' # NoKeys => "ERASE_KEYS" \in left \/ ("STORE_ATTEMPT" \in cmds' /\ b.state = "VAULT_RECORDING_SUCCESS")
    <3>1. keys' # NoKeys => "ERASE_KEYS" \in cmds \cup next \/ ("STORE_ATTEMPT" \in cmds /\ app.state = "VAULT_RECORDING_SUCCESS")
        BY <1>2, <2>5 DEF SessionSafe
    <3>2. "STORE_ATTEMPT" \in cmds => "STORE_ATTEMPT" \in cmds'
        BY <1>4, <2>3
    <3>3. QED
        BY <2>1, <2>5, <3>1, <3>2
  <2>7. Served' => "DETACH" \in left
    <3>1. Served' => "DETACH" \in cmds \cup next /\ c # "DETACH"
        BY <1>2, <1>3 DEF SessionSafe
    <3>2. QED
        BY <3>1
  <2>8. b.state = "VAULT_RECORDING_SUCCESS" => "STORE_ATTEMPT" \in cmds' /\ keys' = SessionKeys
    <3>1. b.state = "VAULT_RECORDING_SUCCESS" => "STORE_ATTEMPT" \in cmds /\ keys = SessionKeys
        BY <1>2, <2>1 DEF SessionSafe
    <3>2. "STORE_ATTEMPT" \in cmds => "STORE_ATTEMPT" \in cmds' /\ keys' = keys
        BY <1>4, <2>1, <2>3 DEF Kept
    <3>3. QED
        BY <3>1, <3>2
  <2>9. cmds' \cap {"ATTACH_MSC", "ATTACH_FIDO"} = {}
    <3>1. cmds' \subseteq Storing \cup Wiping
        BY <1>1, <2>3 DEF Wiping
    <3>2. QED
        BY <3>1 DEF Storing, Wiping, Wipe
  <2>10. (cmds' = {} => next' = {}) /\ ~b.unlocked
      BY <1>2, <2>1, <2>3
  <2> HIDE DEF left
  <2>11. SessionSafe(b, cmds', next', keys', Served')
      BY <2>4, <2>6, <2>7, <2>8, <2>9, <2>10 DEF SessionSafe
  <2>12. QED
      BY <2>3, <2>11 DEF ServingInv, BusSound
<1>6. CASE Broken /\ (c = "DESTROY" \/ (c = "DETACH" /\ usb.blocks /\ ~usb'.blocks))
  <2> DEFINE out == Fail(app)
  <2>1. out.cmds = Wipe /\ out.app.state = "FAULT" /\ out.app.unlocked = FALSE /\ Finish(out) /\ keys' = NoKeys
      BY <1>1, <1>6, FailCounts DEF Broken
  <2> HIDE DEF out
  <2>2. cmds \subseteq Wiping /\ cmds # Storing
      BY <1>1, <1>6 DEF Storing, Wiping, Wipe
  <2>3. /\ app' = out.app /\ cmds' \cup next' = (cmds \ {c}) \cup next \cup Wipe
        /\ cmds \ {c} = {} => next' = {}
        /\ cmds \ {c} # {} => cmds' = cmds \ {c}
        /\ Bounded(app', cmds', next', turns', usb'.blocks)
      BY <1>3, <1>6, <2>1, <2>2, WipeMoves
  <2>4. cmds' \in SUBSET Wiping /\ next' \in SUBSET Wipe /\ (cmds' = {} => next' = {}) /\ "DETACH" \in cmds' \cup next'
    <3>1. Wipe \subseteq Wiping /\ "DETACH" \in Wipe
        BY DEF Wipe, Wiping
    <3>2. next' \in SUBSET Wipe
        BY <1>1, <1>6, <2>1 DEF Finish
    <3>3. QED
        BY <1>1, <2>2, <2>3, <3>1, <3>2
  <2>5. SessionSafe(app', cmds', next', keys', Served')
      BY <2>1, <2>3, <2>4, FaultServes
  <2>6. QED
      BY <2>3, <2>5 DEF ServingInv, BusSound
<1>7. QED
    BY <1>5, <1>6

-----------------------------------------------------------------------------
(* The bus and the connector *)

\* A bus that is off is one the device can be in.
LEMMA UsbOffType == UsbOff \in UsbType /\ UsbOff.up = FALSE /\ UsbOff.blocks = FALSE
BY DEF UsbOff, UsbType

\* What is detached serves nobody.
LEMMA DetachType == \A u \in UsbType : UsbDetach(u) \in UsbType /\ UsbDetach(u).up = FALSE /\ UsbDetach(u).blocks = FALSE
BY DEF UsbDetach, UsbOff, UsbType

\* What is attached.
LEMMA AttachType == \A u \in UsbType : AttachMsc(u) \in UsbType /\ AttachFido(u) \in UsbType
BY DEF AttachMsc, AttachFido, UsbOff, UsbType

\* A bus that is neither attached nor detached.
Settled(u, v) == v \in UsbType /\ v.up = u.up /\ v.blocks = u.blocks

\* An attachment that fails leaves the bus down.
LEMMA AttachFailsType ==
    \A u \in UsbType : AttachMscFailed(u) \in UsbType /\ AttachMscFailed(u).up = u.up /\ AttachMscFailed(u).blocks = FALSE
BY DEF AttachMscFailed, UsbType

\* Requests of the host, and what the bus reports.
LEMMA RequestType ==
    \A u \in UsbType :
        /\ Settled(u, RequestRefused(u)) /\ Settled(u, RequestFailed(u)) /\ Settled(u, Ejected(u)) /\ Settled(u, Unmounted(u))
        /\ Settled(u, [u EXCEPT !.failed = FALSE]) /\ Settled(u, [u EXCEPT !.eject = FALSE])
        /\ Overflowed(u) \in UsbType /\ Overflowed(u).up = FALSE /\ Overflowed(u).blocks = FALSE
<1> TAKE u \in UsbType
<1>1. Settled(u, RequestFailed(u)) /\ Settled(u, Ejected(u))
    BY DEF Settled, RequestFailed, Ejected, UsbType
<1>2. Settled(u, RequestRefused(u)) /\ Settled(u, Unmounted(u))
    BY DEF Settled, RequestRefused, Unmounted, UsbType
<1>3. Settled(u, [u EXCEPT !.failed = FALSE]) /\ Settled(u, [u EXCEPT !.eject = FALSE])
    BY DEF Settled, UsbType
<1>4. Overflowed(u) \in UsbType /\ Overflowed(u).up = FALSE /\ Overflowed(u).blocks = FALSE
    BY DEF Overflowed, UsbDetach, UsbOff, UsbType
<1>5. QED
    BY <1>1, <1>2, <1>3, <1>4

\* The connector never closes a route by itself.
LEMMA PollRoute ==
    ASSUME NEW k, RouteFields \subseteq DOMAIN k, NEW w
    PROVE  /\ RouteFields \subseteq DOMAIN ConnectorPoll(k, w)
           /\ ConnectorPoll(k, w).routed => k.routed
<1> DEFINE m == ConnectorPoll(k, w)
<1>1. m = k \/ m = Trip(k) \/ m = [k EXCEPT !.state = w]
    BY DEF ConnectorPoll
<1>2. RouteFields \subseteq DOMAIN Trip(k) /\ Trip(k).routed = FALSE
    BY DEF Trip, NoRoute, RouteFields
<1>3. RouteFields \subseteq DOMAIN [k EXCEPT !.state = w] /\ [k EXCEPT !.state = w].routed = k.routed
    BY DEF RouteFields
<1> HIDE DEF m
<1>4. RouteFields \subseteq DOMAIN m /\ (m.routed => k.routed)
    BY <1>1, <1>2, <1>3
<1>5. QED
    BY <1>4 DEF m

\* A route is opened and closed.
LEMMA RouteType ==
    ASSUME NEW k, RouteFields \subseteq DOMAIN k
    PROVE  /\ RouteFields \subseteq DOMAIN Route(k) /\ RouteFields \subseteq DOMAIN Disable(k)
           /\ Disable(k).routed = FALSE
BY DEF Route, Disable, RouteFields

\* The bus as it is, and as it is when detached.
LEMMA BusMoves ==
    ASSUME ServingInv
    PROVE  /\ UNCHANGED <<usb, con>> => BusSound /\ Quieter
           /\ usb' = UsbDetach(usb) /\ con' = Disable(con) => BusSound /\ Quieter /\ ~Served' /\ ~usb'.blocks
<1>1. usb \in UsbType /\ RouteFields \subseteq DOMAIN con
    BY DEF ServingInv
<1>2. UNCHANGED <<usb, con>> => BusSound /\ Quieter
    BY <1>1 DEF BusSound, Quieter, Served
<1>3. ASSUME usb' = UsbDetach(usb), con' = Disable(con)
      PROVE  BusSound /\ Quieter /\ ~Served' /\ ~usb'.blocks
  <2>1. usb' \in UsbType /\ usb'.up = FALSE /\ usb'.blocks = FALSE
      BY <1>1, <1>3, DetachType
  <2>2. RouteFields \subseteq DOMAIN con' /\ con'.routed = FALSE
      BY <1>1, <1>3, RouteType
  <2>3. QED
      BY <2>1, <2>2 DEF BusSound, Quieter, Served
<1>4. QED
    BY <1>2, <1>3

\* A wipe takes away the bus, the secrets and the keys.
LEMMA WipeActsServe == GuessInv /\ ServingInv /\ (Detach \/ EraseTransient \/ EraseKeys \/ Destroy) => ServingInv'
<1> SUFFICES ASSUME GuessInv, ServingInv, Detach \/ EraseTransient \/ EraseKeys \/ Destroy
             PROVE  ServingInv'
    OBVIOUS
<1>1. ASSUME NEW c \in Wiping, Doing(c)
      PROVE  Counts(app, cmds, jrn, guesses) /\ AppFields \subseteq DOMAIN app
  <2>1. On /\ Counts(app, cmds, jrn, guesses)
      BY <1>1, WipeGoesOn DEF GuessInv
  <2>2. QED
      BY <2>1 DEF Counts, AppSound
<1>2. {"DETACH", "ERASE_TRANSIENT", "ERASE_KEYS", "DESTROY"} \subseteq Wiping
    BY DEF Wiping, Wipe
<1>3. CASE Detach
  <2>1. Doing("DETACH") /\ BusSound /\ Quieter /\ ~Served' /\ ~usb'.blocks
      BY <1>3, BusMoves DEF Detach
  <2>2. (Finish(Stay(app)) /\ Kept) \/ (Broken /\ usb.blocks)
      BY <1>3 DEF Detach, Done
  <2>3. QED
      BY <1>2, <2>1, <2>2, WipeServes
<1>4. CASE EraseTransient
  <2> DEFINE b == [app EXCEPT !.secret = NoEntry, !.setup = NoEntry]
  <2>1. Doing("ERASE_TRANSIENT") /\ BusSound /\ Quieter
      BY <1>4, BusMoves DEF EraseTransient
  <2>2. Finish(Stay(b)) /\ Kept
      BY <1>4 DEF EraseTransient, Kept
  <2>3. b.unlocked = app.unlocked /\ b.state = app.state
      BY <1>1, <1>2, <2>1 DEF AppFields
  <2> HIDE DEF b
  <2>4. QED
      BY <1>2, <2>1, <2>2, <2>3, WipeServes
<1>5. CASE EraseKeys
  <2>1. Doing("ERASE_KEYS") /\ BusSound /\ Quieter
      BY <1>5, BusMoves DEF EraseKeys
  <2>2. Finish(Stay(ForgetSession(app))) /\ keys' = NoKeys
      BY <1>5 DEF EraseKeys
  <2>3. ForgetSession(app).state = app.state /\ ForgetSession(app).unlocked = app.unlocked
      BY <1>1, <1>2, <2>1, ForgetCounts
  <2>4. QED
      BY <1>2, <2>1, <2>2, <2>3, WipeServes
<1>6. CASE Destroy
  <2>1. Doing("DESTROY") /\ BusSound /\ Quieter
      BY <1>6, BusMoves DEF Destroy
  <2>2. (Finish(Stay(app)) /\ Kept) \/ Broken
      BY <1>6 DEF Destroy, Done
  <2>3. QED
      BY <1>2, <2>1, <2>2, WipeServes
<1>7. QED
    BY <1>3, <1>4, <1>5, <1>6

Quiet == Replies \ {"AUTH_SUCCEEDED", "ATTEMPT_COUNTER_STORED"}

\* A task that leaves the bus alone or takes it away.
LEMMA QuietTask ==
    ASSUME GuessInv, ServingInv, NEW c \in Task \ {"STORE_ATTEMPT"}, Doing(c), BusSound, Quieter,
           \/ Broken
           \/ Kept /\ \E e \in Quiet : Answer(e)
           \/ Kept /\ \E s : Working(s)
    PROVE  ServingInv'
<1>1. Served' => Served
    BY DEF Quieter
<1>2. On
    BY TaskAlone DEF GuessInv
<1>3. CASE Broken
    BY <1>3, TaskBreaks
<1>4. CASE Kept /\ \E e \in Quiet : Answer(e)
  <2>1. PICK e \in Quiet : Answer(e)
      BY <1>4
  <2>2. e \in Replies /\ e # "AUTH_SUCCEEDED" /\ e # "ATTEMPT_COUNTER_STORED"
      BY DEF Quiet
  <2>3. IF e = "AUTH_SUCCEEDED" THEN keys' = SessionKeys /\ c = "AUTHENTICATE"
        ELSE Kept \/ (keys' = NoKeys /\ c = "AUTHENTICATE")
      BY <1>4, <2>2
  <2>4. QED
      BY <1>1, <2>1, <2>2, <2>3, TaskAnswers
<1>5. CASE Kept /\ \E s : Working(s)
    BY <1>2, <1>5, TaskWorks
<1>6. QED
    BY <1>3, <1>4, <1>5

\* Setup and a change of the secret never serve the host.
LEMMA QuietTasksServe ==
    GuessInv /\ ServingInv
      /\ (InspectMedia \/ PrepareMedia \/ ProvisionStart \/ ProvisionRoots \/ ProvisionVault \/ ProvisionSuper
            \/ ProvisionHeader \/ ProvisionState \/ ChangeStart \/ ChangeJournal \/ ChangeStage \/ ChangeVerify)
    => ServingInv'
<1> SUFFICES ASSUME GuessInv, ServingInv
             PROVE  InspectMedia \/ PrepareMedia \/ ProvisionStart \/ ProvisionRoots \/ ProvisionVault \/ ProvisionSuper
                      \/ ProvisionHeader \/ ProvisionState \/ ChangeStart \/ ChangeJournal \/ ChangeStage \/ ChangeVerify
                    => ServingInv'
    OBVIOUS
<1>1. {"INSPECT", "PREPARE", "PROVISION", "CHANGE"} \subseteq Task \ {"STORE_ATTEMPT"}
    BY DEF Task
<1>2. {"MEDIA_FOUND", "MEDIA_FAILED", "MEDIA_PREPARED", "PROVISIONING_SUCCEEDED", "PROVISIONING_FAILED",
       "CREDENTIAL_CHANGED"} \subseteq Quiet
    BY DEF Quiet, Replies
<1>3. ASSUME InspectMedia \/ PrepareMedia
      PROVE  ServingInv'
  <2>1. \E c \in {"INSPECT", "PREPARE"} : Doing(c)
      BY <1>3 DEF InspectMedia, PrepareMedia
  <2>2. UNCHANGED <<usb, con>> /\ Kept /\ \E e \in Quiet : Answer(e)
      BY <1>2, <1>3 DEF InspectMedia, PrepareMedia
  <2>3. QED
      BY <1>1, <2>1, <2>2, BusMoves, QuietTask
<1>4. ASSUME ProvisionStart
      PROVE  ServingInv'
  <2>1. Doing("PROVISION") /\ UNCHANGED <<usb, con>> /\ Kept /\ ((\E e \in Quiet : Answer(e)) \/ \E s : Working(s))
      BY <1>2, <1>4 DEF ProvisionStart, SetupFails
  <2>2. QED
      BY <1>1, <2>1, BusMoves, QuietTask
<1>5. ASSUME ProvisionRoots
      PROVE  ServingInv'
  <2>1. Doing("PROVISION") /\ UNCHANGED <<usb, con>> /\ Kept /\ ((\E e \in Quiet : Answer(e)) \/ \E s : Working(s))
      BY <1>2, <1>5 DEF ProvisionRoots, RootsProve, SetupFails
  <2>2. QED
      BY <1>1, <2>1, BusMoves, QuietTask
<1>6. ASSUME ProvisionVault \/ ProvisionSuper
      PROVE  ServingInv'
  <2>1. Doing("PROVISION") /\ UNCHANGED <<usb, con>> /\ Kept /\ ((\E e \in Quiet : Answer(e)) \/ \E s : Working(s))
      BY <1>2, <1>6 DEF ProvisionVault, ProvisionSuper, SetupFails
  <2>2. QED
      BY <1>1, <2>1, BusMoves, QuietTask
<1>7. ASSUME ProvisionHeader \/ ProvisionState
      PROVE  ServingInv'
  <2>1. Doing("PROVISION") /\ UNCHANGED <<usb, con>> /\ Kept /\ ((\E e \in Quiet : Answer(e)) \/ \E s : Working(s))
      BY <1>2, <1>7 DEF ProvisionHeader, ProvisionState, SetupFails
  <2>2. QED
      BY <1>1, <2>1, BusMoves, QuietTask
<1>8. ASSUME ChangeStart
      PROVE  ServingInv'
  <2>1. Doing("CHANGE") /\ usb' = UsbDetach(usb) /\ con' = Disable(con) /\ (Broken \/ (Kept /\ \E s : Working(s)))
      BY <1>8 DEF ChangeStart
  <2>2. QED
      BY <1>1, <2>1, BusMoves, QuietTask
<1>9. ASSUME ChangeJournal \/ ChangeStage
      PROVE  ServingInv'
  <2>1. Doing("CHANGE") /\ UNCHANGED <<usb, con>> /\ (Broken \/ (Kept /\ \E s : Working(s)))
      BY <1>9 DEF ChangeJournal, ChangeStage
  <2>2. QED
      BY <1>1, <2>1, BusMoves, QuietTask
<1>10. ASSUME ChangeVerify
       PROVE  ServingInv'
  <2>1. Doing("CHANGE") /\ UNCHANGED <<usb, con>> /\ (Broken \/ (Kept /\ \E e \in Quiet : Answer(e)))
      BY <1>2, <1>10 DEF ChangeVerify
  <2>2. QED
      BY <1>1, <2>1, BusMoves, QuietTask
<1>11. QED
    BY <1>3, <1>4, <1>5, <1>6, <1>7, <1>8, <1>9, <1>10

\* The keys come with the right secret, and go with a wrong one.
LEMMA SecretTasksServe == GuessInv /\ ServingInv /\ (StoreAttempt \/ Authenticate) => ServingInv'
<1> SUFFICES ASSUME GuessInv, ServingInv, StoreAttempt \/ Authenticate
             PROVE  ServingInv'
    OBVIOUS
<1>1. BusSound /\ Quieter /\ (Served' => Served)
  <2>1. UNCHANGED <<usb, con>>
      BY DEF StoreAttempt, Authenticate
  <2>2. QED
      BY <2>1, BusMoves DEF Quieter
<1>2. {"STORE_ATTEMPT", "AUTHENTICATE"} \subseteq Task
    BY DEF Task
<1>3. {"ATTEMPT_COUNTER_STORED", "AUTH_SUCCEEDED", "AUTH_FAILED"} \subseteq Replies
    BY DEF Replies
<1>4. CASE StoreAttempt
  <2>1. Doing("STORE_ATTEMPT") /\ (Broken \/ (Answer("ATTEMPT_COUNTER_STORED") /\ Kept))
      BY <1>4 DEF StoreAttempt
  <2>2. CASE Broken
      BY <1>1, <1>2, <2>1, <2>2, TaskBreaks
  <2>3. CASE Answer("ATTEMPT_COUNTER_STORED") /\ Kept
      BY <1>1, <1>2, <1>3, <2>1, <2>3, TaskAnswers
  <2>4. QED
      BY <2>1, <2>2, <2>3
<1>5. CASE Authenticate
  <2>1. /\ Doing("AUTHENTICATE")
        /\ \/ Broken
           \/ Answer("AUTH_SUCCEEDED") /\ keys' = SessionKeys
           \/ Answer("AUTH_FAILED") /\ keys' = NoKeys
      BY <1>5 DEF Authenticate
  <2>2. CASE Broken
      BY <1>1, <1>2, <2>1, <2>2, TaskBreaks
  <2>3. CASE Answer("AUTH_SUCCEEDED") /\ keys' = SessionKeys
      BY <1>1, <1>2, <1>3, <2>1, <2>3, TaskAnswers
  <2>4. CASE Answer("AUTH_FAILED") /\ keys' = NoKeys
      BY <1>1, <1>2, <1>3, <2>1, <2>4, TaskAnswers
  <2>5. QED
      BY <2>1, <2>2, <2>3, <2>4
<1>6. QED
    BY <1>4, <1>5

\* The host is served for a session that is unlocked.
LEMMA AttachTasksServe ==
    GuessInv /\ ServingInv /\ (AttachMassStorage \/ AttachPasskeys \/ ManagePasskeys) => ServingInv'
<1> SUFFICES ASSUME GuessInv, ServingInv, AttachMassStorage \/ AttachPasskeys \/ ManagePasskeys
             PROVE  ServingInv'
    OBVIOUS
<1>1. usb \in UsbType /\ RouteFields \subseteq DOMAIN con
    BY DEF ServingInv
<1> DEFINE k == ConnectorPoll(con, cable)
<1>2. RouteFields \subseteq DOMAIN k
    BY <1>1, PollRoute
<1>3. RouteFields \subseteq DOMAIN Route(k) /\ RouteFields \subseteq DOMAIN Disable(k)
    BY <1>2, RouteType
<1>4. {"ATTACH_MSC", "ATTACH_FIDO", "PASSKEY_BEGIN", "PASSKEY_READ", "PASSKEY_DELETE", "PASSKEY_END"} \subseteq Task
    BY DEF Task
<1>5. ASSUME NEW c \in {"ATTACH_MSC", "ATTACH_FIDO"}, Doing(c)
      PROVE  app.unlocked
  <2>1. cmds = {c} /\ On
      BY <1>4, <1>5, TaskAlone DEF GuessInv
  <2>2. QED
      BY <2>1 DEF ServingInv, SessionSafe
<1>6. CASE AttachMassStorage
  <2>1. Doing("ATTACH_MSC") /\ ((Done /\ Kept) \/ Broken)
      BY <1>6 DEF AttachMassStorage
  <2>2. usb' \in {usb, AttachMsc(usb), AttachMscFailed(usb)} /\ con' \in {k, Route(k), Disable(k)}
      BY <1>6, Zenon DEF AttachMassStorage
  <2>3. BusSound
      BY <1>1, <1>2, <1>3, <2>2, AttachType, AttachFailsType DEF BusSound
  <2>4. CASE Done /\ Kept
      BY <1>4, <1>5, <2>1, <2>3, <2>4, TaskStays DEF Done
  <2>5. CASE Broken
      BY <1>4, <2>1, <2>3, <2>5, TaskBreaks
  <2>6. QED
      BY <2>1, <2>4, <2>5
<1>7. CASE AttachPasskeys
  <2>1. Doing("ATTACH_FIDO") /\ ((Done /\ Kept) \/ Broken)
      BY <1>7 DEF AttachPasskeys
  <2>2. usb' \in {usb, AttachFido(usb), UsbDetach(usb)} /\ con' \in {k, Route(k), Disable(k)}
      BY <1>7, Zenon DEF AttachPasskeys
  <2>3. BusSound
      BY <1>1, <1>2, <1>3, <2>2, AttachType, DetachType DEF BusSound
  <2>4. CASE Done /\ Kept
      BY <1>4, <1>5, <2>1, <2>3, <2>4, TaskStays DEF Done
  <2>5. CASE Broken
      BY <1>4, <2>1, <2>3, <2>5, TaskBreaks, SMTT(60)
  <2>6. QED
      BY <2>1, <2>4, <2>5
<1>8. CASE ManagePasskeys
  <2>1. PICK c \in {"PASSKEY_BEGIN", "PASSKEY_READ", "PASSKEY_DELETE", "PASSKEY_END"} : Doing(c)
      BY <1>8 DEF ManagePasskeys
  <2>2. UNCHANGED <<usb, con>> /\ BusSound /\ Quieter /\ (Served' => Served \/ app.unlocked)
      BY <1>8, BusMoves DEF ManagePasskeys, Quieter
  <2>3. AppFields \subseteq DOMAIN app
    <3>1. On
        BY <1>4, <2>1, TaskAlone DEF GuessInv
    <3>2. QED
        BY <3>1 DEF GuessInv, Counts, AppSound
  <2>4. CASE Broken
      BY <1>4, <2>1, <2>2, <2>4, TaskBreaks
  <2>5. CASE Kept /\ \E n \in 0 .. MaxPasskeys : Finish(Stay([app EXCEPT !.count = n, !.index = IF @ < n THEN @ ELSE 0]))
    <3>1. PICK n \in 0 .. MaxPasskeys : Finish(Stay([app EXCEPT !.count = n, !.index = IF @ < n THEN @ ELSE 0]))
        BY <2>5
    <3> DEFINE b == [app EXCEPT !.count = n, !.index = IF @ < n THEN @ ELSE 0]
    <3>2. b.unlocked = app.unlocked /\ b.state = app.state /\ Finish(Stay(b))
        BY <2>3, <3>1 DEF AppFields
    <3> HIDE DEF b
    <3>3. QED
        BY <1>4, <2>1, <2>2, <2>5, <3>2, TaskStays
  <2>6. QED
      BY <1>8, <2>4, <2>5 DEF ManagePasskeys
<1>9. QED
    BY <1>6, <1>7, <1>8

-----------------------------------------------------------------------------
(* The main loop *)

\* What the loop hands to the application closes what has to be closed.
LEMMA LoopServes ==
    ASSUME GuessInv, ServingInv, Idle, UNCHANGED keys, BusSound, Quieter,
           \/ UNCHANGED <<app, cmds, next, turns>>
           \/ \E e, p : Dispatch(e, p) /\ e \notin Replies
    PROVE  ServingInv'
<1>1. /\ On /\ cmds = {} /\ AppSound(app) /\ SessionSafe(app, {}, next, keys, Served)
      /\ Bounded(app, {}, next, turns, usb.blocks)
    BY DEF GuessInv, ServingInv, Idle, Counts
<1>2. next = {}
    BY <1>1 DEF SessionSafe
<1>3. CASE UNCHANGED <<app, cmds, next, turns>>
  <2>1. Working(step')
      BY <1>3 DEF Working
  <2>2. QED
      BY <1>1, <2>1, TaskWorks DEF Kept
<1>4. CASE \E e, p : Dispatch(e, p) /\ e \notin Replies
  <2>1. PICK e, p : Dispatch(e, p) /\ e \notin Replies
      BY <1>4
  <2> DEFINE o == Handle(app, e, p)
  <2>2. app' = o.app /\ cmds' = o.cmds /\ next' = {} /\ turns' = 0
      BY <2>1 DEF Dispatch
  <2>3. Outcome(app, e, p, o)
      BY <1>1, HandleOutcome
  <2> HIDE DEF o
  <2>4. e # "ATTEMPT_COUNTER_STORED" /\ e # "AUTH_SUCCEEDED"
      BY <2>1 DEF Replies
  <2>5. SessionSafe(o.app, o.cmds, {}, keys, Served')
    <3>1. Served' => Served
        BY DEF Quieter
    <3>2. QED
        BY <1>1, <1>2, <2>3, <2>4, <3>1, IdleServes
  <2>6. Bounded(app', cmds', next', turns', usb'.blocks)
      BY <2>2, FreshBounded
  <2>7. QED
      BY <2>2, <2>5, <2>6 DEF ServingInv, BusSound
<1>5. QED
    BY <1>3, <1>4

\* The main loop, and what happens outside the device.
LEMMA LoopActsServe ==
    GuessInv /\ ServingInv
      /\ (PollCard \/ CardLost \/ PollConnector \/ HostStorage \/ HostPasskeys \/ TakeUsb \/ Press
            \/ DisplayLost \/ MoveCard \/ MoveCable \/ UNCHANGED vars) => ServingInv'
<1> SUFFICES ASSUME GuessInv, ServingInv
             PROVE  PollCard \/ CardLost \/ PollConnector \/ HostStorage \/ HostPasskeys \/ TakeUsb \/ Press
                      \/ DisplayLost \/ MoveCard \/ MoveCable \/ UNCHANGED vars => ServingInv'
    OBVIOUS
<1>1. usb \in UsbType /\ RouteFields \subseteq DOMAIN con
    BY DEF ServingInv
<1>2. ASSUME MoveCard \/ MoveCable \/ UNCHANGED vars
      PROVE  ServingInv'
  <2>1. UNCHANGED <<app, cmds, next, turns, usb, con, keys>>
      BY <1>2 DEF MoveCard, MoveCable, vars, ram
  <2>2. QED
      BY <2>1 DEF ServingInv, On, Served
<1>3. ASSUME PollCard
      PROVE  ServingInv'
  <2>1. Idle /\ UNCHANGED <<usb, con>> /\ UNCHANGED keys /\ UNCHANGED <<app, cmds, next, turns>>
      BY <1>3 DEF PollCard
  <2>2. QED
      BY <2>1, BusMoves, LoopServes
<1>4. {"STORAGE_FAILED", "FATAL_ERROR", "LOCK_REQUESTED", "USB_EJECTED"} \cap Replies = {}
    BY DEF Replies
<1>5. ASSUME CardLost \/ DisplayLost
      PROVE  ServingInv'
  <2>1. /\ Idle /\ UNCHANGED <<usb, con>> /\ UNCHANGED keys
        /\ \E e \in {"STORAGE_FAILED", "FATAL_ERROR"} : Dispatch(e, NoPick)
      BY <1>5 DEF CardLost, DisplayLost
  <2>2. QED
      BY <1>4, <2>1, BusMoves, LoopServes
<1>6. ASSUME Press
      PROVE  ServingInv'
  <2>1. PICK b \in Buttons(app) : \E p \in Picks(b) : Dispatch(b, p)
      BY <1>6 DEF Press
  <2>2. b \notin Replies
      BY DEF Buttons, Replies
  <2>3. Idle /\ UNCHANGED <<usb, con>> /\ UNCHANGED keys
      BY <1>6 DEF Press
  <2>4. QED
      BY <2>1, <2>2, <2>3, BusMoves, LoopServes
<1>7. ASSUME Settled(usb, usb') \/ (usb' \in UsbType /\ ~usb'.up /\ ~usb'.blocks) \/ usb' = usb,
             con' = con \/ con' = ConnectorPoll(con, cable)
      PROVE  BusSound /\ Quieter
  <2>1. usb' \in UsbType /\ (usb'.up => usb.up) /\ (usb'.blocks => usb.blocks)
      BY <1>1, <1>7 DEF Settled
  <2>2. RouteFields \subseteq DOMAIN con' /\ (con'.routed => con.routed)
      BY <1>1, <1>7, PollRoute
  <2>3. QED
      BY <2>1, <2>2 DEF BusSound, Quieter, Served
<1>8. ASSUME PollConnector
      PROVE  ServingInv'
  <2>1. Idle /\ usb' = usb /\ con' = ConnectorPoll(con, cable) /\ UNCHANGED keys
      BY <1>8 DEF PollConnector
  <2>2. Dispatch("FATAL_ERROR", NoPick) \/ UNCHANGED <<app, cmds, next, turns>>
      BY <1>8 DEF PollConnector
  <2>3. QED
      BY <1>4, <1>7, <2>1, <2>2, LoopServes
<1>9. ASSUME HostStorage
      PROVE  ServingInv'
  <2>1. Idle /\ con' = con /\ UNCHANGED keys /\ UNCHANGED <<app, cmds, next, turns>>
      BY <1>9 DEF HostStorage
  <2>2. usb' \in {usb, Ejected(usb), RequestFailed(usb), RequestRefused(usb)}
      BY <1>9 DEF HostStorage
  <2>3. Settled(usb, usb') \/ usb' = usb
      BY <1>1, <2>2, RequestType
  <2>4. QED
      BY <1>7, <2>1, <2>3, LoopServes
<1>10. ASSUME HostPasskeys
       PROVE  ServingInv'
  <2>1. Idle /\ con' \in {con, ConnectorPoll(con, cable)} /\ UNCHANGED keys /\ UNCHANGED <<app, cmds, next, turns>>
      BY <1>10 DEF HostPasskeys
  <2>2. usb' \in {usb, Unmounted(usb), Overflowed(usb)}
      BY <1>10 DEF HostPasskeys
  <2>3. Settled(usb, usb') \/ (usb' \in UsbType /\ ~usb'.up /\ ~usb'.blocks) \/ usb' = usb
      BY <1>1, <2>2, RequestType
  <2>4. QED
      BY <1>7, <2>1, <2>3, LoopServes
<1>11. ASSUME TakeUsb
       PROVE  ServingInv'
  <2>1. Idle /\ con' = con /\ UNCHANGED keys
      BY <1>11 DEF TakeUsb
  <2>2. /\ usb' \in {usb, [usb EXCEPT !.failed = FALSE], [usb EXCEPT !.eject = FALSE]}
        /\ \E e \in {"STORAGE_FAILED", "LOCK_REQUESTED", "USB_EJECTED"} : Dispatch(e, NoPick)
      BY <1>11 DEF TakeUsb
  <2>3. Settled(usb, usb') \/ usb' = usb
      BY <1>1, <2>2, RequestType
  <2>4. QED
      BY <1>4, <1>7, <2>1, <2>2, <2>3, LoopServes
<1>12. QED
    BY <1>2, <1>3, <1>5, <1>6, <1>8, <1>9, <1>10, <1>11

\* A device that starts, or that loses its power, has no keys and serves nobody.
LEMMA PowerServes == GuessInv /\ (Boot \/ Cut) => ServingInv'
<1> SUFFICES ASSUME GuessInv, Boot \/ Cut
             PROVE  ServingInv'
    OBVIOUS
<1>1. RouteFields \subseteq DOMAIN NoRoute /\ NoRoute.routed = FALSE
    BY DEF RouteFields, NoRoute
<1>2. usb' = UsbOff /\ usb' \in UsbType /\ usb'.up = FALSE /\ usb'.blocks = FALSE
    BY UsbOffType DEF Boot, Cut
<1>3. RouteFields \subseteq DOMAIN con' /\ ~con'.routed
  <2>1. con' = NoRoute \/ con' = ConnectorPoll(NoRoute, cable)
      BY DEF Boot, Cut
  <2>2. QED
      BY <1>1, <2>1, PollRoute
<1>4. BusSound /\ ~Served'
    BY <1>2, <1>3 DEF BusSound, Served
<1>5. CASE Cut
  <2>1. app' = Off
      BY <1>5 DEF Cut
  <2>2. QED
      BY <1>4, <2>1 DEF ServingInv, On, BusSound
<1>6. CASE Boot
  <2> DEFINE stored == StateResult(otp, jrn) = "OK"
  <2>1. PICK method, e : Begins(Started(stored, jrn, method), e)
      BY <1>6, BootBegins
  <2> DEFINE a == Started(stored, jrn, method)
  <2>2. Counts(a, {}, jrn, guesses)
    <3>1. CountSound(jrn, guesses)
        BY DEF GuessInv
    <3>2. stored \in BOOLEAN /\ (stored => jrn # NoRecord)
        BY DEF StateResult
    <3> HIDE DEF stored
    <3>3. QED
        BY <3>1, <3>2, StartedCounts, Zenon
  <2>3. a.state = "BOOTING"
      BY DEF Started, AppInit
  <2> HIDE DEF a, stored
  <2>4. AppSound(a) /\ ~a.unlocked
      BY <2>2, <2>3 DEF Counts, AppSound, OpenStates, SettingsStates
  <2>5. SessionSafe(a, {}, {}, NoKeys, FALSE)
      BY <2>3, <2>4 DEF SessionSafe
  <2>6. next' = {} /\ turns' = 0 /\ keys' = NoKeys
      BY <1>6 DEF Boot
  <2>7. CASE app' = EnterFault(a).app /\ cmds' = {}
    <3>1. app'.unlocked = FALSE /\ app'.state = "FAULT"
        BY <2>2, <2>7, FaultCounts
    <3>2. SessionSafe(app', cmds', next', keys', Served')
        BY <1>4, <2>6, <2>7, <3>1, FaultServes
    <3>3. QED
        BY <1>4, <2>6, <3>2, FreshBounded DEF ServingInv, BusSound
  <2>8. CASE /\ e \in {"BOOT_COMPLETED", "BOOT_MEDIA_REQUIRED"}
             /\ app' = Handle(a, e, NoPick).app /\ cmds' = Handle(a, e, NoPick).cmds
    <3> DEFINE o == Handle(a, e, NoPick)
    <3>1. app' = o.app /\ cmds' = o.cmds
        BY <2>8
    <3>2. Outcome(a, e, NoPick, o)
        BY <2>4, HandleOutcome
    <3> HIDE DEF o
    <3>3. e # "AUTH_SUCCEEDED" /\ e # "ATTEMPT_COUNTER_STORED" /\ (Served' => FALSE)
        BY <1>4, <2>8
    <3>4. SessionSafe(o.app, o.cmds, {}, NoKeys, Served')
        BY <2>4, <2>5, <3>2, <3>3, IdleServes
    <3>5. QED
        BY <1>4, <2>6, <3>1, <3>4, FreshBounded DEF ServingInv, BusSound
  <2>9. QED
      BY <2>1, <2>7, <2>8 DEF Begins, a
<1>7. QED
    BY <1>5, <1>6

\* A card that is inserted opens no session.
LEMMA CardServes == GuessInv /\ ServingInv /\ CardInserted => ServingInv'
<1> SUFFICES ASSUME GuessInv, ServingInv, CardInserted
             PROVE  ServingInv'
    OBVIOUS
<1>1. Idle /\ UNCHANGED <<usb, con>> /\ UNCHANGED keys
    BY DEF CardInserted
<1>2. BusSound /\ Quieter
    BY <1>1, BusMoves
<1>3. /\ On /\ cmds = {} /\ next = {} /\ AppSound(app) /\ SessionSafe(app, {}, {}, keys, Served)
      /\ Counts(app, {}, jrn, guesses) /\ CountSound(jrn, guesses)
    BY <1>1 DEF GuessInv, ServingInv, Idle, Counts, SessionSafe
<1>4. CASE app.state # "BOOT_MEDIA_REQUIRED"
  <2>1. UNCHANGED <<app, cmds, next, turns>>
      BY <1>4 DEF CardInserted
  <2>2. QED
      BY <1>1, <1>2, <2>1, LoopServes
<1>5. CASE app.state = "BOOT_MEDIA_REQUIRED"
  <2>1. PICK method :
          LET b == [app EXCEPT !.attempts = jrn.attempts, !.method = method]
          IN /\ next' = {} /\ turns' = 0
             /\ \/ app' = Handle(b, "BOOT_COMPLETED", NoPick).app /\ cmds' = Handle(b, "BOOT_COMPLETED", NoPick).cmds
                \/ app' = EnterFault(app).app /\ cmds' = EnterFault(app).cmds
                \/ app' = app /\ cmds' = {}
      BY <1>5, ZenonT(60) DEF CardInserted, Stay, Result
  <2> DEFINE b == [app EXCEPT !.attempts = jrn.attempts, !.method = method]
             o == Handle(b, "BOOT_COMPLETED", NoPick)
  <2>2. app.provisioned /\ jrn # NoRecord /\ ~app.unlocked
      BY <1>3, <1>5 DEF Counts, AppSound, SetUpStates, OpenStates, SettingsStates
  <2>3. /\ AppFields \subseteq DOMAIN b /\ b.state = app.state /\ b.provisioned = app.provisioned
        /\ b.unlocked = app.unlocked /\ b.attempts = jrn.attempts
      BY <1>3 DEF AppSound, AppFields
  <2>4. \/ app' = o.app /\ cmds' = o.cmds
        \/ app' = EnterFault(app).app /\ cmds' = EnterFault(app).cmds
        \/ app' = app /\ cmds' = {}
      BY <2>1
  <2>5. next' = {} /\ turns' = 0
      BY <2>1
  <2> HIDE DEF b
  <2>6. AppSound(b) /\ SessionSafe(b, {}, {}, keys, Served)
    <3>1. AppSound(b)
        BY <1>3, <1>5, <2>2, <2>3 DEF AppSound, CountSound
    <3>2. QED
        BY <1>3, <2>3, <3>1 DEF SessionSafe
  <2>7. Outcome(b, "BOOT_COMPLETED", NoPick, o)
      BY <2>6, HandleOutcome
  <2> HIDE DEF o
  <2>8. Served' => Served
      BY <1>2 DEF Quieter
  <2>9. SessionSafe(o.app, o.cmds, {}, keys, Served')
      BY <2>6, <2>7, <2>8, IdleServes
  <2>10. SessionSafe(EnterFault(app).app, EnterFault(app).cmds, {}, keys, Served')
    <3>1. /\ EnterFault(app).app.unlocked = FALSE /\ EnterFault(app).app.state = "FAULT"
          /\ EnterFault(app).cmds = Wipe
        BY <1>3, FaultCounts
    <3>2. Wipe \in SUBSET Wiping /\ Wipe # {} /\ "ERASE_KEYS" \in Wipe /\ "DETACH" \in Wipe
        BY DEF Wiping, Wipe
    <3>3. QED
        BY <3>1, <3>2, FaultServes
  <2>11. SessionSafe(app, {}, {}, keys, Served')
      BY <1>3, <2>8 DEF SessionSafe
  <2>12. SessionSafe(app', cmds', next', keys', Served')
      BY <1>1, <2>4, <2>5, <2>9, <2>10, <2>11
  <2>13. QED
      BY <1>2, <2>5, <2>12, FreshBounded DEF ServingInv, BusSound
<1>6. QED
    BY <1>4, <1>5

\* First generation: the keys, the bus and the route are there for an unlocked
\* session, or a command that takes them away is pending, and the rounds of a
\* request stay below the limit.
THEOREM ServingInvariant == Spec => []ServingInv
<1>1. Init => ServingInv
  <2>1. RouteFields \subseteq DOMAIN NoRoute
      BY DEF RouteFields, NoRoute
  <2>2. QED
      BY <2>1, UsbOffType DEF Init, ServingInv, On
<1>2. GuessInv /\ ServingInv /\ [Next]_vars => ServingInv'
  <2> SUFFICES ASSUME GuessInv, ServingInv, [Next]_vars
               PROVE  ServingInv'
      OBVIOUS
  <2>1. CASE Boot \/ Cut \/ CardInserted
      BY <2>1, PowerServes, CardServes
  <2>2. CASE Detach \/ EraseTransient \/ EraseKeys \/ Destroy
      BY <2>2, WipeActsServe
  <2>3. CASE InspectMedia \/ PrepareMedia \/ ProvisionStart \/ ProvisionRoots \/ ProvisionVault \/ ProvisionSuper
               \/ ProvisionHeader \/ ProvisionState \/ ChangeStart \/ ChangeJournal \/ ChangeStage \/ ChangeVerify
      BY <2>3, QuietTasksServe
  <2>4. CASE StoreAttempt \/ Authenticate \/ AttachMassStorage \/ AttachPasskeys \/ ManagePasskeys
      BY <2>4, SecretTasksServe, AttachTasksServe
  <2>5. CASE PollCard \/ CardLost \/ PollConnector \/ HostStorage \/ HostPasskeys \/ TakeUsb \/ Press
               \/ DisplayLost \/ MoveCard \/ MoveCable \/ UNCHANGED vars
      BY <2>5, LoopActsServe
  <2>6. QED
      BY <2>1, <2>2, <2>3, <2>4, <2>5 DEF Next
<1>3. QED
    BY <1>1, <1>2, GuessInvariant, PTL DEF Spec

\* First generation: a runtime that has nothing left to do keeps keys exactly for
\* an unlocked session, and serves the host for no other.
THEOREM DeviceNothingServedLocked == Spec => []NothingServedLocked
<1>1. ServingInv => NothingServedLocked
  <2> SUFFICES ASSUME ServingInv, Idle
               PROVE  /\ ~app.unlocked => keys = NoKeys /\ ~usb.up /\ ~con.routed
                      /\ app.unlocked => keys.vmk /\ keys.enc
      BY DEF NothingServedLocked
  <2>1. SessionSafe(app, {}, {}, keys, Served)
      BY DEF ServingInv, Idle, SessionSafe
  <2>2. ~app.unlocked => keys = NoKeys /\ ~Served
      BY <2>1 DEF SessionSafe
  <2>3. SessionKeys.vmk /\ SessionKeys.enc
      BY DEF SessionKeys
  <2>4. app.unlocked => keys = SessionKeys
      BY <2>1 DEF SessionSafe
  <2>5. QED
      BY <2>2, <2>3, <2>4, Zenon DEF Served
<1>2. QED
    BY <1>1, ServingInvariant, PTL

-----------------------------------------------------------------------------
(* The header in force *)

\* The record, as far as setup was told of one.
Acknowledged == IF disowned THEN NoRecord ELSE jrn

\* Setup belongs to a device without such a record.
Early == SetupStates \cup {"PROVISIONING"}
EarlySound(a, cs, j) ==
    /\ a.state \in Early => j = NoRecord
    /\ "PREPARE" \in cs => a.state \in Early
    /\ "PROVISION" \in cs => a.state = "PROVISIONING"

IsHeader(h) == h.kind = "header" /\ h = Header(h.vault, h.seq, h.entry) /\ h.seq \in Nat

\* Before the setup is on record the card has first headers and no others, and
\* what the running setup has written.
SetupCard ==
    /\ \A i \in 0 .. 1 : card.head[i] \in {Blank, Garbage} \/ (IsHeader(card.head[i]) /\ card.head[i].seq = 1)
    /\ step \in Rows => IsHeader(staged) /\ staged.seq = 1
    /\ step \in {"super1", "header", "journal"} => card.super[0] = Super(staged.vault, 1)
    /\ step \in {"header", "journal"} => card.super[1] = Super(staged.vault, 2)
    /\ step = "journal" => vid = staged.vault /\ card.head[0] = staged /\ card.head[1] = Blank

\* Afterwards no superblock names another vault, and one names this vault unless
\* setup was told to have failed: then it may have blanked them once more.
SupersSound ==
    /\ \A i \in 0 .. 1 : card.super[i] \in {Super(jrn.vault, i + 1), Blank, Garbage}
    /\ ~disowned => MediaLoad(card, jrn.vault).result = "OK"

\* The header in force, the first one until there is an anchor, is in a slot.
CurrentHeader == IF jrn.anchor = NoHeader THEN card.head[0] ELSE jrn.anchor
StoredCard ==
    /\ jrn = Record(jrn.seq, jrn.attempts, jrn.vault, jrn.anchor)
    /\ SupersSound
    /\ IsHeader(CurrentHeader) /\ CurrentHeader.vault = jrn.vault
    /\ IF jrn.anchor = NoHeader THEN card.head[1] = Blank ELSE \E i \in 0 .. 1 : card.head[i] = jrn.anchor
    /\ step \in {"anchor", "stage", "commit"} => IsHeader(staged) /\ staged.vault = jrn.vault
    /\ step = "anchor" => jrn.anchor = NoHeader /\ LoadVaultHeader(otp, jrn, card, vid).result = "OK"
    /\ step \in {"stage", "commit"} => jrn.anchor # NoHeader
    /\ step = "commit" => \E i \in 0 .. 1 : card.head[i] = staged

CardShape == {"super", "head"} \subseteq DOMAIN card /\ DOMAIN card.super = 0 .. 1 /\ DOMAIN card.head = 0 .. 1
Changing == {"anchor", "stage", "commit", "verify"}
CardInv ==
    /\ CardShape
    /\ IF jrn = NoRecord THEN SetupCard ELSE StoredCard
    /\ step \in Changing => jrn # NoRecord

\* What holds of the setup holds while the device is on.
EarlyInv == On => EarlySound(app, cmds, Acknowledged)
HeaderInv == CardInv /\ EarlyInv

\* What an event makes of the setup.
SetupGoes(a, e, o) ==
    /\ o.app.state \in Early => a.state \in Early \/ (e = "BOOT_COMPLETED" /\ ~a.provisioned)
    /\ "PREPARE" \in o.cmds => o.app.state \in Early
    /\ "PROVISION" \in o.cmds => o.app.state = "PROVISIONING"
    /\ a.state = "PROVISIONING" /\ e = "PROVISIONING_SUCCEEDED" => o.app.state \notin Early

\* The setup screens of the media.
LEMMA MediaGoes ==
    ASSUME NEW a, AppSound(a), a.state \in SetupStates, NEW e
    PROVE  SetupGoes(a, e, SetupMedia(a, e))
<1> DEFINE o == SetupMedia(a, e)
<1>1. AppFields \subseteq DOMAIN a
    BY DEF AppSound
<1>2. o.app.state \in SetupStates /\ o.cmds \in {{}, {"INSPECT"}, {"PREPARE"}}
    BY <1>1 DEF AppFields, SetupMedia, Stay, Result, Go, SetupStates
<1> HIDE DEF o
<1>3. SetupGoes(a, e, o)
    BY <1>2 DEF SetupGoes, Early, SetupStates
<1>4. QED
    BY <1>3 DEF o

\* The screens of the first secret.
LEMMA SetupSecretGoes ==
    ASSUME NEW a, AppSound(a), a.state \in SetupStates, NEW e, NEW p
    PROVE  SetupGoes(a, e, SetupSecret(a, e, p))
<1> DEFINE o == SetupSecret(a, e, p)
<1>1. AppFields \subseteq DOMAIN a
    BY DEF AppSound
<1>2. \/ o.app.state \in SetupStates /\ o.cmds = {}
      \/ o.app.state = "PROVISIONING" /\ o.cmds = {"PROVISION"}
    BY <1>1 DEF AppFields, SetupSecret, Stay, Result, Go, BeginSecret, SetupStates
<1> HIDE DEF o
<1>3. SetupGoes(a, e, o)
    BY <1>2 DEF SetupGoes, Early, SetupStates
<1>4. QED
    BY <1>3 DEF o

\* The end of the setup.
LEMMA ProvisioningGoes ==
    ASSUME NEW a, AppSound(a), a.state = "PROVISIONING", NEW e
    PROVE  SetupGoes(a, e, Provisioning(a, e))
<1> DEFINE o == Provisioning(a, e)
<1>1. AppFields \subseteq DOMAIN a
    BY DEF AppSound
<1>2. /\ o.cmds \in {{}, {"ERASE_TRANSIENT", "ERASE_KEYS"}}
      /\ e = "PROVISIONING_SUCCEEDED" => o.app.state = "VAULT_SECRET_ENTRY"
    BY <1>1 DEF AppFields, Provisioning, Result, Stay, Go, BeginSecret
<1> HIDE DEF o
<1>3. SetupGoes(a, e, o)
    BY <1>2 DEF SetupGoes, Early, SetupStates
<1>4. QED
    BY <1>3 DEF o

\* The states of a device that is set up, and the commands it is given.
Later(o) == o.app.state \notin Early /\ o.cmds \cap {"PREPARE", "PROVISION"} = {}

\* They do not lead into the setup.
LEMMA LaterGoes == ASSUME NEW a, NEW e, NEW o, Later(o) PROVE SetupGoes(a, e, o)
BY DEF Later, SetupGoes, Early

\* A session that ends, or a fault.
LEMMA LeaveLater == ASSUME NEW a, AppSound(a) PROVE Later(LeaveSensitiveMode(a)) /\ Later(EnterFault(a))
<1>1. AppFields \subseteq DOMAIN a
    BY DEF AppSound
<1>2. LeaveSensitiveMode(a).app.state = "VAULT_SECRET_ENTRY" /\ LeaveSensitiveMode(a).cmds = Wipe
    BY <1>1 DEF AppFields, LeaveSensitiveMode, BeginSecret, SettingsClear, Result
<1>3. EnterFault(a).app.state = "FAULT" /\ EnterFault(a).cmds = Wipe
    BY <1>1 DEF AppFields, EnterFault, SettingsClear, Result
<1>4. QED
    BY <1>2, <1>3 DEF Later, Early, SetupStates, Wipe

\* The settings.
LEMMA SettingsLater ==
    ASSUME NEW a, AppSound(a), a.state \in SettingsStates, NEW e, NEW p
    PROVE  Later(Settings(a, e, p))
<1> DEFINE o == SettingsHandle(a, e, p)
<1>1. AppFields \subseteq DOMAIN a
    BY DEF AppSound
<1>2. o.app.state \in SettingsStates /\ o.cmds \in {{}, {"CHANGE"}, Wipe}
    BY <1>1 DEF AppFields, SettingsHandle, Stay, Result, Go, BeginSecret, SettingsClear, BeginEntry, Cancel, SettingsStates
<1> HIDE DEF o
<1>3. Later(o)
    BY <1>2 DEF Later, Early, SetupStates, SettingsStates, Wipe
<1>4. Settings(a, e, p) \in {LeaveSensitiveMode(a), EnterFault(a), o}
    BY DEF Settings, o
<1>5. QED
    BY <1>3, <1>4, LeaveLater

\* The unlock.
LEMMA UnlockLater ==
    ASSUME NEW a, AppSound(a), NEW e, NEW p,
           a.state \in {"VAULT_SECRET_ENTRY", "VAULT_RESERVING_ATTEMPT", "VAULT_AUTHENTICATING", "VAULT_RECORDING_SUCCESS"}
    PROVE  Later(Unlock(a, e, p))
<1> DEFINE o == Unlock(a, e, p)
<1>1. AppFields \subseteq DOMAIN a
    BY DEF AppSound
<1>2. /\ o.app.state \in {"VAULT_SECRET_ENTRY", "VAULT_RESERVING_ATTEMPT", "VAULT_AUTHENTICATING",
                          "VAULT_RECORDING_SUCCESS", "DESTROYED", "MODE_SELECT"}
      /\ o.cmds \cap {"PREPARE", "PROVISION"} = {}
    BY <1>1 DEF AppFields, Unlock, Result, Stay, Go, BeginSecret, LeaveSensitiveMode, SettingsClear, Wipe
<1> HIDE DEF o
<1>3. Later(o)
    BY <1>2 DEF Later, Early, SetupStates
<1>4. QED
    BY <1>3 DEF o

\* The session, and the screens without an entry.
LEMMA SessionLater ==
    ASSUME NEW a, AppSound(a), NEW e
    PROVE  /\ a.state = "MODE_SELECT" => Later(ModeSelect(a, e))
           /\ a.state \in {"FIDO_READY", "PASSKEY_LIST", "PASSKEY_DELETE_CONFIRM"} => Later(Passkeys(a, e))
           /\ a.state \notin Early => Later(Stay(a))
           /\ Later(Stay(Go(a, "BOOT_MEDIA_REQUIRED")))
<1>1. AppFields \subseteq DOMAIN a
    BY DEF AppSound
<1>2. ASSUME a.state = "MODE_SELECT"
      PROVE  Later(ModeSelect(a, e))
  <2> DEFINE o == ModeSelect(a, e)
  <2>1. /\ o.app.state \in OpenStates \cup {"VAULT_SECRET_ENTRY"}
        /\ o.cmds \in {{}, {"ATTACH_MSC"}, {"ATTACH_FIDO"}, Wipe}
      BY <1>1, <1>2 DEF AppFields, ModeSelect, Stay, Result, Go, BeginSecret, LeaveSensitiveMode, SettingsClear, OpenStates,
                        SettingsStates
  <2> HIDE DEF o
  <2>2. Later(o)
      BY <2>1 DEF Later, Early, SetupStates, OpenStates, SettingsStates, Wipe
  <2>3. QED
      BY <2>2 DEF o
<1>3. ASSUME a.state \in {"FIDO_READY", "PASSKEY_LIST", "PASSKEY_DELETE_CONFIRM"}
      PROVE  Later(Passkeys(a, e))
  <2> DEFINE o == Passkeys(a, e)
  <2>1. /\ o.app.state \in {"FIDO_READY", "PASSKEY_LIST", "PASSKEY_DELETE_CONFIRM", "VAULT_SECRET_ENTRY"}
        /\ o.cmds \in {{}, {"PASSKEY_BEGIN"}, {"PASSKEY_DELETE"}, {"PASSKEY_END"}, {"PASSKEY_READ"}, Wipe}
      BY <1>1, <1>3 DEF AppFields, Passkeys, Stay, Result, Go, BeginSecret, LeaveSensitiveMode, SettingsClear
  <2> HIDE DEF o
  <2>2. Later(o)
      BY <2>1 DEF Later, Early, SetupStates, Wipe
  <2>3. QED
      BY <2>2 DEF o
<1>4. a.state \notin Early => Later(Stay(a))
    BY DEF Later, Stay, Result
<1>5. Later(Stay(Go(a, "BOOT_MEDIA_REQUIRED")))
  <2>1. Go(a, "BOOT_MEDIA_REQUIRED").state = "BOOT_MEDIA_REQUIRED"
      BY <1>1 DEF Go, AppFields
  <2>2. QED
      BY <2>1 DEF Later, Stay, Result, Early, SetupStates
<1>6. QED
    BY <1>2, <1>3, <1>4, <1>5

\* Only a device without a record begins its setup.
LEMMA BootGoes ==
    ASSUME NEW a, AppSound(a), a.state \in {"BOOTING", "BOOT_MEDIA_REQUIRED"}
    PROVE  SetupGoes(a, "BOOT_COMPLETED", CompleteBoot(a))
<1> DEFINE o == CompleteBoot(a)
<1>1. AppFields \subseteq DOMAIN a
    BY DEF AppSound
<1>2. /\ a.provisioned => o.app.state \in {"DESTROYED", "VAULT_SECRET_ENTRY"}
      /\ o.cmds \in {{}, Wipe \cup {"DESTROY"}}
    BY <1>1 DEF AppFields, CompleteBoot, Result, Stay, Go, BeginSecret
<1> HIDE DEF o
<1>3. SetupGoes(a, "BOOT_COMPLETED", o)
    BY <1>2 DEF SetupGoes, Early, SetupStates, Wipe
<1>4. QED
    BY <1>3 DEF o

\* The setup goes on, or begins, and nothing else leads to it.
LEMMA HandleGoes ==
    ASSUME NEW a, AppSound(a), NEW e, NEW p
    PROVE  SetupGoes(a, e, Handle(a, e, p))
<1> DEFINE o == Handle(a, e, p)
<1>1. CASE e \in {"FATAL_ERROR", "STORAGE_FAILED"}
  <2>1. o = EnterFault(a) \/ (a.state \in SetupStates /\ o = MediaLostDuringSetup(a))
      BY <1>1 DEF Handle
  <2>2. CASE o = EnterFault(a)
      BY <2>2, LeaveLater, LaterGoes
  <2>3. CASE a.state \in SetupStates /\ o = MediaLostDuringSetup(a)
    <3>1. AppFields \subseteq DOMAIN a
        BY DEF AppSound
    <3> HIDE DEF o
    <3>2. o.app.state = "SETUP_MEDIA_ERROR" /\ o.cmds = Wipe
        BY <2>3, <3>1 DEF AppFields, MediaLostDuringSetup, Result, SettingsClear
    <3>3. SetupGoes(a, e, o)
        BY <2>3, <3>2 DEF SetupGoes, Early, SetupStates, Wipe
    <3>4. QED
        BY <3>3 DEF o
  <2>4. QED
      BY <2>1, <2>2, <2>3
<1>2. CASE e \notin {"FATAL_ERROR", "STORAGE_FAILED"}
  <2>1. CASE a.state \in SetupStates
    <3>1. o = SetupMedia(a, e) \/ o = SetupSecret(a, e, p)
        BY <1>2, <2>1 DEF Handle, SetupStates, SettingsStates
    <3> HIDE DEF o
    <3>2. SetupGoes(a, e, o)
        BY <2>1, <3>1, MediaGoes, SetupSecretGoes
    <3>3. QED
        BY <3>2 DEF o
  <2>2. CASE a.state = "PROVISIONING"
    <3>1. o = Provisioning(a, e)
        BY <1>2, <2>2 DEF Handle, SettingsStates
    <3>2. QED
        BY <2>2, <3>1, ProvisioningGoes
  <2>3. CASE a.state \in {"VAULT_SECRET_ENTRY", "VAULT_RESERVING_ATTEMPT", "VAULT_AUTHENTICATING", "VAULT_RECORDING_SUCCESS"}
    <3>1. o = Unlock(a, e, p)
        BY <1>2, <2>3 DEF Handle, SettingsStates
    <3>2. Later(Unlock(a, e, p))
        BY <2>3, UnlockLater
    <3>3. QED
        BY <3>1, <3>2, LaterGoes
  <2>4. CASE a.state \in {"BOOTING", "BOOT_MEDIA_REQUIRED"}
    <3>1. \/ o = Stay(Go(a, "BOOT_MEDIA_REQUIRED"))
          \/ o = CompleteBoot(a) /\ e = "BOOT_COMPLETED"
          \/ o = Stay(a)
        BY <1>2, <2>4 DEF Handle, SettingsStates
    <3>2. a.state \notin Early
        BY <2>4 DEF Early, SetupStates
    <3>3. Later(Stay(a)) /\ Later(Stay(Go(a, "BOOT_MEDIA_REQUIRED")))
        BY <3>2, SessionLater
    <3> HIDE DEF o
    <3>4. SetupGoes(a, e, o)
        BY <2>4, <3>1, <3>3, BootGoes, LaterGoes
    <3>5. QED
        BY <3>4 DEF o
  <2>5. CASE a.state \notin Early \cup {"VAULT_SECRET_ENTRY", "VAULT_RESERVING_ATTEMPT", "VAULT_AUTHENTICATING",
                                      "VAULT_RECORDING_SUCCESS", "BOOTING", "BOOT_MEDIA_REQUIRED"}
    <3>1. \/ o = Settings(a, e, p) /\ a.state \in SettingsStates
          \/ o = ModeSelect(a, e) /\ a.state = "MODE_SELECT"
          \/ o = LeaveSensitiveMode(a)
          \/ o = Passkeys(a, e) /\ a.state \in {"FIDO_READY", "PASSKEY_LIST", "PASSKEY_DELETE_CONFIRM"}
          \/ o = Stay(a)
      <4>1. /\ a.state \notin {"SETUP_REQUIRED", "SETUP_MEDIA_CHECKING", "SETUP_MEDIA_CONFIRM", "SETUP_MEDIA_INITIALIZING",
                              "SETUP_MEDIA_ERROR"}
            /\ a.state \notin {"SETUP_METHOD_SELECT", "SETUP_SECRET_ENTRY", "SETUP_SECRET_CONFIRM", "SETUP_SECRET_MISMATCH",
                              "SETUP_STACK_SELECT", "SETUP_POLICY_CONFIRM"}
            /\ a.state # "PROVISIONING"
          BY <2>5 DEF Early, SetupStates
      <4>2. CASE a.state \in SettingsStates
          BY <1>2, <4>2 DEF Handle, SettingsStates
      <4>3. CASE a.state = "MODE_SELECT"
          BY <1>2, <4>3 DEF Handle, SettingsStates
      <4>4. CASE a.state \in {"FIDO_READY", "PASSKEY_LIST", "PASSKEY_DELETE_CONFIRM"}
          BY <1>2, <4>4 DEF Handle, SettingsStates
      <4>5. CASE a.state \notin SettingsStates \cup {"MODE_SELECT", "FIDO_READY", "PASSKEY_LIST", "PASSKEY_DELETE_CONFIRM"}
          BY <1>2, <2>5, <4>1, <4>5 DEF Handle
      <4>6. QED
          BY <4>2, <4>3, <4>4, <4>5
    <3>2. a.state \notin Early
        BY <2>5
    <3> HIDE DEF o
    <3>3. Later(o)
        BY <3>1, <3>2, SettingsLater, SessionLater, LeaveLater
    <3>4. SetupGoes(a, e, o)
        BY <3>3, LaterGoes
    <3>5. QED
        BY <3>4 DEF o
  <2>6. QED
      BY <2>1, <2>2, <2>3, <2>4, <2>5 DEF Early
<1>3. QED
    BY <1>1, <1>2

\* The outcome of an event fits what is on record.
LEMMA GoesEarly ==
    ASSUME NEW a, NEW e, NEW o, SetupGoes(a, e, o), NEW j,
           (a.state \in Early => j = NoRecord) \/ (a.state = "PROVISIONING" /\ e = "PROVISIONING_SUCCEEDED"),
           e = "BOOT_COMPLETED" /\ ~a.provisioned => j = NoRecord
    PROVE  EarlySound(o.app, o.cmds, j)
BY DEF SetupGoes, EarlySound, Early

\* A fault ends the setup.
LEMMA FailEarly ==
    ASSUME NEW a, AppFields \subseteq DOMAIN a, NEW j
    PROVE  /\ AppFields \subseteq DOMAIN Fail(a).app /\ EarlySound(Fail(a).app, Fail(a).cmds, j)
           /\ EarlySound(Fail(a).app, {}, j) /\ Fail(a).cmds = Wipe
<1> DEFINE o == Fail(a)
<1>1. AppFields \subseteq DOMAIN o.app /\ o.app.state = "FAULT" /\ o.cmds = Wipe
    BY DEF AppFields, Fail, ForgetSession, EnterFault, Result, SettingsClear
<1> HIDE DEF o
<1>2. EarlySound(o.app, o.cmds, j) /\ EarlySound(o.app, {}, j)
    BY <1>1 DEF EarlySound, Early, SetupStates, Wipe
<1>3. QED
    BY <1>1, <1>2 DEF o

\* The end of a task.
LEMMA TaskEarly ==
    ASSUME RoundSound, NEW c \in Task, Doing(c), NEW out, Finish(out), AppFields \subseteq DOMAIN out.app, NEW j,
           EarlySound(out.app, out.cmds, j)
    PROVE  EarlySound(app', cmds', j)
<1>1. \/ app' = out.app /\ cmds' = out.cmds
      \/ app' = Fail(out.app).app /\ cmds' = {}
    BY TaskFinish
<1>2. EarlySound(Fail(out.app).app, {}, j)
    BY FailEarly
<1>3. QED
    BY <1>1, <1>2

\* The end of a command of a wipe.
LEMMA WipeEarly ==
    ASSUME RoundSound, NEW c \in Wiping, Doing(c), NEW out, Finish(out), AppFields \subseteq DOMAIN out.app,
           out.cmds \in {{}, Wipe}, NEW j, EarlySound(out.app, {}, j)
    PROVE  EarlySound(app', cmds', j)
<1>1. First(cmds) = c /\ cmds \subseteq Wiping \cup Storing /\ next \subseteq Wiping \cup Storing
    BY WipeGoesOn DEF RoundSound, Wiping
<1>2. \/ app' = out.app /\ cmds' \subseteq cmds \cup next \cup out.cmds
      \/ app' = Fail(out.app).app /\ cmds' = {}
    BY DEF Finish
<1>3. cmds' \cap {"PREPARE", "PROVISION"} = {}
    BY <1>1, <1>2 DEF Wiping, Wipe, Storing
<1>4. EarlySound(Fail(out.app).app, {}, j)
    BY FailEarly
<1>5. QED
    BY <1>2, <1>3, <1>4 DEF EarlySound

\* How the tasks end that do not make the record.
Counted(n) == [app EXCEPT !.count = n, !.index = IF @ < n THEN @ ELSE 0]
TaskGoes ==
    \/ Done \/ Broken
    \/ \E e \in Replies \ {"PROVISIONING_SUCCEEDED"} : Answer(e)
    \/ \E s : Working(s)
    \/ \E n : Finish(Stay(Counted(n)))

\* Such a task leads nowhere new.
LEMMA TaskGoesEarly ==
    ASSUME GuessInv, NEW j, EarlySound(app, cmds, j), NEW c \in Task, Doing(c), TaskGoes, NEW k, j = NoRecord => k = NoRecord
    PROVE  EarlySound(app', cmds', k)
<1>1. RoundSound /\ AppSound(app) /\ AppFields \subseteq DOMAIN app
    BY TaskAlone DEF GuessInv, Counts, AppSound
<1>2. EarlySound(app, {}, k)
    BY DEF EarlySound
<1>3. CASE Done
  <2>1. Stay(app).app = app /\ Stay(app).cmds = {}
      BY DEF Stay, Result
  <2>2. QED
      BY <1>1, <1>2, <1>3, <2>1, TaskEarly DEF Done
<1>4. CASE Broken
    BY <1>1, <1>4, FailEarly, TaskEarly DEF Broken
<1>5. CASE \E e \in Replies \ {"PROVISIONING_SUCCEEDED"} : Answer(e)
  <2>1. PICK e \in Replies \ {"PROVISIONING_SUCCEEDED"} : Answer(e)
      BY <1>5
  <2> DEFINE o == Handle(app, e, NoPick)
  <2>2. SetupGoes(app, e, o) /\ AppFields \subseteq DOMAIN o.app /\ Finish(o)
      BY <1>1, <2>1, HandleGoes, HandleOutcome DEF Outcome, AppSound, Answer
  <2>3. e # "BOOT_COMPLETED"
      BY DEF Replies
  <2> HIDE DEF o
  <2>4. EarlySound(o.app, o.cmds, k)
      BY <1>2, <2>2, <2>3, GoesEarly DEF EarlySound
  <2>5. QED
      BY <1>1, <2>2, <2>4, TaskEarly
<1>6. CASE \E s : Working(s)
    BY <1>6 DEF Working, EarlySound
<1>7. CASE \E n : Finish(Stay(Counted(n)))
  <2>1. PICK n : Finish(Stay(Counted(n)))
      BY <1>7
  <2> DEFINE b == Counted(n)
  <2>2. AppFields \subseteq DOMAIN b /\ b.state = app.state
      BY <1>1 DEF AppFields, Counted
  <2> HIDE DEF b
  <2>3. Stay(b).app = b /\ Stay(b).cmds = {} /\ Finish(Stay(b))
      BY <2>1 DEF Stay, Result, b
  <2>4. EarlySound(b, {}, k)
      BY <1>2, <2>2 DEF EarlySound
  <2>5. QED
      BY <1>1, <2>2, <2>3, <2>4, TaskEarly
<1>8. QED
    BY <1>3, <1>4, <1>5, <1>6, <1>7 DEF TaskGoes

\* The tasks.
LEMMA EarlyTasks ==
    GuessInv /\ EarlyInv /\ (InspectMedia \/ PrepareMedia \/ ProvisionStart \/ ProvisionRoots \/ ProvisionVault
                               \/ ProvisionSuper \/ ProvisionHeader \/ StoreAttempt \/ Authenticate \/ ChangeStart
                               \/ ChangeJournal \/ ChangeStage \/ ChangeVerify \/ AttachMassStorage \/ AttachPasskeys
                               \/ ManagePasskeys) => EarlyInv'
<1> SUFFICES ASSUME GuessInv, EarlyInv,
                    InspectMedia \/ PrepareMedia \/ ProvisionStart \/ ProvisionRoots \/ ProvisionVault
                      \/ ProvisionSuper \/ ProvisionHeader \/ StoreAttempt \/ Authenticate \/ ChangeStart
                      \/ ChangeJournal \/ ChangeStage \/ ChangeVerify \/ AttachMassStorage \/ AttachPasskeys
                      \/ ManagePasskeys
             PROVE  EarlyInv'
    OBVIOUS
<1> USE DEF durable
<1>1. ASSUME NEW c \in Task, Doing(c), TaskGoes, UNCHANGED disowned, UNCHANGED jrn \/ c \in {"STORE_ATTEMPT", "CHANGE"}
      PROVE  EarlyInv'
  <2>1. On /\ Counts(app, cmds, jrn, guesses) /\ cmds = {c} /\ EarlySound(app, cmds, Acknowledged)
      BY <1>1, TaskAlone DEF GuessInv, EarlyInv
  <2>2. UNCHANGED jrn \/ jrn # NoRecord
      BY <1>1, <2>1 DEF Counts, OnRecord
  <2>3. Acknowledged = NoRecord => Acknowledged' = NoRecord
      BY <1>1, <2>2 DEF Acknowledged
  <2>4. EarlySound(app', cmds', Acknowledged')
      BY <1>1, <2>1, <2>3, TaskGoesEarly
  <2>5. QED
      BY <2>4 DEF EarlyInv
<1>2. {"MEDIA_FOUND", "MEDIA_FAILED", "MEDIA_PREPARED", "PROVISIONING_FAILED", "CREDENTIAL_CHANGED", "AUTH_SUCCEEDED",
       "AUTH_FAILED", "ATTEMPT_COUNTER_STORED"} \subseteq Replies \ {"PROVISIONING_SUCCEEDED"}
    BY DEF Replies
<1>3. {"INSPECT", "PREPARE", "PROVISION", "CHANGE", "ATTACH_MSC", "ATTACH_FIDO", "AUTHENTICATE", "STORE_ATTEMPT",
       "PASSKEY_BEGIN", "PASSKEY_READ", "PASSKEY_DELETE", "PASSKEY_END"} \subseteq Task
    BY DEF Task
<1>4. CASE InspectMedia
  <2>1. Doing("INSPECT") /\ UNCHANGED <<jrn, disowned>> /\ TaskGoes
      BY <1>2, <1>4 DEF InspectMedia, TaskGoes
  <2>2. QED
      BY <1>1, <1>3, <2>1
<1>5. CASE PrepareMedia
  <2>1. Doing("PREPARE") /\ UNCHANGED <<jrn, disowned>> /\ TaskGoes
      BY <1>2, <1>5 DEF PrepareMedia, TaskGoes
  <2>2. QED
      BY <1>1, <1>3, <2>1
<1>6. CASE ProvisionStart
  <2>1. Doing("PROVISION") /\ UNCHANGED <<jrn, disowned>> /\ TaskGoes
      BY <1>2, <1>6 DEF ProvisionStart, SetupFails, TaskGoes
  <2>2. QED
      BY <1>1, <1>3, <2>1
<1>7. CASE ProvisionRoots
  <2>1. Doing("PROVISION") /\ UNCHANGED <<jrn, disowned>> /\ TaskGoes
      BY <1>2, <1>7 DEF ProvisionRoots, RootsProve, SetupFails, TaskGoes
  <2>2. QED
      BY <1>1, <1>3, <2>1
<1>8. CASE ProvisionVault
  <2>1. Doing("PROVISION") /\ UNCHANGED <<jrn, disowned>> /\ TaskGoes
      BY <1>2, <1>8 DEF ProvisionVault, SetupFails, TaskGoes
  <2>2. QED
      BY <1>1, <1>3, <2>1
<1>9. CASE ProvisionSuper
  <2>1. Doing("PROVISION") /\ UNCHANGED <<jrn, disowned>> /\ TaskGoes
      BY <1>2, <1>9 DEF ProvisionSuper, SetupFails, TaskGoes
  <2>2. QED
      BY <1>1, <1>3, <2>1
<1>10. CASE ProvisionHeader
  <2>1. Doing("PROVISION") /\ UNCHANGED <<jrn, disowned>> /\ TaskGoes
      BY <1>2, <1>10 DEF ProvisionHeader, SetupFails, TaskGoes
  <2>2. QED
      BY <1>1, <1>3, <2>1
<1>11. CASE StoreAttempt
  <2>1. Doing("STORE_ATTEMPT") /\ UNCHANGED disowned /\ TaskGoes
      BY <1>2, <1>11 DEF StoreAttempt, TaskGoes
  <2>2. QED
      BY <1>1, <1>3, <2>1
<1>12. CASE Authenticate
  <2>1. Doing("AUTHENTICATE") /\ UNCHANGED <<jrn, disowned>> /\ TaskGoes
      BY <1>2, <1>12 DEF Authenticate, TaskGoes
  <2>2. QED
      BY <1>1, <1>3, <2>1
<1>13. CASE ChangeStart
  <2>1. Doing("CHANGE") /\ UNCHANGED disowned /\ TaskGoes
      BY <1>13 DEF ChangeStart, TaskGoes
  <2>2. QED
      BY <1>1, <1>3, <2>1
<1>14. CASE ChangeJournal
  <2>1. Doing("CHANGE") /\ UNCHANGED disowned /\ TaskGoes
      BY <1>14 DEF ChangeJournal, TaskGoes
  <2>2. QED
      BY <1>1, <1>3, <2>1
<1>15. CASE ChangeStage
  <2>1. Doing("CHANGE") /\ UNCHANGED disowned /\ TaskGoes
      BY <1>15 DEF ChangeStage, TaskGoes
  <2>2. QED
      BY <1>1, <1>3, <2>1
<1>16. CASE ChangeVerify
  <2>1. Doing("CHANGE") /\ UNCHANGED disowned /\ TaskGoes
      BY <1>2, <1>16 DEF ChangeVerify, TaskGoes
  <2>2. QED
      BY <1>1, <1>3, <2>1
<1>17. CASE AttachMassStorage
  <2>1. Doing("ATTACH_MSC") /\ UNCHANGED <<jrn, disowned>> /\ TaskGoes
      BY <1>17 DEF AttachMassStorage, TaskGoes
  <2>2. QED
      BY <1>1, <1>3, <2>1
<1>18. CASE AttachPasskeys
  <2>1. Doing("ATTACH_FIDO") /\ UNCHANGED <<jrn, disowned>> /\ TaskGoes
      BY <1>18 DEF AttachPasskeys, TaskGoes
  <2>2. QED
      BY <1>1, <1>3, <2>1
<1>19. CASE ManagePasskeys
  <2>1. UNCHANGED <<jrn, disowned>> /\ TaskGoes /\ \E c \in {"PASSKEY_BEGIN", "PASSKEY_READ", "PASSKEY_DELETE", "PASSKEY_END"} : Doing(c)
      BY <1>19 DEF ManagePasskeys, TaskGoes, Counted
  <2>2. QED
      BY <1>1, <1>3, <2>1
<1>20. QED
    BY <1>4, <1>5, <1>6, <1>7, <1>8, <1>9, <1>10, <1>11, <1>12, <1>13, <1>14, <1>15, <1>16, <1>17, <1>18, <1>19

\* The record is made at the end of the setup, which may not be told of it.
LEMMA EarlyRecord == GuessInv /\ EarlyInv /\ ProvisionState => EarlyInv'
<1> SUFFICES ASSUME GuessInv, EarlyInv, ProvisionState
             PROVE  EarlyInv'
    OBVIOUS
<1>1. Doing("PROVISION") /\ "PROVISION" \in Task
    BY DEF ProvisionState, Task
<1>2. RoundSound /\ On /\ AppSound(app) /\ cmds = {"PROVISION"} /\ EarlySound(app, cmds, Acknowledged)
    BY <1>1, TaskAlone DEF GuessInv, Counts, EarlyInv
<1>3. CASE Answer("PROVISIONING_FAILED") /\ (UNCHANGED <<jrn, disowned>> \/ disowned' = TRUE)
  <2>1. Acknowledged = NoRecord => Acknowledged' = NoRecord
      BY <1>3 DEF Acknowledged
  <2>2. TaskGoes
      BY <1>3 DEF TaskGoes, Replies
  <2>3. EarlySound(app', cmds', Acknowledged')
      BY <1>1, <1>2, <2>1, <2>2, TaskGoesEarly
  <2>4. QED
      BY <2>3 DEF EarlyInv
<1>4. CASE Answer("PROVISIONING_SUCCEEDED")
  <2> DEFINE e == "PROVISIONING_SUCCEEDED"
             o == Handle(app, e, NoPick)
             j == Acknowledged'
  <2>1. SetupGoes(app, e, o) /\ AppFields \subseteq DOMAIN o.app /\ Finish(o)
      BY <1>2, <1>4, HandleGoes, HandleOutcome DEF Outcome, AppSound, Answer
  <2>2. app.state = "PROVISIONING"
      BY <1>2 DEF EarlySound
  <2> HIDE DEF o, j
  <2>3. EarlySound(o.app, o.cmds, j)
      BY <2>1, <2>2, GoesEarly
  <2>4. EarlySound(app', cmds', j)
      BY <1>1, <1>2, <2>1, <2>3, TaskEarly
  <2>5. QED
      BY <2>4 DEF EarlyInv, j
<1>5. QED
    BY <1>3, <1>4 DEF ProvisionState, SetupFails

\* The commands of a wipe.
LEMMA EarlyWipes == GuessInv /\ EarlyInv /\ (Detach \/ EraseTransient \/ EraseKeys \/ Destroy) => EarlyInv'
<1> SUFFICES ASSUME GuessInv, EarlyInv, Detach \/ EraseTransient \/ EraseKeys \/ Destroy
             PROVE  EarlyInv'
    OBVIOUS
<1> USE DEF durable
<1>1. PICK c \in Wiping : Doing(c)
    BY DEF Detach, EraseTransient, EraseKeys, Destroy, Wiping, Wipe
<1>2. RoundSound /\ On /\ AppFields \subseteq DOMAIN app /\ EarlySound(app, {}, Acknowledged)
      /\ Acknowledged' = Acknowledged
    BY <1>1, WipeGoesOn DEF GuessInv, Counts, AppSound, EarlyInv, EarlySound, Acknowledged, Detach, EraseTransient, EraseKeys, Destroy
<1>3. ASSUME NEW b, AppFields \subseteq DOMAIN b, b.state = app.state, Finish(Stay(b))
      PROVE  EarlyInv'
  <2>1. Stay(b).app = b /\ Stay(b).cmds = {}
      BY DEF Stay, Result
  <2>2. EarlySound(b, {}, Acknowledged)
      BY <1>2, <1>3 DEF EarlySound
  <2>3. EarlySound(app', cmds', Acknowledged)
      BY <1>1, <1>2, <1>3, <2>1, <2>2, WipeEarly
  <2>4. QED
      BY <1>2, <2>3 DEF EarlyInv
<1>4. CASE Broken
    BY <1>1, <1>2, <1>4, FailEarly, WipeEarly DEF Broken, EarlyInv
<1>5. CASE Done
    BY <1>2, <1>3, <1>5 DEF Done
<1>6. CASE EraseTransient
  <2> DEFINE b == [app EXCEPT !.secret = NoEntry, !.setup = NoEntry]
  <2>1. AppFields \subseteq DOMAIN b /\ b.state = app.state
      BY <1>2 DEF AppFields
  <2>2. Finish(Stay(b))
      BY <1>6 DEF EraseTransient
  <2> HIDE DEF b
  <2>3. QED
      BY <1>3, <2>1, <2>2
<1>7. CASE EraseKeys
  <2>1. AppFields \subseteq DOMAIN ForgetSession(app) /\ ForgetSession(app).state = app.state
      BY <1>2 DEF AppFields, ForgetSession, SettingsClear
  <2>2. QED
      BY <1>3, <1>7, <2>1 DEF EraseKeys
<1>8. QED
    BY <1>4, <1>5, <1>6, <1>7 DEF Detach, Destroy

\* The main loop, and what happens outside the device.
LEMMA EarlyLoops ==
    GuessInv /\ EarlyInv /\ (PollCard \/ CardLost \/ PollConnector \/ HostStorage \/ HostPasskeys \/ TakeUsb \/ Press
                               \/ DisplayLost \/ MoveCard \/ MoveCable \/ UNCHANGED vars) => EarlyInv'
<1> SUFFICES ASSUME GuessInv, EarlyInv,
                    PollCard \/ CardLost \/ PollConnector \/ HostStorage \/ HostPasskeys \/ TakeUsb \/ Press
                      \/ DisplayLost \/ MoveCard \/ MoveCable \/ UNCHANGED vars
             PROVE  EarlyInv'
    OBVIOUS
<1> USE DEF durable
<1>1. CASE UNCHANGED <<app, cmds, jrn, disowned>>
    BY <1>1 DEF EarlyInv, On, Acknowledged
<1>2. CASE Idle /\ UNCHANGED <<jrn, disowned>> /\ \E e, p : e # "BOOT_COMPLETED" /\ Dispatch(e, p)
  <2>1. PICK e, p : e # "BOOT_COMPLETED" /\ Dispatch(e, p)
      BY <1>2
  <2>2. AppSound(app) /\ EarlySound(app, cmds, Acknowledged)
      BY <1>2 DEF GuessInv, Counts, Idle, EarlyInv
  <2> DEFINE o == Handle(app, e, p)
  <2>3. SetupGoes(app, e, o) /\ app' = o.app /\ cmds' = o.cmds
      BY <2>1, <2>2, HandleGoes DEF Dispatch
  <2> HIDE DEF o
  <2>4. EarlySound(o.app, o.cmds, Acknowledged)
      BY <2>1, <2>2, <2>3, GoesEarly DEF EarlySound
  <2>5. QED
      BY <1>2, <2>3, <2>4 DEF EarlyInv, Acknowledged
<1>3. CASE MoveCard \/ MoveCable \/ UNCHANGED vars \/ PollCard \/ HostStorage \/ HostPasskeys
  <2>1. UNCHANGED <<app, cmds, jrn, disowned>>
      BY <1>3 DEF MoveCard, MoveCable, vars, ram, PollCard, HostStorage, HostPasskeys, NoWork
  <2>2. QED
      BY <1>1, <2>1
<1>4. CASE CardLost \/ DisplayLost \/ TakeUsb
  <2>1. /\ Idle /\ UNCHANGED <<jrn, disowned>>
        /\ \E e \in {"STORAGE_FAILED", "FATAL_ERROR", "LOCK_REQUESTED", "USB_EJECTED"} : Dispatch(e, NoPick)
      BY <1>4 DEF CardLost, DisplayLost, TakeUsb, NoWork
  <2>2. QED
      BY <1>2, <2>1
<1>5. CASE PollConnector
  <2>1. Idle /\ UNCHANGED <<jrn, disowned>> /\ (Dispatch("FATAL_ERROR", NoPick) \/ UNCHANGED <<app, cmds>>)
      BY <1>5 DEF PollConnector, NoWork
  <2>2. QED
      BY <1>1, <1>2, <2>1
<1>6. CASE Press
  <2>1. PICK b \in Buttons(app) : \E p \in Picks(b) : Dispatch(b, p)
      BY <1>6 DEF Press
  <2>2. b # "BOOT_COMPLETED" /\ Idle /\ UNCHANGED <<jrn, disowned>>
      BY <1>6 DEF Buttons, Press, NoWork
  <2>3. QED
      BY <1>2, <2>1, <2>2
<1>7. QED
    BY <1>3, <1>4, <1>5, <1>6

\* A card that was inserted: the device that waits for it is set up.
LEMMA EarlyCard == GuessInv /\ EarlyInv /\ CardInserted => EarlyInv'
<1> SUFFICES ASSUME GuessInv, EarlyInv, CardInserted
             PROVE  EarlyInv'
    OBVIOUS
<1> USE DEF durable
<1>1. Idle /\ UNCHANGED jrn
    BY DEF CardInserted, NoWork
<1>2. AppSound(app) /\ EarlySound(app, {}, Acknowledged)
    BY <1>1 DEF GuessInv, Counts, Idle, EarlyInv, EarlySound
<1>3. CASE app.state # "BOOT_MEDIA_REQUIRED"
    BY <1>1, <1>3 DEF CardInserted, EarlyInv, On, Idle, Acknowledged
<1>4. CASE app.state = "BOOT_MEDIA_REQUIRED"
  <2>1. PICK method :
          LET b == [app EXCEPT !.attempts = jrn.attempts, !.method = method]
          IN \/ app' = Handle(b, "BOOT_COMPLETED", NoPick).app /\ cmds' = Handle(b, "BOOT_COMPLETED", NoPick).cmds
             \/ app' = EnterFault(app).app /\ cmds' = EnterFault(app).cmds
             \/ app' = app /\ cmds' = {}
      BY <1>4 DEF CardInserted, Stay, Result
  <2> DEFINE b == [app EXCEPT !.attempts = jrn.attempts, !.method = method]
             o == Handle(b, "BOOT_COMPLETED", NoPick)
             j == Acknowledged'
  <2>2. app.provisioned /\ jrn # NoRecord /\ CountSound(jrn, guesses)
      BY <1>1, <1>2, <1>4 DEF AppSound, SetUpStates, GuessInv, Counts, Idle
  <2>3. /\ AppFields \subseteq DOMAIN b /\ b.state = app.state /\ b.provisioned = app.provisioned
        /\ b.unlocked = app.unlocked /\ b.attempts = jrn.attempts
      BY <1>2 DEF AppSound, AppFields
  <2> HIDE DEF b
  <2>4. AppSound(b)
      BY <1>2, <2>2, <2>3 DEF AppSound, CountSound
  <2>5. SetupGoes(b, "BOOT_COMPLETED", o)
      BY <2>4, HandleGoes
  <2> HIDE DEF o, j
  <2>6. EarlySound(o.app, o.cmds, j)
    <3>1. b.provisioned /\ b.state \notin Early
        BY <1>4, <2>2, <2>3, Zenon DEF Early, SetupStates
    <3>2. QED
        BY <2>5, <3>1, GoesEarly
  <2>7. EarlySound(EnterFault(app).app, EnterFault(app).cmds, j) /\ EarlySound(app, {}, j)
    <3>1. SetupGoes(app, "FATAL_ERROR", EnterFault(app))
        BY <1>2, LeaveLater, LaterGoes
    <3>2. app.state \notin Early
        BY <1>4, Zenon DEF Early, SetupStates
    <3>3. QED
        BY <3>1, <3>2, GoesEarly DEF EarlySound
  <2>8. \/ app' = o.app /\ cmds' = o.cmds
        \/ app' = EnterFault(app).app /\ cmds' = EnterFault(app).cmds
        \/ app' = app /\ cmds' = {}
      BY <2>1 DEF b, o
  <2>9. QED
      BY <2>6, <2>7, <2>8 DEF EarlyInv, j
<1>5. QED
    BY <1>3, <1>4

\* The start of the device: without a record that can be read there is none.
LEMMA EarlyBoot == GuessInv /\ Boot => EarlyInv'
<1> SUFFICES ASSUME GuessInv, Boot
             PROVE  EarlyInv'
    OBVIOUS
<1> USE DEF durable
<1> DEFINE stored == StateResult(otp, jrn) = "OK"
<1>1. CountSound(jrn, guesses) /\ RootsSound /\ UNCHANGED jrn
    BY DEF GuessInv, Boot
<1>2. PICK reads, present, id, faulted : app' = BootOutcome(reads, present, id, faulted).app
                                         /\ cmds' = BootOutcome(reads, present, id, faulted).cmds
    BY DEF Boot
<1> DEFINE header == IF reads THEN LoadVaultHeader(otp, jrn, card, id)
                     ELSE [result |-> "IO_ERROR", found |-> NoHeader]
           how == Recovered(RootsStatus(otp), present, header)
           method == IF stored /\ how = "READY" THEN header.found.entry.method ELSE 0
           b == Started(stored, jrn, method)
           out == CASE faulted \/ how = "FAILED" -> Stay(EnterFault(b).app)
                    [] ~faulted /\ how = "READY" -> Handle(b, "BOOT_COMPLETED", NoPick)
                    [] OTHER -> Handle(b, "BOOT_MEDIA_REQUIRED", NoPick)
<1>3. app' = out.app /\ cmds' = out.cmds
    BY <1>2 DEF BootOutcome, Started
<1>4. how = "READY" => stored \/ jrn = NoRecord
  <2> SUFFICES ASSUME how = "READY", jrn # NoRecord
               PROVE  stored
      OBVIOUS
  <2>1. RootsStatus(otp) \notin {"REVOKED", "INVALID"}
      BY DEF Recovered
  <2>2. RootsStatus(otp) = "ACTIVE"
      BY <1>1, <2>1 DEF RootsStatus, RootsSound, RootsType
  <2>3. QED
      BY <2>2 DEF StateResult, RootsResult
<1>5. AppSound(b) /\ b.state = "BOOTING" /\ b.provisioned = stored
  <2>1. stored \in BOOLEAN /\ (stored => jrn # NoRecord)
      BY DEF StateResult
  <2> HIDE DEF stored, method
  <2>2. AppSound(b)
      BY <1>1, <2>1, StartedCounts DEF Counts
  <2>3. QED
      BY <2>2 DEF Started, AppInit
<1> HIDE DEF header, how, method, b
<1>6. \/ out = Stay(EnterFault(b).app)
      \/ out = Handle(b, "BOOT_COMPLETED", NoPick) /\ how = "READY"
      \/ out = Handle(b, "BOOT_MEDIA_REQUIRED", NoPick)
    OBVIOUS
<1> HIDE DEF out
<1>7. b.state \notin Early
    BY <1>5 DEF Early, SetupStates
<1>8. CASE out = Stay(EnterFault(b).app)
  <2>1. out.app = EnterFault(b).app /\ out.cmds = {}
      BY <1>8 DEF Stay, Result
  <2>2. QED
      BY <1>3, <1>5, <2>1, LeaveLater DEF Later, EarlyInv, EarlySound
<1>9. CASE out = Handle(b, "BOOT_COMPLETED", NoPick) /\ how = "READY"
  <2>1. SetupGoes(b, "BOOT_COMPLETED", out)
      BY <1>5, <1>9, HandleGoes
  <2>2. ~b.provisioned => jrn = NoRecord
      BY <1>4, <1>5, <1>9, Zenon
  <2>3. jrn = NoRecord => Acknowledged' = NoRecord
      BY <1>1 DEF Acknowledged
  <2> DEFINE j == Acknowledged'
  <2> HIDE DEF j
  <2>4. EarlySound(out.app, out.cmds, j)
      BY <1>7, <2>1, <2>2, <2>3, GoesEarly DEF j
  <2>5. QED
      BY <1>3, <2>4 DEF EarlyInv, j
<1>10. CASE out = Handle(b, "BOOT_MEDIA_REQUIRED", NoPick)
  <2>1. SetupGoes(b, "BOOT_MEDIA_REQUIRED", out)
      BY <1>5, <1>10, HandleGoes
  <2> DEFINE j == Acknowledged'
  <2> HIDE DEF j
  <2>2. EarlySound(out.app, out.cmds, j)
      BY <1>7, <2>1, GoesEarly
  <2>3. QED
      BY <1>3, <2>2 DEF EarlyInv, j
<1>11. QED
    BY <1>6, <1>8, <1>9, <1>10

\* No step leads a device with a record into its setup.
LEMMA EarlyStep == GuessInv /\ EarlyInv /\ [Next]_vars => EarlyInv'
<1>1. Cut => EarlyInv'
    BY DEF Cut, EarlyInv, On
<1>2. QED
    BY <1>1, EarlyTasks, EarlyRecord, EarlyWipes, EarlyLoops, EarlyCard, EarlyBoot DEF Next

-----------------------------------------------------------------------------
(* The two copies of a record *)

\* One copy is in force when the other is not of this device.
LEMMA SelectOne ==
    ASSUME NEW pair, NEW good, pair[0] \in good, pair[1] \notin good, pair[0].seq \in Nat
    PROVE  Select(pair, good) = [result |-> "OK", found |-> pair[0]]
<1> DEFINE rs == {pair[i] : i \in {j \in 0 .. 1 : pair[j] \in good}}
<1>1. rs = {pair[0]}
    OBVIOUS
<1>2. Paired(rs)
    BY <1>1 DEF Paired
<1>3. Newest(rs) = pair[0]
    BY <1>1 DEF Newest
<1>4. pair[0] # pair[1]
    OBVIOUS
<1> HIDE DEF rs
<1>5. Select(pair, good) =
        CASE rs # {} /\ Paired(rs) /\ ~(pair[0] \in good /\ pair[0] = pair[1]) -> [result |-> "OK", found |-> Newest(rs)]
          [] rs # {} /\ (~Paired(rs) \/ (pair[0] \in good /\ pair[0] = pair[1])) -> [result |-> "INVALID", found |-> NoHeader]
          [] rs = {} /\ \E i \in 0 .. 1 : pair[i] # Blank -> [result |-> "INVALID", found |-> NoHeader]
          [] OTHER -> [result |-> "NOT_FOUND", found |-> NoHeader]
    BY DEF Select, rs
<1>6. QED
    BY <1>1, <1>2, <1>3, <1>4, <1>5

\* The second copy is in force when it follows the first.
LEMMA SelectPair ==
    ASSUME NEW pair, NEW good, pair[0] \in good, pair[1] \in good, pair[0].seq = 1, pair[1].seq = 2,
           pair[0].vault = pair[1].vault
    PROVE  Select(pair, good) = [result |-> "OK", found |-> pair[1]]
<1> DEFINE rs == {pair[i] : i \in {j \in 0 .. 1 : pair[j] \in good}}
<1>1. rs = {pair[0], pair[1]} /\ pair[0] # pair[1]
    OBVIOUS
<1>2. Paired(rs)
    BY <1>1 DEF Paired
<1>3. Newest(rs) = pair[1]
    BY <1>1 DEF Newest
<1> HIDE DEF rs
<1>4. Select(pair, good) =
        CASE rs # {} /\ Paired(rs) /\ ~(pair[0] \in good /\ pair[0] = pair[1]) -> [result |-> "OK", found |-> Newest(rs)]
          [] rs # {} /\ (~Paired(rs) \/ (pair[0] \in good /\ pair[0] = pair[1])) -> [result |-> "INVALID", found |-> NoHeader]
          [] rs = {} /\ \E i \in 0 .. 1 : pair[i] # Blank -> [result |-> "INVALID", found |-> NoHeader]
          [] OTHER -> [result |-> "NOT_FOUND", found |-> NoHeader]
    BY DEF Select, rs
<1>5. QED
    BY <1>1, <1>2, <1>3, <1>4

\* Whatever is found is one of the copies, and nothing is found only on a blank card.
LEMMA SelectFinds ==
    ASSUME NEW pair, NEW good, \A i \in 0 .. 1 : pair[i] \in good => pair[i].seq \in Nat
    PROVE  LET l == Select(pair, good)
           IN /\ l.result = "OK" => \E i \in 0 .. 1 : pair[i] \in good /\ l.found = pair[i]
              /\ l.result = "NOT_FOUND" => pair[0] = Blank /\ pair[1] = Blank
<1> DEFINE rs == {pair[i] : i \in {j \in 0 .. 1 : pair[j] \in good}}
           l == Select(pair, good)
<1>1. rs # {} => Newest(rs) \in rs
  <2> SUFFICES ASSUME rs # {}
               PROVE  Newest(rs) \in rs
      OBVIOUS
  <2>1. \E r \in rs : \A q \in rs : q.seq <= r.seq
      OBVIOUS
  <2> HIDE DEF rs
  <2>2. QED
      BY <2>1 DEF Newest
<1>2. \A r \in rs : \E i \in 0 .. 1 : pair[i] \in good /\ r = pair[i]
    OBVIOUS
<1> HIDE DEF rs
<1>3. \/ l = [result |-> "OK", found |-> Newest(rs)] /\ rs # {}
      \/ l = [result |-> "INVALID", found |-> NoHeader]
      \/ l = [result |-> "NOT_FOUND", found |-> NoHeader] /\ rs = {} /\ ~(\E i \in 0 .. 1 : pair[i] # Blank)
    BY DEF Select, rs
<1>4. QED
    BY <1>1, <1>2, <1>3

\* The superblocks of a vault are found for it.
LEMMA MediaKept ==
    ASSUME NEW c, NEW w, c.super[0] = Super(w, 1), c.super[1] = Super(w, 2)
    PROVE  MediaLoad(c, w).result = "OK"
<1> DEFINE good == {s \in {c.super[0], c.super[1]} : s.kind = "super" /\ w \in {NoVault, s.vault}}
<1>1. /\ c.super[0].kind = "super" /\ c.super[0].vault = w /\ c.super[0].seq = 1
      /\ c.super[1].kind = "super" /\ c.super[1].vault = w /\ c.super[1].seq = 2
    BY DEF Super
<1>2. c.super[0] \in good /\ c.super[1] \in good
    BY <1>1
<1> HIDE DEF good
<1>3. Select(c.super, good) = [result |-> "OK", found |-> c.super[1]]
    BY <1>1, <1>2, SelectPair
<1>4. QED
    BY <1>3 DEF MediaLoad, good

\* Superblocks of one vault, however many there are, are found for no other.
LEMMA MediaOfVault ==
    ASSUME NEW c, NEW w, \A i \in 0 .. 1 : c.super[i] \in {Super(w, i + 1), Blank, Garbage}, NEW v
    PROVE  MediaLoad(c, v).result = "OK" => MediaLoad(c, v).found.vault = w
<1> DEFINE good == {s \in {c.super[0], c.super[1]} : s.kind = "super" /\ v \in {NoVault, s.vault}}
<1>1. \A i \in 0 .. 1 : c.super[i].kind = "super" => c.super[i].vault = w /\ c.super[i].seq \in Nat
    BY DEF Super, Blank, Garbage
<1>2. \A i \in 0 .. 1 : c.super[i] \in good => c.super[i].vault = w /\ c.super[i].seq \in Nat
    BY <1>1
<1> HIDE DEF good
<1>3. Select(c.super, good).result = "OK" =>
        \E i \in 0 .. 1 : c.super[i] \in good /\ Select(c.super, good).found = c.super[i]
    BY <1>2, SelectFinds
<1>4. QED
    BY <1>2, <1>3 DEF MediaLoad, good

-----------------------------------------------------------------------------
(* The header in force and the next one *)

\* A header that was written is as its fields say.
LEMMA HeaderFields ==
    ASSUME NEW v, NEW n \in Nat, NEW e
    PROVE  /\ IsHeader(Header(v, n, e)) /\ Header(v, n, e).vault = v /\ Header(v, n, e).seq = n
           /\ Header(v, n, e) # NoHeader
BY DEF IsHeader, Header, NoHeader

\* The next header of a vault.
LEMMA HeaderAfter ==
    ASSUME NEW h, IsHeader(h), NEW e, NEW r, r = [h EXCEPT !.seq = @ + 1, !.entry = e]
    PROVE  r = Header(h.vault, h.seq + 1, e)
<1> DEFINE v == h.vault
           n == h.seq
           x == h.entry
<1>1. h = Header(v, n, x) /\ h.seq = n /\ n \in Nat
    BY DEF IsHeader
<1> HIDE DEF v, n, x
<1>2. [Header(v, n, x) EXCEPT !.seq = @ + 1] = Header(v, n + 1, x)
    BY DEF Header
<1>3. [Header(v, n + 1, x) EXCEPT !.entry = e] = Header(v, n + 1, e)
    BY DEF Header
<1>4. r = [[h EXCEPT !.seq = @ + 1] EXCEPT !.entry = e]
    BY Zenon
<1>5. r = Header(v, n + 1, e)
    BY <1>1, <1>2, <1>3, <1>4, Zenon
<1>6. QED
    BY <1>5, Zenon DEF v, n

\* The header in force is found.
LEMMA KeptHeader ==
    ASSUME StoredCard
    PROVE  LoadCommitted(card, jrn.vault, jrn.anchor) = [result |-> "OK", found |-> CurrentHeader]
<1>1. CASE jrn.anchor = NoHeader
  <2> DEFINE good == {h \in {card.head[0], card.head[1]} : h.kind = "header" /\ h.vault = jrn.vault}
  <2>1. card.head[0] \in good /\ card.head[1] \notin good /\ card.head[0].seq \in Nat
      BY <1>1 DEF StoredCard, CurrentHeader, IsHeader, Blank
  <2> HIDE DEF good
  <2>2. Select(card.head, good) = [result |-> "OK", found |-> card.head[0]]
      BY <2>1, SelectOne
  <2>3. QED
      BY <1>1, <2>2 DEF LoadCommitted, HeaderLoad, CurrentHeader, good
<1>2. CASE jrn.anchor # NoHeader
    BY <1>2 DEF StoredCard, CurrentHeader, LoadCommitted, FindCommitted
<1>3. QED
    BY <1>1, <1>2

\* It is all that load_vault_header can return, and it returns it while the
\* roots are active.
LEMMA KeptLoads ==
    ASSUME StoredCard, jrn # NoRecord, NEW v
    PROVE  /\ LoadVaultHeader(otp, jrn, card, v).result = "OK" =>
                LoadVaultHeader(otp, jrn, card, v).found = CurrentHeader
           /\ RootsResult(otp) = "OK" /\ MediaLoad(card, jrn.vault).result = "OK" =>
                LoadVaultHeader(otp, jrn, card, jrn.vault).result = "OK"
           /\ LoadVaultHeader(otp, jrn, card, v).result = "OK" => MediaLoad(card, v).result = "OK"
<1>1. Anchor(jrn) = jrn.anchor
    BY DEF Anchor
<1>2. LoadCommitted(card, jrn.vault, jrn.anchor) = [result |-> "OK", found |-> CurrentHeader]
    BY KeptHeader
<1>3. \A x : MediaLoad(card, x).result = "OK" => MediaLoad(card, x).found.vault = jrn.vault
    BY MediaOfVault DEF StoredCard, SupersSound
<1>4. \A x : LoadVaultHeader(otp, jrn, card, x) =
               IF RootsResult(otp) # "OK" THEN [result |-> RootsResult(otp), found |-> NoHeader]
               ELSE IF MediaLoad(card, x).result # "OK" THEN [result |-> MediaLoad(card, x).result, found |-> NoHeader]
               ELSE LoadCommitted(card, MediaLoad(card, x).found.vault, jrn.anchor)
    BY <1>1 DEF LoadVaultHeader
<1>5. QED
    BY <1>2, <1>3, <1>4

\* The first header of a vault goes to a card without any.
LEMMA FirstSlot ==
    ASSUME CardInv, jrn = NoRecord, step = "header", ~Refused
    PROVE  StageSlot(card, Anchor(jrn), staged) = 0 /\ card.head[0] = Blank /\ card.head[1] = Blank
<1> DEFINE good == {h \in {card.head[0], card.head[1]} : h.kind = "header" /\ h.vault = staged.vault}
           old == HeaderLoad(card, staged.vault)
<1>1. Anchor(jrn) = NoHeader /\ SetupCard /\ staged.seq = 1
    BY DEF Anchor, CardInv, SetupCard, Rows
<1>2. \A i \in 0 .. 1 : card.head[i] \in good => card.head[i].seq = 1
    BY <1>1 DEF SetupCard, Blank, Garbage
<1> HIDE DEF good
<1>3. /\ old.result = "OK" => \E i \in 0 .. 1 : card.head[i] \in good /\ old.found = card.head[i]
      /\ old.result = "NOT_FOUND" => card.head[0] = Blank /\ card.head[1] = Blank
  <2>1. old = Select(card.head, good)
      BY DEF HeaderLoad, good
  <2>2. \A i \in 0 .. 1 : card.head[i] \in good => card.head[i].seq \in Nat
      BY <1>2
  <2> HIDE DEF old
  <2>3. QED
      BY <2>1, <2>2, SelectFinds
<1>4. old.result = "OK" => old.found.seq = 1
    BY <1>2, <1>3
<1>5. StageSlot(card, Anchor(jrn), staged) # -1
    BY DEF Refused
<1> HIDE DEF old
<1>6. StageSlot(card, Anchor(jrn), staged) =
        IF old.result = "OK" THEN (IF staged.seq = old.found.seq + 1 THEN old.found.seq % 2 ELSE -1)
        ELSE IF old.result = "NOT_FOUND" THEN (IF staged.seq = 1 THEN 0 ELSE -1)
        ELSE -1
    BY <1>1 DEF StageSlot, old
<1>7. old.result = "NOT_FOUND" /\ StageSlot(card, Anchor(jrn), staged) = 0
    BY <1>1, <1>4, <1>5, <1>6
<1>8. QED
    BY <1>3, <1>7

\* The next header does not go over the one that is anchored.
LEMMA StagedSlot ==
    ASSUME jrn # NoRecord, jrn.anchor # NoHeader, ~Refused
    PROVE  LET k == StageSlot(card, Anchor(jrn), staged)
           IN k \in 0 .. 1 /\ card.head[1 - k] = jrn.anchor
<1> DEFINE k == StageSlot(card, Anchor(jrn), staged)
           at == {i \in 0 .. 1 : card.head[i] = jrn.anchor /\ jrn.anchor.vault = staged.vault}
           low == CHOOSE i \in at : \A j \in at : i <= j
<1>1. Anchor(jrn) = jrn.anchor /\ k # -1
    BY DEF Anchor, Refused
<1>2. k = 1 - low /\ at # {}
    BY <1>1 DEF StageSlot
<1>3. low \in at
  <2>1. \E i \in at : \A j \in at : i <= j
      BY <1>2
  <2> HIDE DEF at
  <2>2. QED
      BY <2>1
<1>4. low \in 0 .. 1 /\ card.head[low] = jrn.anchor
    BY <1>3
<1> HIDE DEF k, low
<1>5. k \in 0 .. 1 /\ 1 - k = low
    BY <1>2, <1>4
<1>6. QED
    BY <1>4, <1>5 DEF k

\* A slot or a superblock is written, the rest of the card stays.
LEMMA HeadWritten ==
    ASSUME CardShape, NEW k \in 0 .. 1, NEW w, card' = [card EXCEPT !.head[k] = w]
    PROVE  /\ CardShape' /\ card'.super = card.super /\ card'.head[k] = w
           /\ \A i \in (0 .. 1) \ {k} : card'.head[i] = card.head[i]
BY DEF CardShape

\* So with a superblock.
LEMMA SuperWritten ==
    ASSUME CardShape, NEW k \in 0 .. 1, NEW w, card' = [card EXCEPT !.super[k] = w]
    PROVE  /\ CardShape' /\ card'.head = card.head /\ card'.super[k] = w
           /\ \A i \in (0 .. 1) \ {k} : card'.super[i] = card.super[i]
BY DEF CardShape

\* What is on record when no change of credential goes on.
LEMMA RecordRests ==
    ASSUME CardShape', step' \notin Rows \cup Changing,
           IF jrn' = NoRecord
           THEN \A i \in 0 .. 1 : card'.head[i] \in {Blank, Garbage} \/ (IsHeader(card'.head[i]) /\ card'.head[i].seq = 1)
           ELSE /\ jrn' = Record(jrn'.seq, jrn'.attempts, jrn'.vault, jrn'.anchor)
                /\ SupersSound' /\ IsHeader(CurrentHeader') /\ CurrentHeader'.vault = jrn'.vault
                /\ IF jrn'.anchor = NoHeader THEN card'.head[1] = Blank
                   ELSE \E i \in 0 .. 1 : card'.head[i] = jrn'.anchor
    PROVE  CardInv'
BY DEF CardShape, CardInv, SetupCard, StoredCard, Rows, Changing

\* The superblocks stay, and setup is told of its record only when one is found.
LEMMA SupersStay ==
    ASSUME SupersSound, card'.super = card.super, jrn'.vault = jrn.vault,
           ~disowned' => ~disowned \/ MediaLoad(card, jrn.vault).result = "OK"
    PROVE  SupersSound'
<1>1. MediaLoad(card', jrn'.vault) = MediaLoad(card, jrn.vault)
    BY DEF MediaLoad
<1>2. QED
    BY <1>1 DEF SupersSound

\* A step that writes neither the card nor the journal.
LEMMA CardRests ==
    ASSUME CardInv, UNCHANGED <<jrn, card>>, step' = "" \/ UNCHANGED <<step, staged, vid, otp>>,
           ~disowned' => ~disowned \/ jrn = NoRecord \/ MediaLoad(card, jrn.vault).result = "OK"
    PROVE  CardInv'
<1>1. StoredCard /\ jrn # NoRecord => SupersSound'
    BY SupersStay DEF StoredCard
<1>2. CASE UNCHANGED <<step, staged, vid, otp>>
  <2>1. /\ CardShape' = CardShape /\ SetupCard' = SetupCard /\ CurrentHeader' = CurrentHeader
        /\ LoadVaultHeader(otp, jrn, card, vid)' = LoadVaultHeader(otp, jrn, card, vid)
      BY <1>2, Zenon DEF CardShape, SetupCard, CurrentHeader
  <2>2. StoredCard /\ jrn # NoRecord => StoredCard'
      BY <1>1, <1>2, <2>1 DEF StoredCard
  <2>3. QED
      BY <1>2, <2>1, <2>2 DEF CardInv
<1>3. CASE step' = ""
  <2>1. CardShape' /\ CurrentHeader' = CurrentHeader /\ step' \notin Rows \cup Changing
      BY <1>3 DEF CardInv, CardShape, CurrentHeader, Rows, Changing
  <2>2. CASE jrn = NoRecord
      BY <2>1, <2>2, RecordRests DEF CardInv, SetupCard
  <2>3. CASE jrn # NoRecord
      BY <1>1, <2>1, <2>3, RecordRests DEF CardInv, StoredCard
  <2>4. QED
      BY <2>2, <2>3
<1>4. QED
    BY <1>2, <1>3

-----------------------------------------------------------------------------
(* The card, step by step *)

\* A command that ends leaves nothing half done.
LEMMA Ends == (\E e : Answer(e)) \/ Broken \/ Done \/ (\E out : Finish(out)) => step' = "" /\ step' \notin Rows \cup Changing
BY DEF Answer, Broken, Done, Finish, Rows, Changing

\* A superblock that is written, or torn, belongs to a setup.
LEMMA SuperTorn ==
    ASSUME CardInv, RoundSound, step \in {"super0", "super1"}, NEW k \in 0 .. 1, NEW w, card' = [card EXCEPT !.super[k] = w],
           UNCHANGED jrn, step' \notin Rows \cup Changing
    PROVE  CardInv'
<1>1. jrn = NoRecord
    BY DEF RoundSound, Rows
<1>2. CardShape' /\ card'.head = card.head
    BY SuperWritten DEF CardInv
<1>3. SetupCard
    BY <1>1 DEF CardInv
<1>4. \A i \in 0 .. 1 : card'.head[i] \in {Blank, Garbage} \/ (IsHeader(card'.head[i]) /\ card'.head[i].seq = 1)
    BY <1>2, <1>3 DEF SetupCard
<1>5. QED
    BY <1>1, <1>2, <1>4, RecordRests

\* A header that is written, or torn, does not touch the one in force.
LEMMA HeadTorn ==
    ASSUME CardInv, RoundSound, step \in {"header", "stage"}, ~Refused,
           NEW w \in Torn(card.head[StageSlot(card, Anchor(jrn), staged)], staged),
           card' = [card EXCEPT !.head[StageSlot(card, Anchor(jrn), staged)] = w],
           UNCHANGED <<jrn, disowned>>, step' \notin Rows \cup Changing
    PROVE  CardInv'
<1> DEFINE k == StageSlot(card, Anchor(jrn), staged)
<1>1. CASE step = "header"
  <2>1. jrn = NoRecord
      BY <1>1 DEF RoundSound, Rows
  <2>2. k = 0 /\ card.head[0] = Blank /\ card.head[1] = Blank
      BY <1>1, <2>1, FirstSlot
  <2>3. IsHeader(staged) /\ staged.seq = 1
      BY <1>1, <2>1 DEF CardInv, SetupCard, Rows
  <2>4. w \in {Blank, Garbage, staged}
      BY <2>2 DEF Torn
  <2> HIDE DEF k
  <2>5. card' = [card EXCEPT !.head[0] = w]
      BY <2>2 DEF k
  <2>6. CardShape' /\ card'.head[0] = w /\ card'.head[1] = Blank
      BY <2>2, <2>5, HeadWritten DEF CardInv
  <2>7. \A i \in 0 .. 1 : card'.head[i] \in {Blank, Garbage} \/ (IsHeader(card'.head[i]) /\ card'.head[i].seq = 1)
      BY <2>3, <2>4, <2>6
  <2>8. QED
      BY <2>1, <2>6, <2>7, RecordRests
<1>2. CASE step = "stage"
  <2>1. jrn # NoRecord /\ StoredCard /\ jrn.anchor # NoHeader
      BY <1>2 DEF CardInv, StoredCard, Changing
  <2>2. k \in 0 .. 1 /\ card.head[1 - k] = jrn.anchor
      BY <2>1, StagedSlot
  <2> HIDE DEF k
  <2>3. card' = [card EXCEPT !.head[k] = w] /\ 1 - k \in (0 .. 1) \ {k}
      BY <2>2 DEF k
  <2>4. CardShape' /\ card'.super = card.super /\ card'.head[1 - k] = jrn.anchor
      BY <2>2, <2>3, HeadWritten DEF CardInv
  <2>5. CurrentHeader' = CurrentHeader
      BY <2>1 DEF CurrentHeader
  <2>6. \E i \in 0 .. 1 : card'.head[i] = jrn'.anchor
      BY <2>3, <2>4
  <2>7. SupersSound'
      BY <2>1, <2>4, SupersStay DEF StoredCard
  <2>8. QED
      BY <2>1, <2>4, <2>5, <2>6, <2>7, RecordRests DEF StoredCard
<1>3. QED
    BY <1>1, <1>2

\* A card is prepared for a device without a record, or whose setup was told that there is none.
LEMMA MediaPrepared ==
    ASSUME CardInv, RoundSound, EarlyInv, Doing("PREPARE"), NEW w, DOMAIN w = 0 .. 1,
           \A i \in 0 .. 1 : w[i] \in {card.super[i], Blank, Garbage}, card' = [card EXCEPT !.super = w],
           UNCHANGED <<jrn, disowned>>, step' \notin Rows \cup Changing
    PROVE  CardInv'
<1>1. "PREPARE" \in Task
    BY DEF Task
<1>2. cmds = {"PREPARE"} /\ On
    BY <1>1, TaskAlone
<1>3. jrn = NoRecord \/ disowned
    BY <1>2 DEF EarlyInv, EarlySound, Acknowledged
<1>4. CardShape' /\ card'.head = card.head /\ card'.super = w
    BY DEF CardInv, CardShape
<1>5. CASE jrn = NoRecord
  <2>1. SetupCard
      BY <1>5 DEF CardInv
  <2>2. \A i \in 0 .. 1 : card'.head[i] \in {Blank, Garbage} \/ (IsHeader(card'.head[i]) /\ card'.head[i].seq = 1)
      BY <1>4, <2>1 DEF SetupCard
  <2>3. QED
      BY <1>4, <1>5, <2>2, RecordRests
<1>6. CASE jrn # NoRecord /\ disowned
  <2>1. StoredCard
      BY <1>6 DEF CardInv
  <2>2. SupersSound'
    <3>1. \A i \in 0 .. 1 : card.super[i] \in {Super(jrn.vault, i + 1), Blank, Garbage}
        BY <2>1 DEF StoredCard, SupersSound
    <3>2. \A i \in 0 .. 1 : card'.super[i] \in {Super(jrn'.vault, i + 1), Blank, Garbage}
        BY <1>4, <3>1
    <3>3. QED
        BY <1>6, <3>2 DEF SupersSound
  <2>3. CurrentHeader' = CurrentHeader
      BY <1>4 DEF CurrentHeader
  <2>4. QED
      BY <1>4, <1>6, <2>1, <2>2, <2>3, RecordRests DEF StoredCard
<1>7. QED
    BY <1>3, <1>5, <1>6

\* The power goes, between two writes or in the middle of one.
LEMMA CardCut == GuessInv /\ EarlyInv /\ CardInv /\ Cut => CardInv'
<1> SUFFICES ASSUME GuessInv, EarlyInv, CardInv, Cut
             PROVE  CardInv'
    OBVIOUS
<1>1. RoundSound /\ step' = "" /\ step' \notin Rows \cup Changing /\ Tearing /\ UNCHANGED disowned
    BY DEF GuessInv, Cut, Rows, Changing
<1>2. CASE UNCHANGED <<jrn, card>>
    BY <1>1, <1>2, CardRests
<1>3. CASE /\ step \in {"super0", "super1"} /\ UNCHANGED jrn
           /\ \E w : card' = [card EXCEPT !.super[IF step = "super0" THEN 0 ELSE 1] = w]
  <2> DEFINE k == IF step = "super0" THEN 0 ELSE 1
  <2>1. PICK w : card' = [card EXCEPT !.super[k] = w]
      BY <1>3
  <2>2. k \in 0 .. 1
      OBVIOUS
  <2> HIDE DEF k
  <2>3. QED
      BY <1>1, <1>3, <2>1, <2>2, SuperTorn
<1>4. CASE /\ step \in {"header", "stage"} /\ ~Refused /\ UNCHANGED jrn
           /\ \E w \in Torn(card.head[StageSlot(card, Anchor(jrn), staged)], staged) :
                card' = [card EXCEPT !.head[StageSlot(card, Anchor(jrn), staged)] = w]
    BY <1>1, <1>4, HeadTorn
<1>5. CASE /\ Doing("PREPARE") /\ UNCHANGED jrn
           /\ \E w : /\ DOMAIN w = 0 .. 1 /\ card' = [card EXCEPT !.super = w]
                 /\ \A i \in 0 .. 1 : w[i] \in {card.super[i], Blank, Garbage}
    BY <1>1, <1>5, MediaPrepared
<1>6. \/ UNCHANGED <<jrn, card>>
      \/ /\ step \in {"super0", "super1"} /\ UNCHANGED jrn
         /\ \E w : card' = [card EXCEPT !.super[IF step = "super0" THEN 0 ELSE 1] = w]
      \/ /\ step \in {"header", "stage"} /\ ~Refused /\ UNCHANGED jrn
         /\ \E w \in Torn(card.head[StageSlot(card, Anchor(jrn), staged)], staged) :
              card' = [card EXCEPT !.head[StageSlot(card, Anchor(jrn), staged)] = w]
      \/ /\ Doing("PREPARE") /\ UNCHANGED jrn
         /\ \E w : /\ DOMAIN w = 0 .. 1 /\ card' = [card EXCEPT !.super = w]
                 /\ \A i \in 0 .. 1 : w[i] \in {card.super[i], Blank, Garbage}
    BY <1>1 DEF Tearing, Torn, durable, Refused
<1>7. QED
    BY <1>2, <1>3, <1>4, <1>5, <1>6

\* A step of the setup that does not write the card.
LEMMA SetupWorks ==
    ASSUME CardInv, jrn = NoRecord, UNCHANGED <<jrn, card>>, step' \in {"rows", "format", "active", "vault", "super0"},
           IsHeader(staged'), staged'.seq = 1
    PROVE  CardInv'
BY DEF CardInv, CardShape, SetupCard, Rows, Changing

\* The setup, up to the card.
LEMMA CardSetup ==
    GuessInv /\ GuessInv' /\ CardInv /\ (ProvisionStart \/ ProvisionRoots \/ ProvisionVault) => CardInv'
<1> SUFFICES ASSUME GuessInv, GuessInv', CardInv, ProvisionStart \/ ProvisionRoots \/ ProvisionVault
             PROVE  CardInv'
    OBVIOUS
<1> USE DEF durable
<1>1. UNCHANGED <<jrn, card, disowned>> /\ (step \in Rows => jrn = NoRecord) /\ (step' \in Rows => jrn' = NoRecord)
    BY DEF ProvisionStart, ProvisionRoots, ProvisionVault, GuessInv, RoundSound
<1>2. CASE \E e : Answer(e)
    BY <1>1, <1>2, Ends, CardRests
<1>3. step \in Rows => IsHeader(staged) /\ staged.seq = 1
    BY <1>1 DEF CardInv, SetupCard
<1>4. CASE ProvisionStart /\ step' \in {"rows", "vault"} /\ staged' = Header(NoVault, 1, app.setup)
  <2>1. jrn = NoRecord
      BY <1>1, <1>4 DEF Rows
  <2>2. IsHeader(staged') /\ staged'.seq = 1
      BY <1>4, HeaderFields
  <2>3. QED
      BY <1>1, <1>4, <2>1, <2>2, SetupWorks
<1>5. CASE step \in Rows /\ step' \in {"format", "active", "vault"} /\ UNCHANGED staged
    BY <1>1, <1>3, <1>5, SetupWorks
<1>6. CASE step \in Rows /\ step' = "super0" /\ staged' = [staged EXCEPT !.vault = Fresh]
  <2>1. staged = Header(staged.vault, staged.seq, staged.entry) /\ staged.seq = 1
      BY <1>3, <1>6 DEF IsHeader
  <2>2. staged' = Header(Fresh, 1, staged.entry)
      BY <1>6, <2>1 DEF Header
  <2>3. IsHeader(staged') /\ staged'.seq = 1
      BY <2>2, HeaderFields
  <2>4. QED
      BY <1>1, <1>6, <2>3, SetupWorks
<1>7. ProvisionStart => (\E e : Answer(e)) \/ (step' \in {"rows", "vault"} /\ staged' = Header(NoVault, 1, app.setup))
    BY DEF ProvisionStart, SetupFails, Working
<1>8. ProvisionRoots => step \in Rows
                        /\ ((\E e : Answer(e)) \/ (step' \in {"format", "active", "vault"} /\ UNCHANGED staged))
    BY DEF ProvisionRoots, RootsProve, SetupFails, Working, Rows
<1>9. ProvisionVault => step \in Rows
                        /\ ((\E e : Answer(e)) \/ (step' = "super0" /\ staged' = [staged EXCEPT !.vault = Fresh]))
    BY DEF ProvisionVault, SetupFails, Working, Rows
<1>10. QED
    BY <1>2, <1>4, <1>5, <1>6, <1>7, <1>8, <1>9

\* The superblocks.
LEMMA CardSuper == GuessInv /\ CardInv /\ ProvisionSuper => CardInv'
<1> SUFFICES ASSUME GuessInv, CardInv, ProvisionSuper
             PROVE  CardInv'
    OBVIOUS
<1> DEFINE k == IF step = "super0" THEN 0 ELSE 1
<1>1. k \in 0 .. 1 /\ step \in {"super0", "super1"} /\ UNCHANGED <<jrn, vid>>
    BY DEF ProvisionSuper
<1>2. RoundSound /\ jrn = NoRecord /\ SetupCard /\ IsHeader(staged) /\ staged.seq = 1
    BY <1>1 DEF GuessInv, RoundSound, CardInv, SetupCard, Rows
<1>3. CASE SetupFails /\ \E w : card' = [card EXCEPT !.super[k] = w]
  <2>1. step' \notin Rows \cup Changing
      BY <1>3, Ends DEF SetupFails
  <2> HIDE DEF k
  <2>2. QED
      BY <1>1, <1>2, <1>3, <2>1, SuperTorn
<1>4. CASE /\ card' = [card EXCEPT !.super[k] = Super(staged.vault, k + 1)] /\ UNCHANGED staged
           /\ Working(IF k = 0 THEN "super1" ELSE "header")
  <2>1. /\ CardShape' /\ card'.head = card.head /\ card'.super[k] = Super(staged.vault, k + 1)
        /\ \A i \in (0 .. 1) \ {k} : card'.super[i] = card.super[i]
    <3> HIDE DEF k
    <3>1. QED
        BY <1>1, <1>4, SuperWritten DEF CardInv
  <2>2. CASE step = "super0"
    <3>1. step' = "super1" /\ card'.super[0] = Super(staged.vault, 1)
        BY <1>4, <2>1, <2>2 DEF Working
    <3>2. QED
        BY <1>1, <1>2, <1>4, <2>1, <3>1 DEF CardInv, SetupCard, Rows, Changing
  <2>3. CASE step = "super1"
    <3>1. step' = "header" /\ card'.super[1] = Super(staged.vault, 2) /\ card'.super[0] = Super(staged.vault, 1)
        BY <1>2, <1>4, <2>1, <2>3 DEF Working, SetupCard
    <3>2. QED
        BY <1>1, <1>2, <1>4, <2>1, <3>1 DEF CardInv, SetupCard, Rows, Changing
  <2>4. QED
      BY <1>1, <2>2, <2>3
<1>5. QED
    BY <1>3, <1>4 DEF ProvisionSuper

\* The first header.
LEMMA CardHeader == GuessInv /\ CardInv /\ ProvisionHeader => CardInv'
<1> SUFFICES ASSUME GuessInv, CardInv, ProvisionHeader
             PROVE  CardInv'
    OBVIOUS
<1>1. step = "header" /\ UNCHANGED <<jrn, disowned>>
    BY DEF ProvisionHeader
<1>2. RoundSound /\ jrn = NoRecord /\ SetupCard /\ IsHeader(staged) /\ staged.seq = 1
    BY <1>1 DEF GuessInv, RoundSound, CardInv, SetupCard, Rows
<1>3. CASE SetupFails /\ UNCHANGED card
    BY <1>1, <1>3, Ends, CardRests DEF SetupFails
<1>4. CASE ~Refused /\ SetupFails /\ (StageTorn \/ StageWrite)
  <2>1. step' \notin Rows \cup Changing
      BY <1>4, Ends DEF SetupFails
  <2>2. \E w \in Torn(card.head[StageSlot(card, Anchor(jrn), staged)], staged) :
          card' = [card EXCEPT !.head[StageSlot(card, Anchor(jrn), staged)] = w]
      BY <1>4 DEF StageTorn, StageWrite, Torn
  <2>3. QED
      BY <1>1, <1>2, <1>4, <2>1, <2>2, HeadTorn
<1>5. CASE ~Refused /\ StageWrite /\ vid' = staged.vault /\ Working("journal") /\ UNCHANGED staged
  <2>1. StageSlot(card, Anchor(jrn), staged) = 0 /\ card.head[1] = Blank
      BY <1>1, <1>2, <1>5, FirstSlot
  <2>2. card' = [card EXCEPT !.head[0] = staged]
      BY <1>5, <2>1 DEF StageWrite
  <2>3. CardShape' /\ card'.super = card.super /\ card'.head[0] = staged /\ card'.head[1] = Blank
      BY <2>1, <2>2, HeadWritten DEF CardInv
  <2>4. card.super[0] = Super(staged.vault, 1) /\ card.super[1] = Super(staged.vault, 2)
      BY <1>1, <1>2 DEF SetupCard
  <2>5. step' = "journal"
      BY <1>5 DEF Working
  <2>6. \A i \in 0 .. 1 : card'.head[i] \in {Blank, Garbage} \/ (IsHeader(card'.head[i]) /\ card'.head[i].seq = 1)
      BY <1>2, <2>3
  <2>7. QED
      BY <1>1, <1>2, <1>5, <2>3, <2>4, <2>5, <2>6 DEF CardInv, SetupCard, Rows, Changing
<1>6. QED
    BY <1>3, <1>4, <1>5 DEF ProvisionHeader

\* A record that keeps the anchor and the vault.
LEMMA RecordFields ==
    ASSUME NEW n, NEW a, NEW v, NEW h
    PROVE  /\ Record(n, a, v, h).seq = n /\ Record(n, a, v, h).attempts = a /\ Record(n, a, v, h).vault = v
           /\ Record(n, a, v, h).anchor = h /\ Record(n, a, v, h) # NoRecord
BY DEF Record, NoRecord

\* The record that ends the setup.
LEMMA CardRecord == GuessInv /\ CardInv /\ ProvisionState => CardInv'
<1> SUFFICES ASSUME GuessInv, CardInv, ProvisionState
             PROVE  CardInv'
    OBVIOUS
<1>1. step = "journal" /\ UNCHANGED card /\ step' = "" /\ step' \notin Rows \cup Changing
    BY Ends DEF ProvisionState, SetupFails
<1>2. CASE UNCHANGED <<jrn, disowned>>
    BY <1>1, <1>2, CardRests
<1>3. CASE jrn' = Record(1, 0, vid, NoHeader)
  <2>1. SetupCard
      BY <1>1 DEF GuessInv, RoundSound, CardInv, Rows
  <2>2. /\ IsHeader(staged) /\ vid = staged.vault /\ card.head[0] = staged /\ card.head[1] = Blank
        /\ card.super[0] = Super(staged.vault, 1) /\ card.super[1] = Super(staged.vault, 2)
      BY <1>1, <2>1 DEF SetupCard, Rows
  <2>3. /\ jrn' = Record(jrn'.seq, jrn'.attempts, jrn'.vault, jrn'.anchor) /\ jrn'.vault = vid /\ jrn'.anchor = NoHeader
        /\ jrn' # NoRecord
      BY <1>3, RecordFields
  <2>4. CurrentHeader' = staged
      BY <1>1, <2>2, <2>3 DEF CurrentHeader
  <2>5. CardShape'
      BY <1>1 DEF CardInv, CardShape
  <2>6. SupersSound'
    <3>1. MediaLoad(card', jrn'.vault).result = "OK"
        BY <1>1, <2>2, <2>3, MediaKept
    <3>2. card'.super[0] = Super(jrn'.vault, 1) /\ card'.super[1] = Super(jrn'.vault, 2)
        BY <1>1, <2>2, <2>3
    <3>3. \A i \in 0 .. 1 : card'.super[i] = Super(jrn'.vault, i + 1)
      <4>1. SUFFICES ASSUME NEW i \in 0 .. 1
                     PROVE  card'.super[i] = Super(jrn'.vault, i + 1)
          OBVIOUS
      <4>2. CASE i = 0
          BY <3>2, <4>2
      <4>3. CASE i = 1
          BY <3>2, <4>3
      <4>4. QED
          BY <4>2, <4>3
    <3>4. QED
        BY <3>1, <3>3 DEF SupersSound
  <2>7. QED
      BY <1>1, <2>2, <2>3, <2>4, <2>5, <2>6, RecordRests
<1>4. QED
    BY <1>2, <1>3 DEF ProvisionState

\* An attempt on record.
LEMMA CardAttempt == CardInv /\ StoreAttempt => CardInv'
<1> SUFFICES ASSUME CardInv, StoreAttempt
             PROVE  CardInv'
    OBVIOUS
<1>1. UNCHANGED <<card, disowned>> /\ step' = "" /\ step' \notin Rows \cup Changing
    BY Ends DEF StoreAttempt
<1>2. CASE UNCHANGED jrn
    BY <1>1, <1>2, CardRests
<1>3. CASE StateResult(otp, jrn) = "OK" /\ jrn' = [jrn EXCEPT !.seq = @ + 1, !.attempts = app.attempts]
  <2>1. jrn # NoRecord
      BY <1>3 DEF StateResult
  <2>2. StoredCard
      BY <2>1 DEF CardInv
  <2>3. jrn' = Record(jrn.seq + 1, app.attempts, jrn.vault, jrn.anchor)
      BY <1>3, <2>2 DEF StoredCard, Record
  <2>4. /\ jrn' = Record(jrn'.seq, jrn'.attempts, jrn'.vault, jrn'.anchor) /\ jrn'.vault = jrn.vault
        /\ jrn'.anchor = jrn.anchor /\ jrn' # NoRecord
      BY <2>3, RecordFields
  <2>5. CurrentHeader' = CurrentHeader /\ CardShape'
      BY <1>1, <2>4 DEF CurrentHeader, CardInv, CardShape
  <2>6. SupersSound'
      BY <1>1, <2>2, <2>4, SupersStay DEF StoredCard
  <2>7. QED
      BY <1>1, <2>2, <2>4, <2>5, <2>6, RecordRests DEF StoredCard
<1>4. QED
    BY <1>2, <1>3 DEF StoreAttempt

\* A change of the credential begins with the header in force.
LEMMA CardChange == GuessInv /\ CardInv /\ ChangeStart => CardInv'
<1> SUFFICES ASSUME GuessInv, CardInv, ChangeStart
             PROVE  CardInv'
    OBVIOUS
<1> USE DEF durable
<1>1. Doing("CHANGE") /\ UNCHANGED <<otp, jrn, card, vid, disowned>> /\ "CHANGE" \in Task
    BY DEF ChangeStart, Task
<1>2. jrn # NoRecord
  <2>1. RoundSound /\ cmds = {"CHANGE"} /\ On
      BY <1>1, TaskAlone DEF GuessInv
  <2>2. QED
      BY <2>1 DEF GuessInv, Counts, OnRecord
<1>3. CASE Broken
    BY <1>1, <1>3, Ends, CardRests
<1> DEFINE header == LoadVaultHeader(otp, jrn, card, vid)
<1>4. CASE /\ header.result = "OK" /\ Working(IF jrn.anchor = NoHeader THEN "anchor" ELSE "stage")
           /\ staged' = [header.found EXCEPT !.seq = @ + 1, !.entry = app.change]
  <2>1. StoredCard
      BY <1>2 DEF CardInv
  <2>2. header.found = CurrentHeader
      BY <1>2, <1>4, <2>1, KeptLoads
  <2>3. IsHeader(CurrentHeader) /\ CurrentHeader.vault = jrn.vault
      BY <2>1 DEF StoredCard
  <2>4. header.result = "OK" /\ staged' = [CurrentHeader EXCEPT !.seq = @ + 1, !.entry = app.change]
      BY <1>4, <2>2
  <2> DEFINE h == CurrentHeader
  <2>5. staged' = Header(jrn.vault, h.seq + 1, app.change) /\ h.seq + 1 \in Nat
    <3>1. IsHeader(h) /\ h.vault = jrn.vault /\ h.seq \in Nat
        BY <2>3 DEF IsHeader
    <3>2. staged' = [h EXCEPT !.seq = @ + 1, !.entry = app.change]
        BY <2>4
    <3> HIDE DEF h
    <3>3. staged' = Header(h.vault, h.seq + 1, app.change)
        BY <3>1, <3>2, HeaderAfter, Zenon
    <3>4. QED
        BY <3>1, <3>3
  <2>6. IsHeader(staged') /\ staged'.vault = jrn.vault
      BY <2>5, HeaderFields
  <2>7. step' = IF jrn.anchor = NoHeader THEN "anchor" ELSE "stage"
      BY <1>4 DEF Working
  <2> HIDE DEF h
  <2>8. CurrentHeader' = CurrentHeader /\ LoadVaultHeader(otp, jrn, card, vid)' = header
      BY <1>1 DEF CurrentHeader
  <2>9. SupersSound'
      BY <1>1, <2>1, SupersStay DEF StoredCard
  <2>10. StoredCard'
      BY <1>1, <2>1, <2>4, <2>6, <2>7, <2>8, <2>9 DEF StoredCard
  <2>11. QED
      BY <1>1, <1>2, <2>10 DEF CardInv, CardShape
<1>5. QED
    BY <1>3, <1>4 DEF ChangeStart

\* The header in force is anchored, or the anchor moves to the next one.
LEMMA CardAnchor == GuessInv /\ CardInv /\ ChangeJournal => CardInv'
<1> SUFFICES ASSUME GuessInv, CardInv, ChangeJournal
             PROVE  CardInv'
    OBVIOUS
<1>1. UNCHANGED <<otp, card, vid, disowned>> /\ step \in {"anchor", "commit"} /\ jrn # NoRecord
    BY DEF ChangeJournal, CardInv, Changing
<1>2. CASE Broken /\ UNCHANGED jrn
    BY <1>1, <1>2, Ends, CardRests
<1> DEFINE head == IF step = "commit" THEN staged ELSE LoadVaultHeader(otp, jrn, card, vid).found
<1>3. StoredCard
    BY <1>1 DEF CardInv
<1>4. IsHeader(staged) /\ staged.vault = jrn.vault
    BY <1>1, <1>3 DEF StoredCard
<1>5. IsHeader(head) /\ head.vault = jrn.vault /\ \E i \in 0 .. 1 : card.head[i] = head
  <2>1. CASE step = "commit"
      BY <1>3, <1>4, <2>1 DEF StoredCard
  <2>2. CASE step = "anchor"
    <3>1. jrn.anchor = NoHeader /\ LoadVaultHeader(otp, jrn, card, vid).result = "OK"
        BY <1>3, <2>2 DEF StoredCard
    <3>2. head = CurrentHeader
        BY <1>1, <1>3, <2>2, <3>1, KeptLoads
    <3>3. CurrentHeader = card.head[0]
        BY <3>1 DEF CurrentHeader
    <3>4. IsHeader(CurrentHeader) /\ CurrentHeader.vault = jrn.vault
        BY <1>3 DEF StoredCard
    <3> HIDE DEF head
    <3>5. QED
        BY <3>2, <3>3, <3>4
  <2>3. QED
      BY <1>1, <2>1, <2>2
<1>6. ASSUME jrn' = [jrn EXCEPT !.seq = @ + 1, !.anchor = head]
      PROVE  /\ jrn' = Record(jrn'.seq, jrn'.attempts, jrn'.vault, jrn'.anchor) /\ jrn'.vault = jrn.vault
             /\ jrn'.anchor = head /\ head # NoHeader /\ jrn' # NoRecord /\ CurrentHeader' = head /\ SupersSound'
  <2> HIDE DEF head
  <2>1. head # NoHeader
      BY <1>5 DEF IsHeader, NoHeader
  <2>2. jrn' = Record(jrn.seq + 1, jrn.attempts, jrn.vault, head)
      BY <1>3, <1>6 DEF StoredCard, Record
  <2>3. /\ jrn' = Record(jrn'.seq, jrn'.attempts, jrn'.vault, jrn'.anchor) /\ jrn'.vault = jrn.vault
        /\ jrn'.anchor = head /\ jrn' # NoRecord
      BY <2>2, RecordFields
  <2>4. CurrentHeader' = head
      BY <2>1, <2>3 DEF CurrentHeader
  <2>5. SupersSound'
      BY <1>1, <1>3, <2>3, SupersStay DEF StoredCard
  <2>6. QED
      BY <2>1, <2>3, <2>4, <2>5
<1>7. CASE /\ jrn' = [jrn EXCEPT !.seq = @ + 1, !.anchor = head] /\ UNCHANGED staged
           /\ Working(IF step = "anchor" THEN "stage" ELSE "verify")
  <2>1. step' \in {"stage", "verify"}
      BY <1>7 DEF Working
  <2>2. /\ jrn' = Record(jrn'.seq, jrn'.attempts, jrn'.vault, jrn'.anchor) /\ jrn'.vault = jrn.vault
        /\ jrn'.anchor = head /\ head # NoHeader /\ jrn' # NoRecord /\ CurrentHeader' = head /\ SupersSound'
      BY <1>6, <1>7
  <2> HIDE DEF head
  <2>3. StoredCard'
      BY <1>1, <1>4, <1>5, <1>7, <2>1, <2>2 DEF StoredCard
  <2>4. QED
      BY <1>1, <2>2, <2>3 DEF CardInv, CardShape
<1>8. CASE jrn' = [jrn EXCEPT !.seq = @ + 1, !.anchor = head] /\ Broken
  <2>1. CardShape' /\ step' \notin Rows \cup Changing
      BY <1>1, <1>8, Ends DEF CardInv, CardShape
  <2>2. /\ jrn' = Record(jrn'.seq, jrn'.attempts, jrn'.vault, jrn'.anchor) /\ jrn'.vault = jrn.vault
        /\ jrn'.anchor = head /\ head # NoHeader /\ jrn' # NoRecord /\ CurrentHeader' = head /\ SupersSound'
      BY <1>6, <1>8
  <2> HIDE DEF head
  <2>3. \E i \in 0 .. 1 : card'.head[i] = jrn'.anchor
      BY <1>1, <1>5, <2>2
  <2>4. QED
      BY <1>5, <2>1, <2>2, <2>3, RecordRests
<1>9. QED
    BY <1>2, <1>7, <1>8 DEF ChangeJournal

\* The next header.
LEMMA CardStage == GuessInv /\ CardInv /\ ChangeStage => CardInv'
<1> SUFFICES ASSUME GuessInv, CardInv, ChangeStage
             PROVE  CardInv'
    OBVIOUS
<1>1. step = "stage" /\ UNCHANGED <<jrn, otp, vid, disowned>> /\ RoundSound
    BY DEF ChangeStage, GuessInv
<1>2. jrn # NoRecord /\ StoredCard /\ jrn.anchor # NoHeader
    BY <1>1 DEF CardInv, StoredCard, Changing
<1>3. CASE Broken /\ UNCHANGED card
    BY <1>1, <1>3, Ends, CardRests
<1>4. CASE ~Refused /\ Broken /\ StageTorn
  <2>1. step' \notin Rows \cup Changing
      BY <1>4, Ends
  <2>2. QED
      BY <1>1, <1>4, <2>1, HeadTorn DEF StageTorn
<1>5. CASE ~Refused /\ StageWrite /\ Working("commit") /\ UNCHANGED staged
  <2> DEFINE k == StageSlot(card, Anchor(jrn), staged)
  <2>1. k \in 0 .. 1 /\ card.head[1 - k] = jrn.anchor
      BY <1>2, <1>5, StagedSlot
  <2>2. card' = [card EXCEPT !.head[k] = staged]
      BY <1>5 DEF StageWrite
  <2> HIDE DEF k
  <2>3. /\ CardShape' /\ card'.super = card.super /\ card'.head[k] = staged
        /\ \A i \in (0 .. 1) \ {k} : card'.head[i] = card.head[i]
      BY <2>1, <2>2, HeadWritten DEF CardInv
  <2>4. card'.head[1 - k] = jrn.anchor /\ 1 - k \in 0 .. 1
      BY <2>1, <2>3
  <2>5. CurrentHeader' = CurrentHeader
      BY <1>1, <1>2 DEF CurrentHeader
  <2>6. step' = "commit"
      BY <1>5 DEF Working
  <2>7. IsHeader(staged) /\ staged.vault = jrn.vault
      BY <1>1, <1>2 DEF StoredCard
  <2>8. SupersSound'
      BY <1>1, <1>2, <2>3, SupersStay DEF StoredCard
  <2>9. StoredCard'
      BY <1>1, <1>2, <1>5, <2>1, <2>3, <2>4, <2>5, <2>6, <2>7, <2>8 DEF StoredCard
  <2>10. QED
      BY <1>1, <1>2, <2>3, <2>9 DEF CardInv
<1>6. QED
    BY <1>3, <1>4, <1>5 DEF ChangeStage

\* The card is prepared for a setup.
LEMMA CardPrepared == GuessInv /\ EarlyInv /\ CardInv /\ PrepareMedia => CardInv'
<1> SUFFICES ASSUME GuessInv, EarlyInv, CardInv, PrepareMedia
             PROVE  CardInv'
    OBVIOUS
<1>1. Doing("PREPARE") /\ UNCHANGED <<jrn, disowned>> /\ RoundSound /\ step' = "" /\ step' \notin Rows \cup Changing
    BY Ends DEF PrepareMedia, GuessInv
<1>2. CASE UNCHANGED card
    BY <1>1, <1>2, CardRests
<1>3. CASE card' = [card EXCEPT !.super = [i \in 0 .. 1 |-> Blank]]
    BY <1>1, <1>3, MediaPrepared
<1>4. ASSUME NEW w \in {Blank, Garbage}, card' = [card EXCEPT !.super[0] = w]
      PROVE  CardInv'
  <2> DEFINE s == [card.super EXCEPT ![0] = w]
  <2>1. /\ DOMAIN s = 0 .. 1 /\ card' = [card EXCEPT !.super = s]
        /\ \A i \in 0 .. 1 : s[i] \in {card.super[i], Blank, Garbage}
      BY <1>4 DEF CardInv, CardShape
  <2> HIDE DEF s
  <2>2. QED
      BY <1>1, <2>1, MediaPrepared
<1>5. QED
    BY <1>2, <1>3, <1>4 DEF PrepareMedia

\* A device that waits for its card does not ask for its secret.
LEMMA WaitState ==
    ASSUME NEW a, AppSound(a), a.state = "BOOTING"
    PROVE  Handle(a, "BOOT_MEDIA_REQUIRED", NoPick).app.state # "VAULT_SECRET_ENTRY"
<1> DEFINE o == Handle(a, "BOOT_MEDIA_REQUIRED", NoPick)
<1>1. o = Stay(Go(a, "BOOT_MEDIA_REQUIRED")) \/ o = Stay(a)
    BY DEF Handle, SettingsStates
<1>2. Stay(Go(a, "BOOT_MEDIA_REQUIRED")).app.state = "BOOT_MEDIA_REQUIRED" /\ Stay(a).app.state = "BOOTING"
    BY DEF AppSound, AppFields, Stay, Result, Go
<1>3. QED
    BY <1>1, <1>2

\* The start of the device, and a card that is inserted: the device asks for its secret when it has found its vault.
LEMMA CardFound == GuessInv /\ CardInv /\ (Boot \/ CardInserted) => CardInv'
<1> SUFFICES ASSUME GuessInv, CardInv, Boot \/ CardInserted
             PROVE  CardInv'
    OBVIOUS
<1> USE DEF durable
<1>1. UNCHANGED <<jrn, card>> /\ (step' = "" \/ UNCHANGED <<step, staged, vid, otp>>)
    BY DEF Boot, CardInserted
<1>2. \A a, h : Recovered(RootsStatus(otp), a, h) = "READY" /\ jrn # NoRecord => h.result = "OK"
  <2>1. RootsStatus(otp) # "EMPTY" \/ jrn = NoRecord
      BY DEF GuessInv, RootsSound, RootsType, RootsStatus
  <2>2. QED
      BY <2>1 DEF Recovered, MethodKnown
<1>3. ASSUME NEW v, LoadVaultHeader(otp, jrn, card, v).result = "OK", jrn # NoRecord, v = jrn.vault
      PROVE  MediaLoad(card, jrn.vault).result = "OK"
    BY <1>3, KeptLoads DEF CardInv
<1>4. CASE Boot
  <2>1. PICK reads, present, faulted :
          /\ app' = BootOutcome(reads, present, vid', faulted).app
          /\ disowned' = StillDisowned(BootOutcome(reads, present, vid', faulted).app)
          /\ vid' = IF StateResult(otp, jrn) = "OK" THEN jrn.vault ELSE NoVault
      BY <1>4 DEF Boot
  <2> DEFINE stored == StateResult(otp, jrn) = "OK"
             header == IF reads THEN LoadVaultHeader(otp, jrn, card, vid')
                       ELSE [result |-> "IO_ERROR", found |-> NoHeader]
             how == Recovered(RootsStatus(otp), present, header)
             method == IF stored /\ how = "READY" THEN header.found.entry.method ELSE 0
             b == Started(stored, jrn, method)
             out == BootOutcome(reads, present, vid', faulted)
  <2>2. out = CASE faulted \/ how = "FAILED" -> Stay(EnterFault(b).app)
                [] ~faulted /\ how = "READY" -> Handle(b, "BOOT_COMPLETED", NoPick)
                [] OTHER -> Handle(b, "BOOT_MEDIA_REQUIRED", NoPick)
      BY DEF BootOutcome, Started
  <2>3. how = "READY" /\ jrn # NoRecord => header.result = "OK"
      BY <1>2
  <2>4. header.result = "OK" /\ jrn # NoRecord => MediaLoad(card, jrn.vault).result = "OK"
    <3> SUFFICES ASSUME header.result = "OK", jrn # NoRecord
                 PROVE  MediaLoad(card, jrn.vault).result = "OK"
        OBVIOUS
    <3>1. LoadVaultHeader(otp, jrn, card, vid').result = "OK"
        OBVIOUS
    <3>2. RootsResult(otp) = "OK"
        BY <3>1 DEF LoadVaultHeader
    <3>3. vid' = jrn.vault
        BY <2>1, <3>2 DEF StateResult
    <3>4. QED
        BY <1>3, <3>1, <3>3
  <2>5. AppSound(b) /\ b.state = "BOOTING"
    <3>1. stored \in BOOLEAN /\ (stored => jrn # NoRecord) /\ CountSound(jrn, guesses)
        BY DEF StateResult, GuessInv
    <3> HIDE DEF stored, method
    <3>2. AppSound(b)
        BY <3>1, StartedCounts DEF Counts
    <3>3. QED
        BY <3>2 DEF Started, AppInit
  <2> HIDE DEF stored, header, how, method, b
  <2>6. EnterFault(b).app.state = "FAULT" /\ Stay(EnterFault(b).app).app = EnterFault(b).app
      BY <2>5 DEF AppSound, AppFields, EnterFault, SettingsClear, Result, Stay
  <2>7. Handle(b, "BOOT_MEDIA_REQUIRED", NoPick).app.state # "VAULT_SECRET_ENTRY"
      BY <2>5, WaitState
  <2> HIDE DEF out
  <2>8. out.app.state = "VAULT_SECRET_ENTRY" => how = "READY"
      BY <2>2, <2>6, <2>7
  <2>9. ~disowned' => ~disowned \/ out.app.state = "VAULT_SECRET_ENTRY"
      BY <2>1 DEF out, StillDisowned
  <2>10. ~disowned' => ~disowned \/ jrn = NoRecord \/ MediaLoad(card, jrn.vault).result = "OK"
      BY <2>3, <2>4, <2>8, <2>9
  <2>11. QED
      BY <1>1, <2>10, CardRests
<1>5. CASE CardInserted /\ app.state # "BOOT_MEDIA_REQUIRED"
  <2>1. UNCHANGED disowned
      BY <1>5 DEF CardInserted
  <2>2. QED
      BY <1>1, <2>1, CardRests
<1>6. CASE CardInserted /\ app.state = "BOOT_MEDIA_REQUIRED"
  <2>1. PICK reads :
          LET header == IF reads THEN LoadVaultHeader(otp, jrn, card, jrn.vault)
                        ELSE [result |-> "IO_ERROR", found |-> NoHeader]
              how == Recovered(RootsStatus(otp), IsPresent(sd, slot), header)
          IN \/ how = "READY"
             \/ disowned' = StillDisowned(EnterFault(app).app)
             \/ disowned' = StillDisowned(app)
      BY <1>6 DEF CardInserted, Stay, Result
  <2> DEFINE header == IF reads THEN LoadVaultHeader(otp, jrn, card, jrn.vault)
                       ELSE [result |-> "IO_ERROR", found |-> NoHeader]
             how == Recovered(RootsStatus(otp), IsPresent(sd, slot), header)
  <2>2. how = "READY" /\ jrn # NoRecord => header.result = "OK"
      BY <1>2
  <2>3. header.result = "OK" => LoadVaultHeader(otp, jrn, card, jrn.vault).result = "OK"
      OBVIOUS
  <2>4. AppFields \subseteq DOMAIN app
      BY <1>6 DEF CardInserted, Idle, GuessInv, Counts, AppSound
  <2>5. EnterFault(app).app.state = "FAULT"
      BY <2>4 DEF AppFields, EnterFault, SettingsClear, Result
  <2>6. how = "READY" \/ (disowned => disowned')
      BY <1>6, <2>1, <2>5 DEF StillDisowned
  <2> HIDE DEF header, how
  <2>7. ~disowned' => ~disowned \/ jrn = NoRecord \/ MediaLoad(card, jrn.vault).result = "OK"
      BY <1>3, <2>2, <2>3, <2>6
  <2>8. QED
      BY <1>1, <2>7, CardRests
<1>7. QED
    BY <1>4, <1>5, <1>6

\* Every other command and every pass of the main loop leaves the card and the journal alone.
LEMMA CardKept ==
    CardInv /\ (Detach \/ EraseTransient \/ EraseKeys \/ Destroy \/ InspectMedia \/ Authenticate \/ ChangeVerify
                  \/ AttachMassStorage \/ AttachPasskeys \/ ManagePasskeys \/ PollCard \/ CardLost
                  \/ PollConnector \/ HostStorage \/ HostPasskeys \/ TakeUsb \/ Press \/ DisplayLost \/ MoveCard
                  \/ MoveCable \/ UNCHANGED vars) => CardInv'
<1> USE DEF durable
<1>1. ASSUME CardInv, UNCHANGED <<jrn, card, disowned>>,
             (\E e : Answer(e)) \/ Broken \/ Done \/ (\E out : Finish(out))
      PROVE  CardInv'
    BY <1>1, Ends, CardRests
<1>2. ASSUME CardInv, UNCHANGED <<durable, vid, step, staged, disowned>>
      PROVE  CardInv'
    BY <1>2, CardRests
<1>3. Detach \/ EraseTransient \/ EraseKeys \/ Destroy =>
        UNCHANGED <<jrn, card, disowned>> /\ (Broken \/ Done \/ \E out : Finish(out))
    BY DEF Detach, EraseTransient, EraseKeys, Destroy
<1>4. InspectMedia \/ Authenticate \/ ChangeVerify => UNCHANGED <<jrn, card, disowned>> /\ (Broken \/ \E e : Answer(e))
    BY DEF InspectMedia, Authenticate, ChangeVerify
<1>5. AttachMassStorage \/ AttachPasskeys \/ ManagePasskeys =>
        UNCHANGED <<jrn, card, disowned>> /\ (Broken \/ Done \/ \E out : Finish(out))
    BY DEF AttachMassStorage, AttachPasskeys, ManagePasskeys
<1>6. PollCard \/ CardLost \/ PollConnector \/ HostStorage \/ HostPasskeys \/ TakeUsb \/ Press
        \/ DisplayLost => UNCHANGED <<durable, vid, step, staged, disowned>>
    BY DEF PollCard, CardLost, PollConnector, HostStorage, HostPasskeys, TakeUsb, Press, DisplayLost, NoWork
<1>7. MoveCard \/ MoveCable \/ UNCHANGED vars => UNCHANGED <<durable, vid, step, staged, disowned>>
    BY DEF MoveCard, MoveCable, vars, ram
<1>8. CardInv /\ (Detach \/ EraseTransient \/ EraseKeys \/ Destroy) => CardInv'
    BY <1>1, <1>3
<1>9. CardInv /\ (InspectMedia \/ Authenticate \/ ChangeVerify \/ AttachMassStorage \/ AttachPasskeys \/ ManagePasskeys)
         => CardInv'
    BY <1>1, <1>4, <1>5
<1>10. CardInv /\ (PollCard \/ CardLost \/ PollConnector \/ HostStorage \/ HostPasskeys \/ TakeUsb \/ Press
                    \/ DisplayLost \/ MoveCard \/ MoveCable \/ UNCHANGED vars) => CardInv'
    BY <1>2, <1>6, <1>7
<1>11. QED
    BY <1>8, <1>9, <1>10

\* No step takes the header in force off the card.
LEMMA CardStep == GuessInv /\ GuessInv' /\ EarlyInv /\ CardInv /\ [Next]_vars => CardInv'
BY CardCut, CardSetup, CardSuper, CardHeader, CardRecord, CardAttempt, CardChange, CardAnchor, CardStage, CardPrepared,
   CardFound, CardKept DEF Next

\* A new card authenticates nothing, and a device that is set up has its first header.
LEMMA CardInit == Init => HeaderInv
<1> SUFFICES ASSUME Init
             PROVE  HeaderInv
    OBVIOUS
<1>1. app = Off /\ step = ""
    BY DEF Init
<1>2. CASE New
  <2>1. jrn = NoRecord /\ card \in [super : [0 .. 1 -> {Blank, Garbage}], head : [0 .. 1 -> {Blank, Garbage}]]
      BY <1>2, CardAssumption DEF New
  <2>2. CardShape /\ \A i \in 0 .. 1 : card.head[i] \in {Blank, Garbage}
      BY <2>1 DEF CardShape
  <2>3. QED
      BY <1>1, <2>1, <2>2 DEF HeaderInv, EarlyInv, On, CardInv, SetupCard, Rows, Changing
<1>3. CASE SetUp
  <2> DEFINE first == [method |-> 0, value |-> CHOOSE v \in Value : TRUE]
             h == Header(1, 1, first)
  <2>1. /\ jrn = Record(1, 0, 1, NoHeader)
        /\ card = [super |-> [i \in 0 .. 1 |-> Super(1, i + 1)], head |-> [i \in 0 .. 1 |-> IF i = 1 THEN Blank ELSE h]]
      BY <1>3 DEF SetUp
  <2>2. IsHeader(h) /\ h.vault = 1
      BY HeaderFields
  <2> HIDE DEF h
  <2>3. /\ CardShape /\ card.super[0] = Super(1, 1) /\ card.super[1] = Super(1, 2)
        /\ card.head[0] = h /\ card.head[1] = Blank
      BY <2>1 DEF CardShape
  <2>4. /\ jrn = Record(jrn.seq, jrn.attempts, jrn.vault, jrn.anchor) /\ jrn.vault = 1 /\ jrn.anchor = NoHeader
        /\ jrn # NoRecord
      BY <2>1, RecordFields
  <2>5. CurrentHeader = h
      BY <2>3, <2>4 DEF CurrentHeader
  <2>6. SupersSound
    <3>1. MediaLoad(card, jrn.vault).result = "OK"
        BY <2>3, <2>4, MediaKept
    <3>2. \A i \in 0 .. 1 : card.super[i] = Super(jrn.vault, i + 1)
        BY <2>3, <2>4
    <3>3. QED
        BY <3>1, <3>2 DEF SupersSound
  <2>7. StoredCard
      BY <1>1, <2>2, <2>3, <2>4, <2>5, <2>6 DEF StoredCard
  <2>8. QED
      BY <1>1, <2>3, <2>4, <2>7 DEF HeaderInv, EarlyInv, On, CardInv
<1>4. QED
    BY <1>2, <1>3 DEF Init

\* First generation: the inductive invariant of the card.
THEOREM HeaderInvariant == Spec => []HeaderInv
<1>1. GuessInv /\ GuessInv' /\ HeaderInv /\ [Next]_vars => HeaderInv'
    BY EarlyStep, CardStep DEF HeaderInv
<1>2. QED
    BY <1>1, CardInit, GuessInvariant, PTL DEF Spec

\* First generation, provisioning_coordinator.c, credential_change.c: once the setup is on record, and was not told
\* to have failed, its vault can be opened, wherever a change of the credential, a failed transfer or the power stopped.
THEOREM DeviceHeaderKept == Spec => []HeaderKept
<1>1. HeaderInv => HeaderKept
  <2> SUFFICES ASSUME HeaderInv, jrn # NoRecord, ~disowned, RootsStatus(otp) = "ACTIVE"
               PROVE  LoadVaultHeader(otp, jrn, card, jrn.vault).result = "OK"
      BY DEF HeaderKept
  <2>1. RootsResult(otp) = "OK"
      BY DEF RootsResult
  <2>2. StoredCard /\ MediaLoad(card, jrn.vault).result = "OK"
      BY DEF HeaderInv, CardInv, StoredCard, SupersSound
  <2>3. QED
      BY <2>1, <2>2, KeptLoads
<1>2. QED
    BY <1>1, HeaderInvariant, PTL
=============================================================================
