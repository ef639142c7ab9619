--------------------------- MODULE JournalProofs ----------------------------
(***************************************************************************)
(* Proofs about the flash journal, for every bank size, every set of       *)
(* device states and every last sequence number.                           *)
(***************************************************************************)
EXTENDS Journal, TLAPS

USE RecordsAssumption, SequenceAssumption, ValuesAssumption

\* Contents builds a cell: the page program and erase steps of journal.c
\* leave well-formed records.
LEMMA ContentsType ==
    ASSUME NEW body \in Page, NEW commit \in Page,
           NEW seq \in 0 .. MaxSequence, NEW val \in Values \cup {NoValue}
    PROVE  /\ Contents(body, commit, seq, val) \in Cell
           /\ Contents(body, commit, seq, val).body = body
           /\ Contents(body, commit, seq, val).commit = commit
           /\ body = "written" => /\ Contents(body, commit, seq, val).seq = seq
                                  /\ Contents(body, commit, seq, val).val = val
BY DEF Contents, Cell, Page

\* The places and cells the model starts from have their types.
LEMMA ConstantTypes ==
    /\ <<0, 0>> \in Location
    /\ BlankCell \in Cell
    /\ Idle \in [stage : {"idle", "erase", "body", "marker"}, at : Location,
                 seq : 0 .. MaxSequence, val : Values \cup {NoValue}]
    /\ Nothing \in [seq : 0 .. MaxSequence, val : Values \cup {NoValue}]
BY DEF Location, Banks, Slots, BlankCell, Cell, Page, Idle, Nothing

\* In a well-formed journal the record scan() reports has its type.
LEMMA StoredType ==
    ASSUME TypeOK, LatestExists
    PROVE  Stored \in [seq : 0 .. MaxSequence, val : Values \cup {NoValue}]
<1>1. CASE Committed = {}
  BY <1>1, ConstantTypes DEF Stored
<1>2. CASE Committed # {}
  <2>1. IsLatest(Latest) /\ Latest \in Location
    BY <1>2 DEF LatestExists, Latest
  <2>2. flash[Latest] \in Cell
    BY <2>1 DEF TypeOK
  <2> QED  BY <1>2, <2>2 DEF Stored, Cell
<1> QED  BY <1>1, <1>2

-----------------------------------------------------------------------------
\* TypeOK is preserved by every step of journal.c.
LEMMA TypeStep == TypeOK /\ CommitInv /\ [Next]_vars => TypeOK'
<1> SUFFICES ASSUME TypeOK, CommitInv, [Next]_vars PROVE TypeOK'
  OBVIOUS
<1> USE DEF TypeOK
<1>1. CASE Load
  <2>1. ScanStatus \in {"ok", "corrupt", "empty"}
    BY DEF ScanStatus
  <2> QED  BY <1>1, <2>1, StoredType, ConstantTypes DEF Load, CommitInv
<1>2. ASSUME NEW previous \in 0 .. MaxSequence, NEW v \in Values, CommitBegin(previous, v)
      PROVE  TypeOK'
  <2>1. previous + 1 \in 0 .. MaxSequence
    BY <1>2 DEF CommitBegin, AcceptsPrevious
  <2> QED  BY <1>2, <2>1 DEF CommitBegin
<1>3. CASE CommitReject
  BY <1>3 DEF CommitReject
<1>4. CASE EraseBank
  BY <1>4, ConstantTypes DEF EraseBank
<1>5. CASE ProgramBody
  <2>1. Contents("written", "blank", op.seq, op.val) \in Cell
    BY ContentsType DEF Page
  <2> QED  BY <1>5, <2>1 DEF ProgramBody
<1>6. CASE ProgramMarker
  <2>1. [flash[op.at] EXCEPT !.commit = "written"] \in Cell
    BY DEF Cell, Page
  <2>2. flash' \in [Location -> Cell]
    BY <1>6, <2>1 DEF ProgramMarker
  <2> QED  BY <1>6, <2>2, ConstantTypes DEF ProgramMarker
<1>7. CASE EraseInterrupted
  <2>1. PICK bodies, commits \in [Slots -> Page] :
          flash' = [p \in Location |->
                      IF p[1] = op.at[1]
                      THEN Contents(bodies[p[2]], commits[p[2]], flash[p].seq, flash[p].val)
                      ELSE flash[p]]
    BY <1>7 DEF EraseInterrupted
  <2>2. ASSUME NEW p \in Location
        PROVE  Contents(bodies[p[2]], commits[p[2]], flash[p].seq, flash[p].val) \in Cell
    <3>1. p[2] \in Slots
      BY DEF Location
    <3>2. bodies[p[2]] \in Page /\ commits[p[2]] \in Page
      BY <3>1
    <3>3. flash[p].seq \in 0 .. MaxSequence /\ flash[p].val \in Values \cup {NoValue}
      BY DEF Cell
    <3> QED  BY <3>2, <3>3, ContentsType
  <2>3. flash' \in [Location -> Cell]
    BY <2>1, <2>2
  <2> QED  BY <1>7, <2>3, ConstantTypes DEF EraseInterrupted, Interrupted
<1>8. CASE BodyInterrupted
  <2>1. PICK page \in Page :
          flash' = [flash EXCEPT ![op.at] = Contents(page, "blank", op.seq, op.val)]
    BY <1>8 DEF BodyInterrupted
  <2>2. Contents(page, "blank", op.seq, op.val) \in Cell
    BY ContentsType DEF Page
  <2>3. flash' \in [Location -> Cell]
    BY <2>1, <2>2
  <2> QED  BY <1>8, <2>3, ConstantTypes DEF BodyInterrupted, Interrupted
<1>9. CASE MarkerInterrupted
  <2>1. PICK page \in Page : flash' = [flash EXCEPT ![op.at].commit = page]
    BY <1>9 DEF MarkerInterrupted
  <2>2. [flash[op.at] EXCEPT !.commit = page] \in Cell
    BY DEF Cell
  <2>3. flash' \in [Location -> Cell]
    BY <2>1, <2>2
  <2> QED  BY <1>9, <2>3, ConstantTypes DEF MarkerInterrupted, Interrupted
<1>10. CASE PowerCut
  BY <1>10, ConstantTypes DEF PowerCut
<1>11. CASE UNCHANGED vars
  BY <1>11 DEF vars
<1> QED
  BY <1>1, <1>2, <1>3, <1>4, <1>5, <1>6, <1>7, <1>8, <1>9, <1>10, <1>11 DEF Next

-----------------------------------------------------------------------------
(* What the scan of journal.c returns *)

\* The latest record is unique, and it is what Stored reports.
LEMMA LatestUnique ==
    ASSUME TypeOK, SequencesUnique, NEW p \in Location, IsLatest(p)
    PROVE  /\ Latest = p
           /\ Committed # {}
           /\ Stored = [seq |-> flash[p].seq, val |-> flash[p].val]
<1>1. IsLatest(Latest) /\ Latest \in Location
  BY DEF Latest
<1>2. Latest \in Committed /\ p \in Committed
  BY <1>1 DEF IsLatest
<1>3. flash[Latest].seq = flash[p].seq
  <2>1. flash[Latest].seq \in Nat /\ flash[p].seq \in Nat
    BY <1>1 DEF TypeOK, Cell
  <2> QED  BY <1>1, <1>2, <2>1 DEF IsLatest
<1>4. Latest = p
  BY <1>2, <1>3 DEF SequencesUnique
<1> QED  BY <1>2, <1>4 DEF Stored

\* A flash step that commits nothing and spares the latest record leaves
\* the journal's contents as they were: the case of every erase, body and
\* unfinished marker.
LEMMA KeepsLatest ==
    ASSUME TypeOK, TypeOK', LatestExists, SequencesUnique,
           \A q \in Location : IsCommitted(q)' => IsCommitted(q) /\ flash'[q] = flash[q],
           \A q \in Location : IsLatest(q) => flash'[q] = flash[q]
    PROVE  /\ LatestExists'
           /\ SequencesUnique'
           /\ \A q \in Location : IsLatest(q)' <=> IsLatest(q)
           /\ Committed = {} <=> Committed' = {}
           /\ Stored' = Stored
<1>1. Committed' \subseteq Committed
  BY DEF Committed
<1>2. SequencesUnique'
  BY <1>1 DEF SequencesUnique, Committed
<1>3. CASE Committed = {}
  BY <1>1, <1>2, <1>3 DEF LatestExists, IsLatest, Stored, Committed
<1>4. CASE Committed # {}
  <2>1. PICK p \in Location : IsLatest(p)
    BY <1>4 DEF LatestExists
  <2>2. p \in Committed'
    BY <2>1 DEF IsLatest, Committed, IsCommitted
  <2>3. IsLatest(p)'
    BY <1>1, <2>1, <2>2 DEF IsLatest, Committed
  <2>4. Latest = p /\ Stored = [seq |-> flash[p].seq, val |-> flash[p].val]
    BY <2>1, LatestUnique
  <2>5. \A q \in Location : IsLatest(q)' => q = p
    <3> SUFFICES ASSUME NEW q \in Location, IsLatest(q)' PROVE q = p
      OBVIOUS
    <3>1. flash'[p].seq \in Nat /\ flash'[q].seq \in Nat
      BY DEF TypeOK, Cell
    <3>2. flash'[p].seq = flash'[q].seq /\ p \in Committed' /\ q \in Committed'
      BY <2>3, <3>1 DEF IsLatest
    <3> QED  BY <1>2, <3>2 DEF SequencesUnique
  <2>6. \A q \in Location : IsLatest(q) => q = p
    BY <2>4, LatestUnique
  <2>7. Latest' = p
    BY <2>3, <2>5 DEF Latest
  <2>8. Stored' = Stored
    BY <2>1, <2>2, <2>4, <2>7 DEF Stored
  <2> QED  BY <1>2, <1>4, <2>1, <2>2, <2>3, <2>5, <2>6, <2>8 DEF LatestExists
<1> QED  BY <1>3, <1>4

\* A completed marker makes its record the latest one.
LEMMA AddsLatest ==
    ASSUME TypeOK, TypeOK', SequencesUnique,
           NEW a \in Location, ~IsCommitted(a), IsCommitted(a)',
           \A q \in Location : q # a => flash'[q] = flash[q],
           \A q \in Committed : flash[q].seq < flash'[a].seq
    PROVE  /\ LatestExists'
           /\ SequencesUnique'
           /\ \A q \in Location : IsLatest(q)' <=> q = a
           /\ Committed' # {}
           /\ Stored' = [seq |-> flash'[a].seq, val |-> flash'[a].val]
<1>1. Committed' = Committed \cup {a} /\ a \notin Committed
  BY DEF Committed, IsCommitted
<1>2. \A q \in Committed : q \in Location /\ flash'[q] = flash[q] /\ flash'[q].seq < flash'[a].seq
  BY <1>1 DEF Committed
<1>3. \A q \in Location : flash'[q].seq \in 0 .. MaxSequence
  BY DEF TypeOK, Cell
<1>4. IsLatest(a)'
  BY <1>1, <1>2, <1>3 DEF IsLatest, Before, Location, Banks, Slots
<1>5. SequencesUnique'
  BY <1>1, <1>2, <1>3 DEF SequencesUnique
<1>6. \A q \in Location : IsLatest(q)' => q = a
  BY <1>1, <1>2, <1>3 DEF IsLatest
<1>7. Latest' = a
  BY <1>4, <1>6 DEF Latest
<1> QED  BY <1>1, <1>4, <1>5, <1>6, <1>7 DEF LatestExists, Stored

\* A commit in progress has a higher sequence than every committed record.
LEMMA OpIsAbove ==
    ASSUME TypeOK, CommitInv, op.stage # "idle"
    PROVE  \A q \in Committed : flash[q].seq < op.seq
<1> SUFFICES ASSUME NEW q \in Committed PROVE flash[q].seq < op.seq
  OBVIOUS
<1>1. PICK p \in Location : IsLatest(p)
  BY DEF CommitInv, LatestExists
<1>2. op.seq = flash[p].seq + 1
  BY <1>1 DEF CommitInv, OpSucceeds
<1>3. flash[q].seq <= flash[p].seq
  BY <1>1 DEF IsLatest, TypeOK, Cell, Committed
<1> QED  BY <1>2, <1>3 DEF TypeOK, Cell, Committed

-----------------------------------------------------------------------------
(* CommitInv, one lemma per flash operation of fv_journal_commit *)

\* Calls that touch neither flash nor the commit in progress.
LEMMA InvUntouched ==
    ASSUME CommitInv, UNCHANGED <<flash, op>>
    PROVE  CommitInv'
BY DEF CommitInv, LatestExists, SequencesUnique, BodiesReadable, OpSucceeds, OpPrepared,
       IsLatest, Committed, IsCommitted, Ambiguous, Blank

\* The checks before the first flash operation choose a safe target.
LEMMA InvBegin ==
    ASSUME TypeOK, CommitInv, NEW previous \in 0 .. MaxSequence, NEW v \in Values,
           CommitBegin(previous, v)
    PROVE  CommitInv'
<1>1. PICK p \in Location, erase \in BOOLEAN :
        /\ Target(p, erase)
        /\ erase \/ Blank(p)
        /\ op' = [stage |-> IF erase THEN "erase" ELSE "body",
                  at |-> p, seq |-> previous + 1, val |-> v]
  BY DEF CommitBegin
<1>2. flash' = flash
  BY DEF CommitBegin
<1>3. LatestExists' /\ SequencesUnique' /\ BodiesReadable'
  BY <1>2 DEF CommitInv, LatestExists, SequencesUnique, BodiesReadable, IsLatest, Committed, IsCommitted
<1>4. \A q \in Location : (IsLatest(q)' <=> IsLatest(q)) /\ (Ambiguous(q)' <=> Ambiguous(q))
  BY <1>2 DEF IsLatest, Committed, IsCommitted, Ambiguous
<1>5. \A q \in Location : ~Ambiguous(q)
  BY DEF CommitBegin, AcceptsPrevious, ScanStatus
<1>6. \A q \in Location : IsLatest(q) => previous = flash[q].seq
  <2> SUFFICES ASSUME NEW q \in Location, IsLatest(q) PROVE previous = flash[q].seq
    OBVIOUS
  <2>1. Committed # {} /\ Stored.seq = flash[q].seq
    BY LatestUnique DEF CommitInv
  <2>2. ScanStatus # "empty"
    BY <2>1 DEF ScanStatus
  <2> QED  BY <2>1, <2>2 DEF CommitBegin, AcceptsPrevious
<1>7. Committed = {} => previous = 0
  BY DEF CommitBegin, AcceptsPrevious, ScanStatus
<1>8. Committed' = Committed
  BY <1>2 DEF Committed, IsCommitted
<1>9. OpSucceeds'
  BY <1>1, <1>2, <1>4, <1>5, <1>6, <1>7, <1>8 DEF OpSucceeds
<1>10. ASSUME erase
       PROVE  Committed # {} /\ \A q \in Location : IsLatest(q) => q[1] # p[1]
  <2>1. Committed # {} /\ p = <<OtherBank(Latest[1]), 0>>
    BY <1>1, <1>10 DEF Target
  <2>2. \A q \in Location : IsLatest(q) => Latest = q
    BY LatestUnique DEF CommitInv
  <2>3. Latest \in Location
    BY <2>1 DEF CommitInv, LatestExists, Latest
  <2>4. Latest[1] # p[1]
    BY <2>1, <2>3 DEF OtherBank, Location, Banks
  <2> QED  BY <2>1, <2>2, <2>4
<1>11. OpPrepared'
  BY <1>1, <1>2, <1>4, <1>8, <1>10 DEF OpPrepared, Blank
<1> QED  BY <1>3, <1>9, <1>11 DEF CommitInv

\* A completed erase spares the latest record.
LEMMA InvErase ==
    ASSUME TypeOK, TypeOK', CommitInv, EraseBank
    PROVE  CommitInv' /\ Stored' = Stored
<1>1. op.at \in Location /\ op' = [op EXCEPT !.stage = "body"]
  BY DEF TypeOK, EraseBank
<1>2. \A q \in Location : flash'[q] = IF q[1] = op.at[1] THEN BlankCell ELSE flash[q]
  BY DEF EraseBank
<1>3. \A q \in Location : IsCommitted(q)' => IsCommitted(q) /\ flash'[q] = flash[q]
  BY <1>2 DEF IsCommitted, BlankCell
<1>4. \A q \in Location : IsLatest(q) => flash'[q] = flash[q]
  BY <1>2 DEF CommitInv, OpPrepared, EraseBank
<1>5. /\ LatestExists' /\ SequencesUnique' /\ Stored' = Stored
      /\ \A q \in Location : IsLatest(q)' <=> IsLatest(q)
      /\ Committed = {} <=> Committed' = {}
  BY <1>3, <1>4, KeepsLatest DEF CommitInv
<1>6. BodiesReadable'
  BY <1>2 DEF CommitInv, BodiesReadable, BlankCell
<1>7. \A q \in Location : ~Ambiguous(q)'
  BY <1>2 DEF CommitInv, OpSucceeds, EraseBank, Ambiguous, IsCommitted, BlankCell
<1>8. op'.seq = op.seq /\ op'.val = op.val /\ op'.at = op.at /\ op'.stage = "body" /\ op.stage = "erase"
  BY <1>1 DEF TypeOK, EraseBank
<1>9. OpSucceeds'
  BY <1>4, <1>5, <1>7, <1>8 DEF CommitInv, OpSucceeds
<1>10. OpPrepared'
  BY <1>1, <1>2, <1>8 DEF OpPrepared, Blank, BlankCell
<1> QED  BY <1>5, <1>6, <1>9, <1>10 DEF CommitInv

\* Programming a body, completely or not, commits nothing.
LEMMA InvBodyPage ==
    ASSUME TypeOK, TypeOK', CommitInv, op.stage = "body", NEW page \in Page,
           flash' = [flash EXCEPT ![op.at] = Contents(page, "blank", op.seq, op.val)]
    PROVE  /\ LatestExists' /\ SequencesUnique' /\ BodiesReadable' /\ Stored' = Stored
           /\ \A q \in Location : (IsLatest(q)' <=> IsLatest(q)) /\ ~Ambiguous(q)'
           /\ \A q \in Location : IsLatest(q) => flash'[q] = flash[q]
           /\ Committed = {} <=> Committed' = {}
           /\ op.at \in Location /\ flash'[op.at] = Contents(page, "blank", op.seq, op.val)
<1>1. op.at \in Location /\ Blank(op.at) /\ op.seq > 0 /\ op.val \in Values
  BY DEF TypeOK, CommitInv, OpPrepared, OpSucceeds
<1>2. /\ Contents(page, "blank", op.seq, op.val).commit = "blank"
      /\ Contents(page, "blank", op.seq, op.val).body = page
      /\ page = "written" => /\ Contents(page, "blank", op.seq, op.val).seq = op.seq
                             /\ Contents(page, "blank", op.seq, op.val).val = op.val
  BY DEF Contents
<1>3. \A q \in Location : flash'[q] = IF q = op.at THEN Contents(page, "blank", op.seq, op.val) ELSE flash[q]
  BY <1>1 DEF TypeOK
<1>4. \A q \in Location : IsCommitted(q)' => IsCommitted(q) /\ flash'[q] = flash[q]
  BY <1>2, <1>3 DEF IsCommitted
<1>5. \A q \in Location : IsLatest(q) => flash'[q] = flash[q]
  BY <1>1, <1>3 DEF IsLatest, Committed, IsCommitted, Blank
<1>6. /\ LatestExists' /\ SequencesUnique' /\ Stored' = Stored
      /\ \A q \in Location : IsLatest(q)' <=> IsLatest(q)
      /\ Committed = {} <=> Committed' = {}
  BY <1>4, <1>5, KeepsLatest DEF CommitInv
<1>7. BodiesReadable'
  BY <1>1, <1>2, <1>3 DEF CommitInv, BodiesReadable
<1>8. \A q \in Location : ~Ambiguous(q)'
  BY <1>2, <1>3 DEF CommitInv, OpSucceeds, Ambiguous, IsCommitted
<1> QED  BY <1>1, <1>3, <1>5, <1>6, <1>7, <1>8

\* A completed marker installs the record of the commit; an unfinished one
\* changes nothing that is committed.
LEMMA InvMarkerPage ==
    ASSUME TypeOK, TypeOK', CommitInv, op.stage = "marker", NEW page \in Page,
           flash' = [flash EXCEPT ![op.at].commit = page]
    PROVE  /\ LatestExists' /\ SequencesUnique' /\ BodiesReadable'
           /\ page = "written" =>
                 /\ Stored' = [seq |-> op.seq, val |-> op.val]
                 /\ \A q \in Location : ~Ambiguous(q)'
                 /\ Committed' # {}
           /\ page # "written" => Stored' = Stored
<1>1. op.at \in Location /\ flash[op.at] = Contents("written", "blank", op.seq, op.val)
  BY DEF TypeOK, CommitInv, OpPrepared
<1>2. /\ flash[op.at].body = "written" /\ flash[op.at].commit = "blank"
      /\ flash[op.at].seq = op.seq /\ flash[op.at].val = op.val
  BY <1>1 DEF Contents
<1>3. /\ \A q \in Location : q # op.at => flash'[q] = flash[q]
      /\ flash'[op.at].body = "written" /\ flash'[op.at].commit = page
      /\ flash'[op.at].seq = op.seq /\ flash'[op.at].val = op.val
  BY <1>1, <1>2 DEF TypeOK, Cell
<1>4. BodiesReadable'
  BY <1>2, <1>3 DEF CommitInv, BodiesReadable
<1>5. CASE page = "written"
  <2>0. PICK a \in Location : a = op.at
    BY <1>1
  <2>1. ~IsCommitted(a) /\ IsCommitted(a)'
    BY <1>2, <1>3, <1>5, <2>0 DEF IsCommitted
  <2>2. \A q \in Committed : flash[q].seq < flash'[a].seq
    BY <1>3, <2>0, OpIsAbove
  <2>3. /\ LatestExists' /\ SequencesUnique' /\ Committed' # {}
        /\ Stored' = [seq |-> flash'[a].seq, val |-> flash'[a].val]
    BY <1>3, <2>0, <2>1, <2>2, AddsLatest DEF CommitInv
  <2>4. \A q \in Location : ~Ambiguous(q)'
    BY <1>3, <1>5 DEF CommitInv, OpSucceeds, Ambiguous, IsCommitted
  <2> QED  BY <1>3, <1>4, <1>5, <2>0, <2>3, <2>4
<1>6. CASE page # "written"
  <2>1. \A q \in Location : IsCommitted(q)' => IsCommitted(q) /\ flash'[q] = flash[q]
    BY <1>3, <1>6 DEF IsCommitted
  <2>2. \A q \in Location : IsLatest(q) => flash'[q] = flash[q]
    BY <1>2, <1>3 DEF IsLatest, Committed, IsCommitted
  <2>3. LatestExists' /\ SequencesUnique' /\ Stored' = Stored
    BY <2>1, <2>2, KeepsLatest DEF CommitInv
  <2> QED  BY <1>4, <1>6, <2>3
<1> QED  BY <1>5, <1>6

\* However an erase is torn, it destroys older records only.
LEMMA InvEraseTorn ==
    ASSUME TypeOK, TypeOK', CommitInv, EraseInterrupted
    PROVE  LatestExists' /\ SequencesUnique' /\ BodiesReadable' /\ Stored' = Stored
<1>1. PICK bodies, commits \in [Slots -> Page] :
        /\ \A i \in Slots :
              /\ bodies[i] \in ErasedPage(flash[<<op.at[1], i>>].body)
              /\ commits[i] \in ErasedPage(flash[<<op.at[1], i>>].commit)
        /\ flash' = [p \in Location |->
                        IF p[1] = op.at[1]
                        THEN Contents(bodies[p[2]], commits[p[2]], flash[p].seq, flash[p].val)
                        ELSE flash[p]]
  BY DEF EraseInterrupted
<1>2. ASSUME NEW q \in Location, flash'[q].body = "written"
      PROVE  /\ flash[q].body = "written"
             /\ flash'[q].seq = flash[q].seq /\ flash'[q].val = flash[q].val
             /\ flash'[q].commit = "written" => flash'[q] = flash[q]
  <2>1. CASE q[1] # op.at[1]
    BY <1>1, <1>2, <2>1
  <2>2. CASE q[1] = op.at[1]
    <3>1. q[2] \in Slots /\ q = <<op.at[1], q[2]>>
      BY <2>2 DEF Location
    <3>2. flash'[q] = Contents(bodies[q[2]], commits[q[2]], flash[q].seq, flash[q].val)
      BY <1>1, <2>2
    <3>3. bodies[q[2]] = "written"
      BY <1>2, <3>1, <3>2 DEF Contents
    <3>4. bodies[q[2]] \in ErasedPage(flash[q].body) /\ commits[q[2]] \in ErasedPage(flash[q].commit)
      BY <1>1, <3>1
    <3>5. flash'[q] = [body |-> "written", commit |-> commits[q[2]],
                       seq |-> flash[q].seq, val |-> flash[q].val]
      BY <3>2, <3>3 DEF Contents
    <3>6. flash[q].body = "written" /\ (commits[q[2]] = "written" => flash[q].commit = "written")
      BY <3>3, <3>4 DEF ErasedPage
    <3>7. flash[q] \in Cell
      BY DEF TypeOK
    <3> QED  BY <3>5, <3>6, <3>7 DEF Cell
  <2> QED  BY <2>1, <2>2
<1>3. \A q \in Location : IsCommitted(q)' => IsCommitted(q) /\ flash'[q] = flash[q]
  BY <1>2 DEF IsCommitted
<1>4. \A q \in Location : IsLatest(q) => flash'[q] = flash[q]
  BY <1>1 DEF CommitInv, OpPrepared, EraseInterrupted
<1>5. LatestExists' /\ SequencesUnique' /\ Stored' = Stored
  BY <1>3, <1>4, KeepsLatest DEF CommitInv
<1>6. BodiesReadable'
  BY <1>2 DEF CommitInv, BodiesReadable
<1> QED  BY <1>5, <1>6

\* With no commit in progress nothing is left to prepare.
LEMMA InvIdle ==
    ASSUME op' = Idle, LatestExists', SequencesUnique', BodiesReadable'
    PROVE  CommitInv'
BY DEF CommitInv, OpSucceeds, OpPrepared, Idle

\* CommitInv is inductive: every step of every journal operation keeps it.
LEMMA InvStep == TypeOK /\ CommitInv /\ [Next]_vars => CommitInv'
<1> SUFFICES ASSUME TypeOK, CommitInv, [Next]_vars PROVE CommitInv'
  OBVIOUS
<1>0. TypeOK'
  BY TypeStep
<1>1. CASE Load \/ CommitReject \/ PowerCut \/ UNCHANGED vars
  BY <1>1, InvUntouched DEF Load, CommitReject, PowerCut, vars
<1>2. ASSUME NEW previous \in 0 .. MaxSequence, NEW v \in Values, CommitBegin(previous, v)
      PROVE  CommitInv'
  BY <1>2, InvBegin
<1>3. CASE EraseBank
  BY <1>0, <1>3, InvErase
<1>4. CASE ProgramBody
  <2>1. "written" \in Page /\ op.stage = "body"
    BY <1>4 DEF Page, ProgramBody
  <2>2. flash' = [flash EXCEPT ![op.at] = Contents("written", "blank", op.seq, op.val)]
    BY <1>4 DEF ProgramBody
  <2>3. /\ LatestExists' /\ SequencesUnique' /\ BodiesReadable'
        /\ \A q \in Location : (IsLatest(q)' <=> IsLatest(q)) /\ ~Ambiguous(q)'
        /\ \A q \in Location : IsLatest(q) => flash'[q] = flash[q]
        /\ Committed = {} <=> Committed' = {}
        /\ flash'[op.at] = Contents("written", "blank", op.seq, op.val)
    BY <1>0, <2>1, <2>2, InvBodyPage
  <2>4. op'.seq = op.seq /\ op'.val = op.val /\ op'.at = op.at /\ op'.stage = "marker"
    BY <1>4 DEF TypeOK, ProgramBody
  <2>5. OpSucceeds'
    BY <2>1, <2>3, <2>4 DEF CommitInv, OpSucceeds
  <2>6. OpPrepared'
    BY <2>3, <2>4 DEF OpPrepared
  <2> QED  BY <2>3, <2>5, <2>6 DEF CommitInv
<1>5. CASE ProgramMarker
  <2>1. "written" \in Page /\ op.stage = "marker" /\ op' = Idle
    BY <1>5 DEF Page, ProgramMarker
  <2>2. flash' = [flash EXCEPT ![op.at].commit = "written"]
    BY <1>5 DEF ProgramMarker
  <2> QED  BY <1>0, <2>1, <2>2, InvMarkerPage, InvIdle
<1>6. CASE EraseInterrupted
  BY <1>0, <1>6, InvEraseTorn, InvIdle DEF EraseInterrupted, Interrupted
<1>7. CASE BodyInterrupted
  <2>1. op.stage = "body" /\ op' = Idle
    BY <1>7 DEF BodyInterrupted, Interrupted
  <2>2. PICK page \in Page :
          flash' = [flash EXCEPT ![op.at] = Contents(page, "blank", op.seq, op.val)]
    BY <1>7 DEF BodyInterrupted
  <2> QED  BY <1>0, <2>1, <2>2, InvBodyPage, InvIdle
<1>8. CASE MarkerInterrupted
  <2>1. op.stage = "marker" /\ op' = Idle
    BY <1>8 DEF MarkerInterrupted, Interrupted
  <2>2. PICK page \in Page : flash' = [flash EXCEPT ![op.at].commit = page]
    BY <1>8 DEF MarkerInterrupted
  <2> QED  BY <1>0, <2>1, <2>2, InvMarkerPage, InvIdle
<1> QED
  BY <1>1, <1>2, <1>3, <1>4, <1>5, <1>6, <1>7, <1>8 DEF Next

\* A freshly erased journal satisfies the invariant.
LEMMA InvInit == Init => TypeOK /\ CommitInv
<1> SUFFICES ASSUME Init PROVE TypeOK /\ CommitInv
  OBVIOUS
<1>1. TypeOK
  BY ConstantTypes DEF Init, TypeOK
<1>2. \A p \in Location : flash[p] = BlankCell
  BY DEF Init
<1>3. Committed = {} /\ BodiesReadable
  BY <1>2 DEF Committed, IsCommitted, BodiesReadable, BlankCell
<1>4. op = Idle
  BY DEF Init
<1> QED  BY <1>1, <1>3, <1>4 DEF CommitInv, LatestExists, SequencesUnique, OpSucceeds, OpPrepared, Idle

\* The flash journal keeps its type and its inductive invariant: through any
\* sequence of loads, commits, flash errors and power failures the latest
\* committed record survives, and a commit in progress is its successor.
THEOREM JournalInvariant == Spec => [](TypeOK /\ CommitInv)
<1>1. TypeOK /\ CommitInv /\ [Next]_vars => (TypeOK /\ CommitInv)'
  BY TypeStep, InvStep
<1> QED  BY <1>1, InvInit, PTL DEF Spec

\* Every page and every sequence number of the journal stays in range.
THEOREM JournalType == Spec => []TypeOK
BY JournalInvariant, PTL

\* No two committed records ever carry the same sequence number, so the
\* conflict check of scan() cannot be tripped by the journal itself.
THEOREM JournalSequencesUnique == Spec => []SequencesUnique
<1>1. CommitInv => SequencesUnique
  BY DEF CommitInv
<1> QED  BY <1>1, JournalInvariant, PTL

-----------------------------------------------------------------------------
(* The journal implements DurableState *)

\* Without duplicate sequences the conflict check of scan() is silent.
LEMMA NoConflict ==
    ASSUME SequencesUnique
    PROVE  ~Conflict
<1> SUFFICES ASSUME NEW p \in Committed, NEW q \in Committed, Before(p, q), flash[p].seq = flash[q].seq
             PROVE  FALSE
  BY DEF Conflict
<1>1. p = q /\ p \in Location
  BY DEF SequencesUnique, Committed
<1> QED  BY <1>1 DEF Before, Location, Banks, Slots

\* What the journal holds is a real record exactly when one is committed.
LEMMA StoredIsRecord ==
    ASSUME TypeOK, CommitInv, Committed # {}
    PROVE  Stored # Nothing
<1>1. PICK p \in Location : IsLatest(p)
  BY DEF CommitInv, LatestExists
<1>2. Stored = [seq |-> flash[p].seq, val |-> flash[p].val]
  BY <1>1, LatestUnique DEF CommitInv
<1>3. flash[p].val \in Values
  BY <1>1 DEF CommitInv, BodiesReadable, IsLatest, Committed, IsCommitted
<1> QED  BY <1>2, <1>3 DEF Nothing

\* Stored is a function of flash alone, Denied of flash and the stage.
LEMMA SameFlash ==
    ASSUME flash' = flash
    PROVE  /\ Stored' = Stored
           /\ ScanStatus' = ScanStatus
           /\ op' = op => (Denied' <=> Denied)
<1>1. Committed' = Committed /\ (\A p \in Location : IsLatest(p)' <=> IsLatest(p))
  BY DEF Committed, IsCommitted, IsLatest
<1>2. Latest' = Latest
  BY DEF Latest, IsLatest, Committed, IsCommitted
<1>3. Stored' = Stored
  BY <1>1, <1>2 DEF Stored
<1>4. ScanStatus' = ScanStatus
  BY DEF ScanStatus, Conflict, Ambiguous, Blank, Committed, IsCommitted
<1> QED  BY <1>3, <1>4 DEF Denied

\* Every step of the journal is a step of the durable record or changes
\* nothing its user can tell.
LEMMA RefinementStep ==
    ASSUME TypeOK, CommitInv, [Next]_vars
    PROVE  [Durable!Next]_(Durable!dvars)
<1> DEFINE pend == [seq |-> op.seq, val |-> op.val]
<1>0. TypeOK' /\ CommitInv'
  BY TypeStep, InvStep
<1>a. op.stage = "idle" => pend = Nothing /\ op = Idle
  BY DEF CommitInv, OpPrepared, Idle, Nothing
<1>b. op.stage # "idle" => pend # Nothing /\ Denied = FALSE
  BY DEF CommitInv, OpSucceeds, Nothing, Denied
<1>c. Denied \in BOOLEAN /\ Denied' \in BOOLEAN
  BY DEF Denied
<1>d. Nothing = Durable!Nothing
  BY DEF Nothing, Durable!Nothing
<1>1. CASE Load
  <2>1. pend = Nothing /\ pend' = pend /\ Stored' = Stored /\ Denied' = Denied
    BY <1>1, <1>a, <1>c, SameFlash DEF Load
  <2>2. CASE ScanStatus = "ok" /\ view' = Stored /\ result' = "ok"
    <3>1. Stored # Nothing /\ Denied = FALSE
      BY <2>2, StoredIsRecord DEF ScanStatus, Denied
    <3> QED  BY <2>1, <2>2, <3>1, <1>d DEF Durable!Next, Durable!Load
  <2>3. CASE ScanStatus # "ok" /\ view' = Nothing /\ result' = ScanStatus
    <3>1. ScanStatus \in {"corrupt", "empty"}
      BY <2>3 DEF ScanStatus
    <3>2. ScanStatus = "empty" => Stored = Nothing /\ Denied = FALSE
      BY <1>c DEF ScanStatus, Stored, Denied
    <3> QED  BY <2>1, <2>3, <3>1, <3>2, <1>d DEF Durable!Next, Durable!Load
  <2>4. CASE view' = Nothing /\ result' = "io"
    BY <2>1, <2>4, <1>d DEF Durable!Next, Durable!Load
  <2> QED  BY <1>1, <2>2, <2>3, <2>4 DEF Load
<1>2. ASSUME NEW previous \in 0 .. MaxSequence, NEW v \in Values, CommitBegin(previous, v)
      PROVE  [Durable!Next]_(Durable!dvars)
  <2>1. pend = Nothing /\ Stored' = Stored
    BY <1>2, <1>a, SameFlash DEF CommitBegin
  <2>2. ScanStatus \in {"ok", "empty"} /\ previous < MaxSequence
    BY <1>2 DEF CommitBegin, AcceptsPrevious
  <2>3. Stored.seq = previous
    BY <1>2 DEF CommitBegin, AcceptsPrevious, ScanStatus, Stored, Nothing
  <2>4. pend' = [seq |-> previous + 1, val |-> v] /\ op'.stage # "idle"
    BY <1>2 DEF CommitBegin
  <2>5. Denied = FALSE /\ Denied' = FALSE
    BY <2>2, <2>4 DEF Denied
  <2>6. UNCHANGED <<view, result>>
    BY <1>2 DEF CommitBegin
  <2> QED  BY <2>1, <2>2, <2>3, <2>4, <2>5, <2>6, <1>d DEF Durable!Next, Durable!Begin
<1>3. CASE CommitReject
  <2>1. pend = Nothing /\ pend' = pend /\ Stored' = Stored /\ Denied' = Denied
    BY <1>3, <1>a, <1>c, SameFlash DEF CommitReject
  <2> QED  BY <1>3, <2>1, <1>d DEF CommitReject, Durable!Next, Durable!Reject
<1>4. CASE PowerCut
  <2>1. pend = Nothing /\ pend' = pend /\ Stored' = Stored /\ Denied' = Denied
    BY <1>4, <1>a, <1>c, SameFlash DEF PowerCut
  <2> QED  BY <1>4, <2>1, <1>d DEF PowerCut, Durable!Next, Durable!PowerCut
<1>5. CASE EraseBank
  <2>1. Stored' = Stored
    BY <1>0, <1>5, InvErase
  <2>2. op.stage # "idle" /\ op'.stage # "idle" /\ pend' = pend
    BY <1>5 DEF EraseBank, TypeOK
  <2>3. Denied = FALSE /\ Denied' = FALSE
    BY <2>2 DEF Denied
  <2> QED  BY <1>5, <2>1, <2>2, <2>3 DEF EraseBank, Durable!dvars
<1>6. CASE ProgramBody
  <2>1. Stored' = Stored
    BY <1>0, <1>6, InvBodyPage DEF ProgramBody, Page
  <2>2. op.stage # "idle" /\ op'.stage # "idle" /\ pend' = pend
    BY <1>6 DEF ProgramBody, TypeOK
  <2>3. Denied = FALSE /\ Denied' = FALSE
    BY <2>2 DEF Denied
  <2> QED  BY <1>6, <2>1, <2>2, <2>3 DEF ProgramBody, Durable!dvars
<1>7. ASSUME op.stage = "marker", op' = Idle, NEW page \in Page,
             flash' = [flash EXCEPT ![op.at].commit = page], page = "written",
             view' \in {view, Nothing}, result' \in {"ok", "io", "lost"}
      PROVE  Durable!Install
  <2>1. Stored' = pend /\ (\A q \in Location : ~Ambiguous(q)') /\ Committed' # {} /\ SequencesUnique'
    BY <1>0, <1>7, InvMarkerPage
  <2>2. ~Conflict'
    BY <2>1, NoConflict DEF Conflict, SequencesUnique, Before, Committed, IsCommitted, Location, Banks, Slots
  <2>3. Denied = FALSE /\ Denied' = FALSE
    BY <1>7, <2>1, <2>2 DEF Denied, ScanStatus
  <2>4. pend' = Nothing /\ pend # Nothing
    BY <1>7, <1>b DEF Idle, Nothing
  <2> QED  BY <1>7, <2>1, <2>3, <2>4, <1>d DEF Durable!Install
<1>8. ASSUME op.stage # "idle", op' = Idle, Stored' = Stored,
             view' \in {view, Nothing}, result' \in {"io", "lost"}
      PROVE  Durable!Abandon
  <2>1. pend' = Nothing /\ pend # Nothing
    BY <1>8, <1>b DEF Idle, Nothing
  <2> QED  BY <1>8, <2>1, <1>c, <1>d DEF Durable!Abandon
<1>9. CASE ProgramMarker
  <2>1. Durable!Install
    BY <1>7, <1>9 DEF ProgramMarker, Page
  <2> QED  BY <2>1 DEF Durable!Next
<1>10. CASE EraseInterrupted
  <2>1. Stored' = Stored
    BY <1>0, <1>10, InvEraseTorn
  <2>2. Durable!Abandon
    BY <1>8, <1>10, <2>1 DEF EraseInterrupted, Interrupted
  <2> QED  BY <2>2 DEF Durable!Next
<1>11. CASE BodyInterrupted
  <2>1. Stored' = Stored
    BY <1>0, <1>11, InvBodyPage DEF BodyInterrupted
  <2>2. Durable!Abandon
    BY <1>8, <1>11, <2>1 DEF BodyInterrupted, Interrupted
  <2> QED  BY <2>2 DEF Durable!Next
<1>12. CASE MarkerInterrupted
  <2>1. PICK page \in Page : flash' = [flash EXCEPT ![op.at].commit = page]
    BY <1>12 DEF MarkerInterrupted
  <2>2. CASE page = "written"
    <3>1. Durable!Install
      BY <1>7, <1>12, <2>1, <2>2 DEF MarkerInterrupted, Interrupted
    <3> QED  BY <3>1 DEF Durable!Next
  <2>3. CASE page # "written"
    <3>1. Stored' = Stored
      BY <1>0, <1>12, <2>1, <2>3, InvMarkerPage DEF MarkerInterrupted
    <3>2. Durable!Abandon
      BY <1>8, <1>12, <3>1 DEF MarkerInterrupted, Interrupted
    <3> QED  BY <3>2 DEF Durable!Next
  <2> QED  BY <2>2, <2>3
<1>13. CASE UNCHANGED vars
  <2>1. Stored' = Stored /\ pend' = pend /\ Denied' = Denied
    BY <1>13, <1>c, SameFlash DEF vars
  <2> QED  BY <1>13, <2>1 DEF vars, Durable!dvars
<1> QED
  BY <1>1, <1>2, <1>3, <1>4, <1>5, <1>6, <1>9, <1>10, <1>11, <1>12, <1>13 DEF Next

\* The flash journal implements the atomic durable record that vault.c
\* relies on: acknowledged commits are never lost, interrupted ones end in
\* the old or the new record or in a final denial, and a load never returns
\* an older record, for every bank size and every interruption.
THEOREM JournalRefinement == Spec => RefinesDurableState
<1>1. Init => Durable!Init
  <2> SUFFICES ASSUME Init PROVE Durable!Init
    OBVIOUS
  <2>1. \A p \in Location : flash[p] = BlankCell
    BY DEF Init
  <2>2. Committed = {} /\ (\A p \in Location : Blank(p) /\ ~Ambiguous(p))
    BY <2>1 DEF Committed, IsCommitted, Blank, Ambiguous, BlankCell
  <2>3. ScanStatus = "empty" /\ Stored = Nothing
    BY <2>2 DEF ScanStatus, Stored, Conflict
  <2>4. Denied = FALSE
    BY <2>3 DEF Denied
  <2> QED  BY <2>3, <2>4 DEF Init, Idle, Nothing, Durable!Init, Durable!Nothing
<1>2. TypeOK /\ CommitInv /\ [Next]_vars => [Durable!Next]_(Durable!dvars)
  BY RefinementStep
<1> QED  BY <1>1, <1>2, JournalInvariant, PTL DEF Spec, RefinesDurableState, Durable!Spec

-----------------------------------------------------------------------------
(* What can make the journal undecidable *)

\* A step that makes a journal with a record undecidable was erasing a bank or
\* programming a marker: no other step changes what the scan decides, and an
\* interrupted body leaves neither an ambiguous page nor fewer records.
LEMMA DenialStep ==
    ASSUME TypeOK, CommitInv, Next, ~Denied, Denied', Committed # {}
    PROVE  op.stage \in {"erase", "marker"}
<1>0. TypeOK' /\ CommitInv'
  BY TypeStep, InvStep
<1>1. CASE Load \/ CommitReject \/ PowerCut
  BY <1>1, SameFlash DEF Load, CommitReject, PowerCut
<1>2. ASSUME NEW previous \in 0 .. MaxSequence, NEW v \in Values, CommitBegin(previous, v)
      PROVE  FALSE
  BY <1>2 DEF CommitBegin, Denied
<1>3. CASE EraseBank \/ EraseInterrupted
  BY <1>3 DEF EraseBank, EraseInterrupted
<1>4. CASE ProgramMarker \/ MarkerInterrupted
  BY <1>4 DEF ProgramMarker, MarkerInterrupted
<1>5. CASE ProgramBody
  BY <1>5 DEF ProgramBody, Denied, TypeOK
<1>6. CASE BodyInterrupted
  <2>1. PICK page \in Page : flash' = [flash EXCEPT ![op.at] = Contents(page, "blank", op.seq, op.val)]
    BY <1>6 DEF BodyInterrupted
  <2>2. /\ \A q \in Location : (IsLatest(q)' <=> IsLatest(q)) /\ ~Ambiguous(q)'
        /\ SequencesUnique'
    BY <1>0, <1>6, <2>1, InvBodyPage DEF BodyInterrupted
  <2>3. PICK p \in Location : IsLatest(p)
    BY DEF CommitInv, LatestExists
  <2>4. Committed' # {}
    BY <2>2, <2>3 DEF IsLatest
  <2>5. ~Conflict'
    BY <2>2, NoConflict, PTL
  <2>6. ScanStatus' = "ok"
    BY <2>2, <2>4, <2>5 DEF ScanStatus
  <2> QED  BY <2>6 DEF Denied
<1> QED  BY <1>1, <1>2, <1>3, <1>4, <1>5, <1>6 DEF Next

\* Once a record was committed, an interruption makes the journal undecidable
\* only while a bank is erased or a marker programmed (scan): abandoned bodies
\* never lock the owner out.
THEOREM JournalOnlyEraseOrMarkerDenies == Spec => OnlyEraseOrMarkerDenies
<1>1. TypeOK /\ CommitInv /\ [Next]_vars =>
        [~Denied /\ Denied' /\ Committed # {} => op.stage \in {"erase", "marker"}]_vars
  BY DenialStep
<1> QED  BY <1>1, JournalInvariant, PTL DEF Spec, OnlyEraseOrMarkerDenies
=============================================================================
