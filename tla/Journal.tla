------------------------------ MODULE Journal -------------------------------
(***************************************************************************)
(* The flash journal of the trusted device state (journal.c): two erase    *)
(* banks of fixed records, each record a body page and a separately        *)
(* programmed commit page.  A commit is several flash operations; power    *)
(* may fail, or the flash report an error, in each of them, leaving the    *)
(* page or the bank old, new or torn.  Only the worker core calls the      *)
(* journal, so operations do not overlap each other.                       *)
(*                                                                         *)
(* A record's fields are abstracted to its sequence number and one value;  *)
(* HMACs are abstracted to "a page that was completely programmed decodes, *)
(* any other non-blank page does not".                                     *)
(***************************************************************************)
EXTENDS Integers

CONSTANTS Records,      \* records per bank (8)
          Values,       \* device states a caller may try to commit
          Encodable,    \* the ones body() accepts
          NoValue,      \* not a device state
          MaxSequence   \* UINT64_MAX

ASSUME RecordsAssumption == Records \in Nat \ {0}
ASSUME SequenceAssumption == MaxSequence \in Nat \ {0}
ASSUME ValuesAssumption == Encodable \subseteq Values /\ NoValue \notin Values

VARIABLES flash,   \* [Location -> Cell]
          op,      \* the commit in progress
          view,    \* the record the caller's last load returned
          result   \* what the last call returned ("lost": power failed in it)

vars == <<flash, op, view, result>>

Banks == {0, 1}
Slots == 0 .. Records - 1
Location == Banks \X Slots
Page == {"blank", "torn", "written"}
Cell == [body : Page, commit : Page, seq : 0 .. MaxSequence, val : Values \cup {NoValue}]
BlankCell == [body |-> "blank", commit |-> "blank", seq |-> 0, val |-> NoValue]

\* Fields are readable from a complete body only.
Contents(body, commit, seq, val) ==
    IF body = "written"
    THEN [body |-> body, commit |-> commit, seq |-> seq, val |-> val]
    ELSE [body |-> body, commit |-> commit, seq |-> 0, val |-> NoValue]

Idle == [stage |-> "idle", at |-> <<0, 0>>, seq |-> 0, val |-> NoValue]
Nothing == [seq |-> 0, val |-> NoValue]

-----------------------------------------------------------------------------
(* scan() *)

Blank(p) == flash[p].body = "blank" /\ flash[p].commit = "blank"

\* A record whose body and marker both decode.
IsCommitted(p) == flash[p].body = "written" /\ flash[p].commit = "written"

\* Mutant of Ambiguous: an abandoned body counts as an attempted commit.
AmbiguousBody(p) == ~Blank(p) /\ ~IsCommitted(p)

\* Only an entirely blank commit page proves that no commit was attempted.
Ambiguous(p) == flash[p].commit # "blank" /\ ~IsCommitted(p)

Committed == {p \in Location : IsCommitted(p)}

Before(p, q) == p[1] < q[1] \/ (p[1] = q[1] /\ p[2] < q[2])

\* The scan meets a record with the sequence of the latest one so far but
\* with other contents.
Conflict ==
    \E p, q \in Committed :
        /\ Before(p, q)
        /\ flash[p].seq = flash[q].seq
        /\ flash[p].val # flash[q].val
        /\ \A r \in Committed : Before(r, q) => flash[r].seq <= flash[q].seq

ScanStatus ==
    IF (\E p \in Location : Ambiguous(p)) \/ Conflict THEN "corrupt"
    ELSE IF Committed # {} THEN "ok"
    ELSE IF \A p \in Location : Blank(p) THEN "empty"
    ELSE "corrupt"

\* Mutant of IsLatest: the last record of the scan, whatever its sequence.
IsLastScanned(p) == p \in Committed /\ \A q \in Committed : ~Before(p, q)

\* The first record, in scan order, of the highest sequence.
IsLatest(p) ==
    /\ p \in Committed
    /\ \A q \in Committed :
          \/ flash[q].seq < flash[p].seq
          \/ flash[q].seq = flash[p].seq /\ ~Before(q, p)

Latest == CHOOSE p \in Location : IsLatest(p)

\* What the journal holds: the record of the highest committed sequence.
Stored ==
    IF Committed = {} THEN Nothing
    ELSE [seq |-> flash[Latest].seq, val |-> flash[Latest].val]

-----------------------------------------------------------------------------
(* Where fv_journal_commit puts the next record *)

\* index >= (bank+1)*8: the last cell of the bank was used.
BankFull(b) == ~Blank(<<b, Records - 1>>)

\* The bank a full one is left for; the bank of the latest record is kept.
OtherBank(b) == 1 - b

\* p is the cell after the last used one of its bank.
AfterLastUsed(p) ==
    /\ \A j \in Slots : j >= p[2] => Blank(<<p[1], j>>)
    /\ p[2] > 0 /\ ~Blank(<<p[1], p[2] - 1>>)

\* The cell of the next record, and whether its bank is erased first.
Target(p, erase) ==
    IF Committed = {}
    THEN p = <<0, 0>> /\ ~erase
    ELSE IF BankFull(Latest[1])
    THEN p = <<OtherBank(Latest[1]), 0>> /\ erase
    ELSE p[1] = Latest[1] /\ AfterLastUsed(p) /\ ~erase

-----------------------------------------------------------------------------
(* fv_journal_load *)

Load ==
    /\ op.stage = "idle"
    /\ \/ /\ ScanStatus = "ok"
          /\ view' = Stored
          /\ result' = "ok"
       \/ /\ ScanStatus # "ok"
          /\ view' = Nothing
          /\ result' = ScanStatus
       \/ view' = Nothing /\ result' = "io"
    /\ UNCHANGED <<flash, op>>

(* fv_journal_commit, up to its first flash operation *)

AcceptsPrevious(previous) ==
    /\ previous < MaxSequence
    /\ \/ ScanStatus = "empty" /\ previous = 0
       \/ ScanStatus = "ok" /\ previous = Stored.seq

CommitBegin(previous, v) ==
    /\ op.stage = "idle"
    /\ AcceptsPrevious(previous)
    /\ v \in Encodable
    /\ \E p \in Location, erase \in BOOLEAN :
          /\ Target(p, erase)
          /\ erase \/ Blank(p)
          /\ op' = [stage |-> IF erase THEN "erase" ELSE "body",
                    at |-> p, seq |-> previous + 1, val |-> v]
    /\ UNCHANGED <<flash, view, result>>

\* A wrong predecessor, an invalid state, an undecidable journal or a read
\* error: nothing was touched.
CommitReject ==
    /\ op.stage = "idle"
    /\ result' = "corrupt"
    /\ UNCHANGED <<flash, op, view>>

-----------------------------------------------------------------------------
(* The flash operations of a commit *)

EraseBank ==
    /\ op.stage = "erase"
    /\ flash' = [p \in Location |-> IF p[1] = op.at[1] THEN BlankCell ELSE flash[p]]
    /\ op' = [op EXCEPT !.stage = "body"]
    /\ UNCHANGED <<view, result>>

ProgramBody ==
    /\ op.stage = "body"
    /\ flash' = [flash EXCEPT ![op.at] =
                    Contents("written", "blank", op.seq, op.val)]
    /\ op' = [op EXCEPT !.stage = "marker"]
    /\ UNCHANGED <<view, result>>

ProgramMarker ==
    /\ op.stage = "marker"
    /\ flash' = [flash EXCEPT ![op.at].commit = "written"]
    /\ op' = Idle
    /\ result' = "ok"
    /\ UNCHANGED view

\* The call ends with FV_JOURNAL_IO, or power fails and takes the caller's
\* RAM along.
Interrupted ==
    /\ op' = Idle
    /\ \/ result' = "io" /\ UNCHANGED view
       \/ result' = "lost" /\ view' = Nothing

\* An interrupted erase leaves each page of the bank old, torn or blank.
ErasedPage(page) == {page, "torn", "blank"}

EraseInterrupted ==
    /\ op.stage = "erase"
    /\ \E bodies, commits \in [Slots -> Page] :
          /\ \A i \in Slots :
                /\ bodies[i] \in ErasedPage(flash[<<op.at[1], i>>].body)
                /\ commits[i] \in ErasedPage(flash[<<op.at[1], i>>].commit)
          /\ flash' = [p \in Location |->
                          IF p[1] = op.at[1]
                          THEN Contents(bodies[p[2]], commits[p[2]], flash[p].seq, flash[p].val)
                          ELSE flash[p]]
    /\ Interrupted

\* An interrupted program leaves the page blank, torn or complete.
BodyInterrupted ==
    /\ op.stage = "body"
    /\ \E page \in Page :
          flash' = [flash EXCEPT ![op.at] = Contents(page, "blank", op.seq, op.val)]
    /\ Interrupted

MarkerInterrupted ==
    /\ op.stage = "marker"
    /\ \E page \in Page : flash' = [flash EXCEPT ![op.at].commit = page]
    /\ Interrupted

PowerCut ==
    /\ op.stage = "idle"
    /\ view' = Nothing
    /\ result' = "lost"
    /\ UNCHANGED <<flash, op>>

-----------------------------------------------------------------------------
Init ==
    /\ flash = [p \in Location |-> BlankCell]
    /\ op = Idle
    /\ view = Nothing
    /\ result = "none"

Next ==
    \/ Load
    \/ \E previous \in 0 .. MaxSequence, v \in Values : CommitBegin(previous, v)
    \/ CommitReject
    \/ EraseBank
    \/ ProgramBody
    \/ ProgramMarker
    \/ EraseInterrupted
    \/ BodyInterrupted
    \/ MarkerInterrupted
    \/ PowerCut

Spec == Init /\ [][Next]_vars

-----------------------------------------------------------------------------
(* Properties *)

\* Every page of the two banks is blank, torn or holds a record body() can
\* encode, and no sequence number passes UINT64_MAX.
TypeOK ==
    /\ flash \in [Location -> Cell]
    /\ op \in [stage : {"idle", "erase", "body", "marker"}, at : Location,
               seq : 0 .. MaxSequence, val : Values \cup {NoValue}]
    /\ view \in [seq : 0 .. MaxSequence, val : Values \cup {NoValue}]
    /\ result \in {"none", "ok", "io", "corrupt", "empty", "lost"}

Denied == op.stage = "idle" /\ ScanStatus = "corrupt"

\* The journal is the atomic durable record DurableState describes: an
\* acknowledged commit is never lost, an interrupted one is the old or the
\* new record or a final denial, and no load returns an older record.
Durable == INSTANCE DurableState WITH
    stored <- Stored,
    pending <- [seq |-> op.seq, val |-> op.val],
    denied <- Denied

RefinesDurableState == Durable!Spec

\* No two committed records share a sequence number, so the conflict check
\* of scan() guards against damage only, never against the journal itself.
SequencesUnique ==
    \A p, q \in Committed : flash[p].seq = flash[q].seq => p = q

\* Once a record was committed, an interruption can make the journal
\* undecidable only while a bank is being erased or a marker programmed:
\* abandoned bodies, however many, never lock the owner out.
OnlyEraseOrMarkerDenies ==
    [][~Denied /\ Denied' /\ Committed # {} => op.stage \in {"erase", "marker"}]_vars

-----------------------------------------------------------------------------
(* Why it holds: the inductive invariant behind the properties above *)

\* The scan always finds a latest record when it finds a committed one.
LatestExists == Committed # {} => \E p \in Location : IsLatest(p)

\* A readable body is a device state with a real sequence number.
BodiesReadable ==
    \A p \in Location : flash[p].body = "written" => flash[p].seq > 0 /\ flash[p].val \in Values

\* A commit in progress installs the direct successor of the latest record
\* on a journal without an ambiguous page.
OpSucceeds ==
    op.stage # "idle" =>
        /\ op.seq > 0 /\ op.val \in Values
        /\ \A p \in Location : ~Ambiguous(p)
        /\ Committed = {} => op.seq = 1
        /\ \A p \in Location : IsLatest(p) => op.seq = flash[p].seq + 1

\* Each flash operation finds what the earlier ones prepared: the bank to be
\* erased is not the latest record's, the body goes to a blank cell, and the
\* marker goes to the body it vouches for.
OpPrepared ==
    /\ op.stage = "idle" => op = Idle
    /\ op.stage = "erase" => Committed # {} /\ \A p \in Location : IsLatest(p) => p[1] # op.at[1]
    /\ op.stage = "body" => Blank(op.at)
    /\ op.stage = "marker" => flash[op.at] = Contents("written", "blank", op.seq, op.val)

\* The latest record survives every step of every commit.
CommitInv ==
    /\ LatestExists
    /\ SequencesUnique
    /\ BodiesReadable
    /\ OpSucceeds
    /\ OpPrepared
=============================================================================
