---------------------------- MODULE LegacyJournal ----------------------------
(***************************************************************************)
(* The security journal of the first-generation firmware                   *)
(* (security_journal.c over rp2354_security_flash.c): two erase blocks of  *)
(* pages, one record per page.  A record is appended to the first erased   *)
(* page; when there is none, the block that does not hold the latest       *)
(* record is erased first.  The power may go in the middle of an erase or  *)
(* of a program, and either may fail.                                      *)
(*                                                                         *)
(* A page is its record's sequence number, Erased, or Ruined when it holds *)
(* anything that does not authenticate.  LegacyDevice uses the journal as  *)
(* the one record that Scan finds here.                                    *)
(***************************************************************************)
EXTENDS Integers, FiniteSetsExt

CONSTANTS PagesPerBlock,   \* erase_block_size / FV_JOURNAL_RECORD_SIZE
          MaxSequence,     \* bound: records appended
          MaxMishaps       \* bound: cuts and failed operations

ASSUME PagesAssumption == PagesPerBlock \in Nat \ {0}
ASSUME AppendBounds == MaxSequence \in Nat /\ MaxMishaps \in Nat

VARIABLES page,      \* the flash
          writing,   \* the append under way: what it does next, and where
          known,     \* the newest sequence number acknowledged or recovered
          mishaps

jvars == <<page, writing, known, mishaps>>

Erased == 0
Ruined == -1
Page == 0..(2 * PagesPerBlock - 1)
PagesOf(block) == {p \in Page : p \div PagesPerBlock = block}
Resting == [op |-> "none", at |-> 0]

\* scan: the newest record that authenticates and the first erased page
Scan ==
  LET good == {p \in Page : page[p] > 0}
      free == {p \in Page : page[p] = Erased}
      top == IF good = {} THEN 0 ELSE Max({page[p] : p \in good})
      holders == {p \in good : page[p] = top}
  IN [result |-> IF Cardinality(holders) > 1 THEN "SEQUENCE_ERROR"
                 ELSE IF good = {} THEN "EMPTY" ELSE "OK",
      seq |-> top,
      at |-> IF good = {} THEN -1 ELSE Min(holders),
      free |-> IF free = {} THEN -1 ELSE Min(free)]

\* Mutant: the block with the latest record is erased.
SpareHoldingLatest == IF Scan.at \in PagesOf(0) THEN 0 ELSE 1

\* The block that may be erased; with no record at all it is the first.
Spare == IF Scan.at \in PagesOf(0) THEN 1 ELSE 0

JInit ==
  /\ page \in [Page -> {Erased}] \cup [Page -> {Ruined}]
  /\ writing = Resting /\ known = 0 /\ mishaps = 0

\* fv_security_journal_append, up to its first flash operation.  What it
\* scans is what fv_security_journal_recover would have answered.
AppendRecord ==
  /\ writing = Resting /\ Scan.result \in {"OK", "EMPTY"} /\ Scan.seq < MaxSequence
  /\ known' = Scan.seq
  /\ writing' = IF Scan.free = -1 THEN [op |-> "erase", at |-> Spare]
                ELSE [op |-> "program", at |-> Scan.free]
  /\ UNCHANGED <<page, mishaps>>

\* erase_flash, which checks that every byte was erased
Erase ==
  /\ writing.op = "erase"
  /\ page' = [p \in Page |-> IF p \in PagesOf(writing.at) THEN Erased ELSE page[p]]
  /\ writing' = [op |-> "program", at |-> writing.at * PagesPerBlock]
  /\ UNCHANGED <<known, mishaps>>

\* program_flash, which compares what it wrote
Program ==
  /\ writing.op = "program" /\ page' = [page EXCEPT ![writing.at] = known + 1]
  /\ known' = known + 1 /\ writing' = Resting
  /\ UNCHANGED mishaps

Mishap == mishaps < MaxMishaps /\ mishaps' = mishaps + 1 /\ writing' = Resting
EraseBroken ==
  /\ writing.op = "erase" /\ Mishap
  /\ \E w \in [PagesOf(writing.at) -> {"old", "ruined", "erased"}] :
       page' = [p \in Page |-> IF p \notin PagesOf(writing.at) \/ w[p] = "old" THEN page[p]
                               ELSE IF w[p] = "ruined" THEN Ruined ELSE Erased]
  /\ UNCHANGED known
\* A failed program never leaves the record; a cut may come after its last bit.
ProgramBroken ==
  /\ writing.op = "program" /\ Mishap
  /\ \E left \in {Erased, Ruined, known + 1} : page' = [page EXCEPT ![writing.at] = left]
  /\ UNCHANGED known

JNext == AppendRecord \/ Erase \/ Program \/ EraseBroken \/ ProgramBroken
JSpec == JInit /\ [][JNext]_jvars

\* What has once been acknowledged or recovered is never lost again: recovery
\* finds it or something newer, and never two records of the same sequence.
\* The attempt counter lives here, so going back would give guesses away.
JournalNeverGoesBack == Scan.result # "SEQUENCE_ERROR" /\ Scan.seq >= known
=============================================================================
