----------------------------- MODULE Enrollment -----------------------------
(***************************************************************************)
(* The OTP enrollment lifecycle (enrollment.c): one-way mask states and    *)
(* token secrets in OTP fuses, and the flash journal each enrollment owns. *)
(* Provisioning and destruction are sequences of fuse and flash writes;    *)
(* each may fail or be cut off by a power failure, and only what OTP and   *)
(* flash hold afterwards decides what the next boot does.                  *)
(*                                                                         *)
(* Abstractions.  A token's sixteen fuse rows are one value that tells     *)
(* blank, partly written, written, partly filled and filled apart.  The    *)
(* journal is what module Journal is proved to be: a record that a commit  *)
(* replaces atomically, or an undecidable ("corrupt") medium.  "stale" is  *)
(* any other non-blank flash: records under another token's key, or what   *)
(* an interrupted erase left.  All calls run on the worker core, one at a  *)
(* time.                                                                   *)
(***************************************************************************)
EXTENDS Integers

CONSTANTS SlotCount,   \* FV_OTP_TOKEN_SLOTS (228)
          Legacy,      \* slots whose fuse rows older firmware may have used
          MaxFaults    \* bound on failures and power cuts in one behaviour

Slot == 0 .. SlotCount - 1

ASSUME SlotAssumption == SlotCount \in Nat \ {0}
ASSUME LegacyAssumption == Legacy \subseteq Slot
ASSUME FaultAssumption == MaxFaults \in Nat

VARIABLES mask,     \* page 3: the three-bit state of each slot
          token,    \* the fuse rows of each slot's secret
          journal,  \* the two flash banks
          ram,      \* fv_enrollment_device: opened, terminal, token_slot
          pc,       \* where the call in progress is
          cur,      \* its slot variable
          faults    \* failures so far

vars == <<mask, token, journal, ram, pc, cur, faults>>

Mask == {"unused", "started", "revoking", "ready", "revoked"}
Token == {"blank", "foreign", "partial", "written", "filling", "burned"}
Status == {"EMPTY", "ACTIVE", "LOCKED", "DESTROY_PENDING"}
FlashState == [kind : {"blank", "stale", "corrupt", "record"}, slot : Slot, status : Status]
PC == {"idle", "prepare", "sweep", "pick", "secret", "erase", "commit", "ready", "revoke", "burn"}

Flash(kind) == [kind |-> kind, slot |-> 0, status |-> "EMPTY"]
RecordOf(s, st) == [kind |-> "record", slot |-> s, status |-> st]
Closed == [opened |-> FALSE, terminal |-> FALSE, slot |-> 0]

-----------------------------------------------------------------------------
(* inspect_mask and fv_enrollment_open *)

Ready == {s \in Slot : mask[s] = "ready"}
Started == {s \in Slot : mask[s] \in {"started", "revoking"}}
Revoked == {s \in Slot : mask[s] = "revoked"}

\* More than one READY slot, or READY beside an interrupted one, is refused.
Decidable ==
    /\ \A s, t \in Ready : s = t
    /\ Ready = {} \/ Started = {}

IsLastRevoked(s) == s \in Revoked /\ \A t \in Revoked : t <= s

AllTokensBlank == \A s \in Slot : token[s] = "blank"

\* fv_journal_load under the key of slot s.
JournalLoads(s) ==
    token[s] = "written" /\ journal.kind = "record" /\ journal.slot = s

\* load(): the status the authority reports, or "error".
LoadStatus ==
    IF ram.terminal
    THEN IF mask[ram.slot] # "revoked" THEN "error"
         ELSE IF token[ram.slot] = "burned" THEN "DESTROYED" ELSE "DESTROY_PENDING"
    ELSE IF ram.opened /\ mask[ram.slot] = "ready" /\ JournalLoads(ram.slot)
         THEN journal.status
         ELSE "error"

\* What fv_enrollment_open returns on the present OTP and flash.
OpenResult ==
    IF ~Decidable THEN "denied"
    ELSE IF Ready # {} THEN (IF \A s \in Ready : JournalLoads(s) THEN "enrolled" ELSE "denied")
    ELSE IF Started # {} THEN "setup"
    ELSE IF Revoked # {} THEN "revoked"
    ELSE IF ~AllTokensBlank THEN "setup"
    ELSE IF journal.kind = "blank" THEN "virgin" ELSE "denied"

\* The device structure fv_enrollment_open leaves behind.
OpenedRam(r) ==
    IF Decidable /\ Ready # {}
    THEN \E s \in Ready : r = [opened |-> TRUE, terminal |-> FALSE, slot |-> s]
    ELSE IF Decidable /\ Started = {} /\ Revoked # {}
    THEN \E s \in Revoked :
            /\ IsLastRevoked(s)
            /\ r = [opened |-> FALSE, terminal |-> TRUE, slot |-> s]
    ELSE r = [ram EXCEPT !.opened = FALSE, !.terminal = FALSE]

Open ==
    /\ pc = "idle"
    /\ \E s \in Slot, o, t \in BOOLEAN :
          LET r == [opened |-> o, terminal |-> t, slot |-> s]
          IN OpenedRam(r) /\ ram' = r
    /\ UNCHANGED <<mask, token, journal, pc, cur, faults>>

-----------------------------------------------------------------------------
(* Failures.  A call that fails returns; a power cut also loses the RAM.   *)

Fault == faults < MaxFaults /\ faults' = faults + 1

\* The call ends with an error, leaving the device structure as r, or power
\* fails.
Ends(r) ==
    /\ Fault
    /\ pc' = "idle"
    /\ cur' = 0
    /\ ram' \in {r, Closed}

Unopened == [ram EXCEPT !.opened = FALSE]

PowerCut ==
    /\ Fault
    /\ pc' = "idle"
    /\ cur' = 0
    /\ ram' = Closed
    /\ UNCHANGED <<mask, token, journal>>

-----------------------------------------------------------------------------
(* fv_enrollment_prepare_flash: only while OTP is entirely blank *)

PrepareBegin ==
    /\ pc = "idle"
    /\ \A s \in Slot : mask[s] = "unused"
    /\ AllTokensBlank
    /\ ram' = Unopened
    /\ pc' = IF journal.kind = "blank" THEN "idle" ELSE "prepare"
    /\ UNCHANGED <<mask, token, journal, cur, faults>>

PrepareErase ==
    /\ pc = "prepare"
    /\ journal' = Flash("blank")
    /\ pc' = "idle"
    /\ UNCHANGED <<mask, token, ram, cur, faults>>

PrepareFails ==
    /\ pc = "prepare"
    /\ journal' \in {journal, Flash("stale"), Flash("blank")}
    /\ Ends(ram)
    /\ UNCHANGED <<mask, token>>

-----------------------------------------------------------------------------
(* fv_enrollment_provision *)

\* With a READY slot nothing is programmed: only an EMPTY one may be used.
ProvisionExisting ==
    /\ pc = "idle"
    /\ Decidable /\ Ready # {}
    /\ \E s \in Ready : ram' = [opened |-> TRUE, terminal |-> FALSE, slot |-> s]
    /\ UNCHANGED <<mask, token, journal, pc, cur, faults>>

\* Mutant of ProvisionBegin: interrupted slots are not swept first.
ProvisionUnswept ==
    /\ pc = "idle"
    /\ Decidable /\ Ready = {}
    /\ ram' = [ram EXCEPT !.opened = FALSE, !.terminal = FALSE]
    /\ pc' = "pick"
    /\ UNCHANGED <<mask, token, journal, cur, faults>>

ProvisionBegin ==
    /\ pc = "idle"
    /\ Decidable /\ Ready = {}
    /\ ram' = [ram EXCEPT !.opened = FALSE, !.terminal = FALSE]
    /\ pc' = "sweep"
    /\ cur' = 0
    /\ UNCHANGED <<mask, token, journal, faults>>

\* The sweep abandons interrupted slots and finishes every burn.
SweepRevoking ==
    /\ pc = "sweep" /\ mask[cur] = "started"
    /\ mask' = [mask EXCEPT ![cur] = "revoking"]
    /\ UNCHANGED <<token, journal, ram, pc, cur, faults>>

SweepRevoked ==
    /\ pc = "sweep" /\ mask[cur] = "revoking"
    /\ mask' = [mask EXCEPT ![cur] = "revoked"]
    /\ UNCHANGED <<token, journal, ram, pc, cur, faults>>

SweepBurn ==
    /\ pc = "sweep" /\ mask[cur] = "revoked" /\ token[cur] # "burned"
    /\ token' = [token EXCEPT ![cur] = "burned"]
    /\ UNCHANGED <<mask, journal, ram, pc, cur, faults>>

\* The sweep passes slots that are unused, or revoked and burned.
SweepPasses(s) == mask[s] = "unused" \/ (mask[s] = "revoked" /\ token[s] = "burned")

SweepNext ==
    /\ pc = "sweep"
    /\ SweepPasses(cur)
    /\ IF cur + 1 < SlotCount
       THEN cur' = cur + 1 /\ pc' = pc
       ELSE cur' = 0 /\ pc' = "pick"
    /\ UNCHANGED <<mask, token, journal, ram, faults>>

\* A failed mask write may or may not have set its one bit; a failed burn
\* may have filled some rows.
SweepFails ==
    /\ pc = "sweep"
    /\ \/ /\ mask[cur] = "started"
          /\ mask' \in {mask, [mask EXCEPT ![cur] = "revoking"]}
          /\ UNCHANGED token
       \/ /\ mask[cur] = "revoking"
          /\ mask' \in {mask, [mask EXCEPT ![cur] = "revoked"]}
          /\ UNCHANGED token
       \/ /\ mask[cur] = "revoked" /\ token[cur] # "burned"
          /\ token' \in {token, [token EXCEPT ![cur] = "filling"], [token EXCEPT ![cur] = "burned"]}
          /\ UNCHANGED mask
    /\ Ends(ram)
    /\ UNCHANGED journal

\* Occupied legacy rows are excluded, not rewritten.
Free(s) == mask[s] = "unused" /\ token[s] = "blank"

IsFirstFree(s) == Free(s) /\ \A t \in Slot : Free(t) => s <= t

Pick(s) ==
    /\ pc = "pick"
    /\ IsFirstFree(s)
    /\ mask' = [mask EXCEPT ![s] = "started"]
    /\ cur' = s
    /\ pc' = "secret"
    /\ UNCHANGED <<token, journal, ram, faults>>

PickFails ==
    /\ pc = "pick"
    /\ \/ mask' = mask
       \/ \E s \in Slot : IsFirstFree(s) /\ mask' = [mask EXCEPT ![s] = "started"]
    /\ Ends(ram)
    /\ UNCHANGED <<token, journal>>

NoFreeSlot ==
    /\ pc = "pick"
    /\ \A s \in Slot : ~Free(s)
    /\ pc' = "idle"
    /\ UNCHANGED <<mask, token, journal, ram, cur, faults>>

WriteSecret ==
    /\ pc = "secret"
    /\ token[cur] = "blank"
    /\ token' = [token EXCEPT ![cur] = "written"]
    /\ ram' = [opened |-> TRUE, terminal |-> FALSE, slot |-> cur]
    /\ pc' = "erase"
    /\ UNCHANGED <<mask, journal, cur, faults>>

WriteSecretFails ==
    /\ pc = "secret"
    /\ token' \in {token, [token EXCEPT ![cur] = "partial"], [token EXCEPT ![cur] = "written"]}
    /\ Ends(Unopened)
    /\ UNCHANGED <<mask, journal>>

\* Mutant of EraseJournal: READY is set before the first record is committed.
EraseThenReady ==
    /\ pc = "erase"
    /\ journal' = Flash("blank")
    /\ pc' = "ready"
    /\ UNCHANGED <<mask, token, ram, cur, faults>>

EraseJournal ==
    /\ pc = "erase"
    /\ journal' = Flash("blank")
    /\ pc' = "commit"
    /\ UNCHANGED <<mask, token, ram, cur, faults>>

EraseJournalFails ==
    /\ pc = "erase"
    /\ journal' \in {journal, Flash("stale"), Flash("blank")}
    /\ Ends(Unopened)
    /\ UNCHANGED <<mask, token>>

CommitEmpty ==
    /\ pc = "commit"
    /\ journal' = RecordOf(cur, "EMPTY")
    /\ pc' = "ready"
    /\ UNCHANGED <<mask, token, ram, cur, faults>>

CommitEmptyFails ==
    /\ pc = "commit"
    /\ journal' \in {journal, Flash("corrupt"), RecordOf(cur, "EMPTY")}
    /\ Ends(Unopened)
    /\ UNCHANGED <<mask, token>>

SetReady ==
    /\ pc = "ready"
    /\ mask' = [mask EXCEPT ![cur] = "ready"]
    /\ pc' = "idle"
    /\ cur' = 0
    /\ UNCHANGED <<token, journal, ram, faults>>

SetReadyFails ==
    /\ pc = "ready"
    /\ mask' \in {mask, [mask EXCEPT ![cur] = "ready"]}
    /\ Ends(Unopened)
    /\ UNCHANGED <<token, journal>>

-----------------------------------------------------------------------------
(* The authority's commit as vault.c uses it, and destruction *)

\* Mutant of Successors: a pending destruction may be taken back.
SuccessorsReviving(st) ==
    IF st \in {"EMPTY", "DESTROY_PENDING"} THEN {"ACTIVE"}
    ELSE IF st = "ACTIVE" THEN {"ACTIVE", "LOCKED"} ELSE {}

\* vault.c persists these successors of a loaded status.
Successors(st) ==
    CASE st = "EMPTY"  -> {"ACTIVE"}
      [] st = "ACTIVE" -> {"ACTIVE", "LOCKED"}
      [] OTHER         -> {}

Commit ==
    /\ pc = "idle"
    /\ \E st \in Successors(LoadStatus) : journal' = RecordOf(ram.slot, st)
    /\ UNCHANGED <<mask, token, ram, pc, cur, faults>>

CommitFails ==
    /\ pc = "idle"
    /\ \E st \in Successors(LoadStatus) :
          journal' \in {journal, Flash("corrupt"), RecordOf(ram.slot, st)}
    /\ Ends(ram)
    /\ UNCHANGED <<mask, token>>

\* limit() of vault.c and fv_enrollment_request_destruction: persist the
\* intent before any fuse is touched.
RequestDestruction ==
    /\ pc = "idle"
    /\ LoadStatus \in {"ACTIVE", "LOCKED"}
    /\ journal' = RecordOf(ram.slot, "DESTROY_PENDING")
    /\ pc' = "revoke"
    /\ UNCHANGED <<mask, token, ram, cur, faults>>

RequestDestructionFails ==
    /\ pc = "idle"
    /\ LoadStatus \in {"ACTIVE", "LOCKED"}
    /\ journal' \in {journal, Flash("corrupt"), RecordOf(ram.slot, "DESTROY_PENDING")}
    /\ Ends(ram)
    /\ UNCHANGED <<mask, token>>

\* Mutant of RecoverDestruction: a terminal enrollment is not resumed.
RecoverOpenedOnly ==
    /\ pc = "idle"
    /\ ram.opened /\ LoadStatus = "DESTROY_PENDING"
    /\ pc' = "revoke"
    /\ UNCHANGED <<mask, token, journal, ram, cur, faults>>

\* recover() of vault.c finds an unfinished destruction, at boot or before
\* the next operation.
RecoverDestruction ==
    /\ pc = "idle"
    /\ LoadStatus = "DESTROY_PENDING"
    /\ pc' = "revoke"
    /\ UNCHANGED <<mask, token, journal, ram, cur, faults>>

\* destroy(): revocation first, then the fill.
Revoke ==
    /\ pc = "revoke"
    /\ LoadStatus = "DESTROY_PENDING"
    /\ mask' = [mask EXCEPT ![ram.slot] = "revoked"]
    /\ ram' = [ram EXCEPT !.terminal = TRUE, !.opened = FALSE]
    /\ pc' = "burn"
    /\ UNCHANGED <<token, journal, cur, faults>>

RevokeFails ==
    /\ pc = "revoke"
    /\ mask' \in {mask, [mask EXCEPT ![ram.slot] = "revoked"]}
    /\ Ends(ram)
    /\ UNCHANGED <<token, journal>>

Burn ==
    /\ pc = "burn"
    /\ token' = [token EXCEPT ![ram.slot] = "burned"]
    /\ pc' = "idle"
    /\ UNCHANGED <<mask, journal, ram, cur, faults>>

BurnFails ==
    /\ pc = "burn"
    /\ token' \in {token, [token EXCEPT ![ram.slot] = "filling"], [token EXCEPT ![ram.slot] = "burned"]}
    /\ Ends(ram)
    /\ UNCHANGED <<mask, journal>>

-----------------------------------------------------------------------------
\* A board as delivered, or one whose flash or fuse rows older firmware used.
Init ==
    /\ mask = [s \in Slot |-> "unused"]
    /\ token \in [Slot -> {"blank", "foreign"}]
    /\ \A s \in Slot : token[s] = "foreign" => s \in Legacy
    /\ journal \in {Flash("blank"), Flash("stale")}
    /\ ram = Closed
    /\ pc = "idle"
    /\ cur = 0
    /\ faults = 0

Provision ==
    \/ ProvisionExisting \/ ProvisionBegin
    \/ SweepRevoking \/ SweepRevoked \/ SweepBurn \/ SweepNext \/ SweepFails
    \/ \E s \in Slot : Pick(s)
    \/ PickFails \/ NoFreeSlot
    \/ WriteSecret \/ WriteSecretFails
    \/ EraseJournal \/ EraseJournalFails
    \/ CommitEmpty \/ CommitEmptyFails
    \/ SetReady \/ SetReadyFails

Destruction ==
    \/ RequestDestruction \/ RequestDestructionFails \/ RecoverDestruction
    \/ Revoke \/ RevokeFails \/ Burn \/ BurnFails

Next ==
    \/ Open
    \/ PowerCut
    \/ PrepareBegin \/ PrepareErase \/ PrepareFails
    \/ Provision
    \/ Commit \/ CommitFails
    \/ Destruction

Spec == Init /\ [][Next]_vars

\* Once faults stop, a device that is powered runs its boot path (open, then
\* recover) and finishes the call it is in.  No fairness is assumed of the
\* user: setup need not be started, though a started one proceeds.
Fairness ==
    /\ WF_vars(Open)
    /\ WF_vars(RecoverDestruction)
    /\ WF_vars(Revoke)
    /\ WF_vars(Burn)
    /\ WF_vars(PrepareErase)
    /\ WF_vars(SweepRevoking \/ SweepRevoked \/ SweepBurn \/ SweepNext)
    /\ WF_vars(NoFreeSlot \/ \E s \in Slot : Pick(s))
    /\ WF_vars(WriteSecret \/ EraseJournal \/ CommitEmpty \/ SetReady)

FairSpec == Spec /\ Fairness

-----------------------------------------------------------------------------
(* Properties *)

\* Masks, secrets, journal, device structure and call position have the
\* values the code can give them; every slot index stays in the allocation.
TypeOK ==
    /\ mask \in [Slot -> Mask]
    /\ token \in [Slot -> Token]
    /\ journal \in FlashState
    /\ ram \in [opened : BOOLEAN, terminal : BOOLEAN, slot : Slot]
    /\ pc \in PC
    /\ cur \in Slot
    /\ faults \in 0 .. MaxFaults

\* However provisioning and destruction are cut off, inspect_mask never
\* meets the ambiguous masks it refuses.
MaskDecidable == Decidable

\* A READY slot has its complete secret and the journal of that enrollment,
\* or one that a torn commit made undecidable: never a blank or an older
\* enrollment's journal, which would be a fresh attempt counter.
ReadyOwnsJournal ==
    \A s \in Ready :
        /\ token[s] = "written"
        /\ journal.kind = "corrupt" \/ (journal.kind = "record" /\ journal.slot = s)

\* A revoked secret that is not yet filled is the one fv_enrollment_open
\* reports (the highest revoked slot), with no enrollment begun beside it: so
\* DESTROYED is reported, and a new enrollment begun, only when every earlier
\* secret is gone.
LastRevokedCoversAll ==
    \A t \in Revoked :
        token[t] # "burned" => IsLastRevoked(t) /\ Ready = {} /\ Started = {}

\* fv_enrollment_open denies a board only for a torn journal of an enrolled
\* slot or for flash that was not prepared on a virgin board: no cut of
\* provisioning or destruction bricks the device.
NeverBricked ==
    OpenResult = "denied" =>
        \/ Ready # {} /\ journal.kind = "corrupt"
        \/ (\A s \in Slot : mask[s] = "unused") /\ journal.kind = "stale"

\* Fuse rows that older firmware occupied are never claimed or overwritten.
LegacyUntouched ==
    [][\A s \in Slot : token[s] = "foreign" => token'[s] = "foreign" /\ mask'[s] = "unused"]_vars

\* A secret is written into blank rows of its STARTED slot, and its rows are
\* touched again only after the mask says REVOKED.
RevokeBeforeBurn ==
    [][\A s \in Slot : token'[s] # token[s] =>
          \/ token[s] = "blank" /\ mask[s] = "started"
          \/ mask[s] = "revoked"]_vars

\* Slot s is irrevocably on its way to destruction.
Doomed(s) ==
    \/ mask[s] \in {"revoking", "revoked"}
    \/ mask[s] = "ready" /\ journal = RecordOf(s, "DESTROY_PENDING")

\* binding() would release the key of slot s.
Bindable(s) == ram.slot = s /\ LoadStatus \in {"EMPTY", "ACTIVE"}

\* Once its destruction is durable, in the journal or in the mask, a slot
\* never gets out of it and never releases a key again, reboots included.
DestructionIsFinal ==
    [][\A s \in Slot : Doomed(s) => Doomed(s)' /\ ~Bindable(s)']_vars

\* A destruction that became durable is finished: the secret's rows are all
\* filled, however often the device was cut off before.  (An abandoned setup
\* that only reached REVOKING waits for the user's next setup.)
DestructionCompletes ==
    \A s \in Slot : (Doomed(s) /\ mask[s] # "revoking") ~> (token[s] = "burned")

-----------------------------------------------------------------------------
(* Why it holds: the inductive invariant behind the properties above *)

Live(s) == mask[s] \in {"started", "revoking", "ready"}

\* Slots are consumed in order: free ones lie above all used ones, and the
\* one live slot lies above all revoked ones, whose secrets are gone.
SlotOrder ==
    /\ \A s, t \in Slot : Live(s) /\ Live(t) => s = t
    /\ \A s, t \in Slot : mask[s] # "unused" /\ Free(t) => s < t
    /\ \A s, t \in Slot : Live(s) /\ mask[t] = "revoked" => t < s /\ token[t] = "burned"
    /\ LastRevokedCoversAll

\* What a slot's mask says of its secret and of the journal.
MaskTells ==
    /\ \A s \in Slot : mask[s] = "unused" => token[s] \in {"blank", "foreign"}
    /\ \A s \in Slot : token[s] = "foreign" => mask[s] = "unused"
    /\ ReadyOwnsJournal
    /\ (\A s \in Slot : mask[s] = "unused") => journal.kind \in {"blank", "stale"}

\* What a call in progress has established so far.
CallProgress ==
    /\ pc = "prepare" => \A s \in Slot : mask[s] = "unused"
    /\ pc = "sweep" => Ready = {} /\ \A s \in Slot : s < cur => SweepPasses(s)
    /\ pc = "pick" => \A s \in Slot : SweepPasses(s)
    /\ pc = "secret" => mask[cur] = "started" /\ token[cur] = "blank"
    /\ pc \in {"erase", "commit", "ready"} => mask[cur] = "started" /\ token[cur] = "written"
    /\ pc = "ready" => journal = RecordOf(cur, "EMPTY")
    /\ pc = "revoke" => LoadStatus = "DESTROY_PENDING"
    /\ pc = "burn" => mask[ram.slot] = "revoked" /\ token[ram.slot] # "burned"

\* One live slot at a time, above the spent ones, with its own journal.
EnrollInv == SlotOrder /\ MaskTells /\ CallProgress
=============================================================================
