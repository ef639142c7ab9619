------------------------------- MODULE Vault -------------------------------
(***************************************************************************)
(* The vault lifecycle (vault.c): creating a volume, unlocking it under a  *)
(* durable attempt counter, re-verification, changing the credential, and  *)
(* the limit's lockout or destruction.  The anchor is the authenticated    *)
(* record of the device authority (modules Journal and Enrollment); the    *)
(* media are the two header copies on the SD card, which the device does   *)
(* not trust.  Every call runs on the worker core; a step is one durable   *)
(* write or one evaluation of a credential, so that power may fail between *)
(* any two of them.                                                        *)
(*                                                                         *)
(* Abstractions.  A sealed header is known by the number of the seal that  *)
(* made it, which stands for the SHA-256 of its 512 bytes (seals draw a    *)
(* fresh salt); 0 is a sector that is unreadable, torn or not ours.        *)
(* Opening a header succeeds exactly for the credential it was sealed with *)
(* (envelope.c).  An uncertain commit leaves the old record, the new one   *)
(* or an undecidable journal, as module Journal shows.                     *)
(***************************************************************************)
EXTENDS Integers, Sequences

CONSTANTS Secret,         \* credentials
          Policy,         \* policies offered to create and change
          MaxGeneration,  \* UINT64_MAX of credential_generation
          MaxSeals,       \* bound on headers sealed in one behaviour
          MaxFaults       \* bound on failures and power cuts in one behaviour

\* fv_auth_policy_encode: no maximum without a limit, a positive one with it.
PolicyValid(p) == IF p.action = "NONE" THEN p.max = 0 ELSE p.max > 0

ASSUME PolicyAssumption ==
    /\ Policy \subseteq [max : Nat, action : {"DESTROY", "LOCKOUT", "NONE"}]
    /\ \A p \in Policy : PolicyValid(p)
ASSUME VaultBounds ==
    /\ MaxGeneration \in Nat \ {0}
    /\ MaxSeals \in Nat
    /\ MaxFaults \in Nat

VARIABLES anchor,   \* fv_device_state: the committed record
          sealed,   \* every header sealed so far, by number
          media,    \* which header each of the two copies on the card holds
          session,  \* the header the unlocked fv_vault was opened with, or 0
          call,     \* the operation in progress and its arguments
          pc,       \* where it is
          slot,     \* the copy select_header found
          header,   \* the header it read from there
          failed,   \* did the evaluation fail?
          guesses,  \* wrong credentials evaluated since the last right one
          result,   \* what the last call returned
          faults,   \* failures so far
          altered   \* is the card one that people swap and damage?

state == <<anchor, sealed, media, session, call, pc, slot, header, failed, guesses, result,
           faults>>
vars == <<state, altered>>

Action == {"DESTROY", "LOCKOUT", "NONE"}
PolicyType == [max : Nat, action : Action]
Header == [gen : Nat, policy : PolicyType, secret : Secret, vol : Nat]
Status == {"EMPTY", "ACTIVE", "LOCKED", "DESTROY_PENDING", "DESTROYED", "UNREADABLE"}
Op == {"none", "recover", "create", "unlock", "reverify", "change", "erase"}
PC == {"idle", "recover", "clear", "limit", "request", "destroy", "ready", "copy0", "copy1",
       "activate", "charge", "evaluate", "settle", "open", "repair", "reseal", "save", "anchor",
       "mirror"}
Result == {"none", "OK", "INVALID", "IO", "STATE", "AUTH", "DENIED", "CHANGED_NEEDS_MIRROR"}

NoPolicy == [max |-> 0, action |-> "NONE"]
NoCall == [op |-> "none", old |-> {}, new |-> {}, policy |-> NoPolicy, approved |-> FALSE, base |-> 0]

-----------------------------------------------------------------------------
(* Helpers *)

Limited(p) == p.action # "NONE"

AtLimit(a) == a.status = "ACTIVE" /\ Limited(a.policy) /\ a.attempts = a.policy.max

\* state_valid(): what load() results the code accepts.
StateValid(a) ==
    IF a.status = "EMPTY" THEN a.attempts = 0 /\ ~a.pending /\ a.gen = 0
    ELSE /\ a.gen # 0
         /\ PolicyValid(a.policy)
         /\ a.attempts <= a.policy.max
         /\ a.pending => a.attempts # 0

Loads == anchor.status # "UNREADABLE" /\ StateValid(anchor)

\* Mutant of Selectable: any header of this volume will do.
SelectableByVolume(h) == h # 0 /\ sealed[h].vol = anchor.vol

\* matches() and the hash check of select_header, for a header number.
Selectable(h) ==
    /\ h # 0
    /\ h = anchor.hdr
    /\ sealed[h].gen = anchor.gen
    /\ sealed[h].policy = anchor.policy
    /\ sealed[h].vol = anchor.vol

Fault == faults < MaxFaults /\ faults' = faults + 1

Goto(l) == pc' = l /\ UNCHANGED <<call, result, slot, header, failed>>

Return(r) ==
    /\ pc' = "idle"
    /\ result' = r
    /\ call' = NoCall
    /\ slot' = 0
    /\ header' = 0
    /\ failed' = FALSE

\* What ends a call without success locks the vault; fv_vault_recover does
\* not touch it.
Locks == session' = IF call.op = "recover" THEN session ELSE 0

-----------------------------------------------------------------------------
(* The calls *)

Begin(c, start) ==
    /\ pc = "idle"
    /\ call' = [c EXCEPT !.base = anchor.hdr]
    /\ pc' = start
    /\ result' = "none"
    /\ UNCHANGED <<anchor, sealed, media, slot, header, failed, guesses, faults>>

\* fv_vault_recover, at boot.
Recover == Begin([NoCall EXCEPT !.op = "recover"], "recover") /\ UNCHANGED session

\* Creating, unlocking and changing drop the session first.
Create(new, p) ==
    /\ Len(sealed) < MaxSeals
    /\ Begin([NoCall EXCEPT !.op = "create", !.new = {new}, !.policy = p], "recover")
    /\ session' = 0

Unlock(old) == Begin([NoCall EXCEPT !.op = "unlock", !.old = {old}], "recover") /\ session' = 0

Change(old, new, p, approved) ==
    /\ Len(sealed) < MaxSeals
    /\ Begin([op |-> "change", old |-> {old}, new |-> {new}, policy |-> p, approved |-> approved,
              base |-> 0], "recover")
    /\ session' = 0

Reverify(old) ==
    /\ session # 0
    /\ Begin([NoCall EXCEPT !.op = "reverify", !.old = {old}], "recover")
    /\ UNCHANGED session

\* UI_ERASE: only from an unlocked session, which it drops first.
Erase ==
    /\ session # 0
    /\ Begin([NoCall EXCEPT !.op = "erase"], "request")
    /\ session' = 0

\* fv_vault_lock, by itself or after a failure of fv_vault_read or _write.
Lock ==
    /\ pc = "idle" /\ session # 0
    /\ session' = 0
    /\ UNCHANGED <<anchor, sealed, media, call, pc, slot, header, failed, guesses, result, faults>>

-----------------------------------------------------------------------------
(* Durable writes: the record a commit writes, by the place it is called   *)
(* from, and the copy save_header writes                                   *)

Newest == Len(sealed)

LimitStatus(p) == IF p.action = "DESTROY" THEN "DESTROY_PENDING" ELSE "LOCKED"

\* Mutant of SettledRecord: a wrong credential resets the counter.
ResetRecord    == [anchor EXCEPT !.attempts = 0, !.pending = FALSE]

ClearedRecord  == [anchor EXCEPT !.pending = FALSE]
LimitRecord    == [anchor EXCEPT !.status = LimitStatus(anchor.policy), !.pending = FALSE]
RequestRecord  == [anchor EXCEPT !.status = "DESTROY_PENDING", !.pending = FALSE]
CreatedRecord  == [anchor EXCEPT !.status = "ACTIVE", !.gen = 1, !.policy = call.policy,
                                 !.hdr = Newest, !.vol = sealed[Newest].vol]
ChargedRecord  == [anchor EXCEPT !.attempts = @ + 1, !.pending = TRUE]
SettledRecord  == [anchor EXCEPT !.attempts = IF failed THEN @ ELSE 0, !.pending = FALSE]
ChangedRecord  == [anchor EXCEPT !.gen = sealed[Newest].gen, !.policy = call.policy, !.hdr = Newest]

NextRecord ==
    CASE pc = "clear"    -> ClearedRecord
      [] pc = "limit"    -> LimitRecord
      [] pc = "request"  -> RequestRecord
      [] pc = "activate" -> CreatedRecord
      [] pc = "charge"   -> ChargedRecord
      [] pc = "settle"   -> SettledRecord
      [] pc = "anchor"   -> ChangedRecord

Committing == {"clear", "limit", "request", "activate", "charge", "settle", "anchor"}

Commit(at) ==
    /\ pc = at
    /\ anchor' = NextRecord
    /\ UNCHANGED <<sealed, media, guesses, faults>>

\* Every caller gives up with STATE.
CommitFails ==
    /\ pc \in Committing
    /\ anchor' \in {anchor, NextRecord, [anchor EXCEPT !.status = "UNREADABLE"]}
    /\ Fault /\ Return("STATE") /\ Locks
    /\ UNCHANGED <<sealed, media, guesses>>

\* Mutant of SavedCopy: a change overwrites the copy it selected.
SavedOverSelected ==
    CASE pc = "copy0" -> 0
      [] pc = "copy1" -> 1
      [] pc = "repair" -> 1 - slot
      [] pc \in {"save", "mirror"} -> slot

\* The new header goes to the copy that was not selected, then over the
\* other; creation writes both, and repair the one that was not selected.
SavedCopy ==
    CASE pc = "copy0" -> 0
      [] pc = "copy1" -> 1
      [] pc \in {"save", "repair"} -> 1 - slot
      [] pc = "mirror" -> slot

SavedHeader == IF pc = "repair" THEN header ELSE Newest

\* Mutant of AfterSave: a change never commits its anchor.
AfterSaveUnanchored ==
    CASE pc = "copy0" -> "copy1"
      [] pc = "copy1" -> "activate"
      [] pc = "save"  -> "mirror"

AfterSave ==
    CASE pc = "copy0" -> "copy1"
      [] pc = "copy1" -> "activate"
      [] pc = "save"  -> "anchor"

SaveHeader ==
    /\ pc \in {"copy0", "copy1", "save"}
    /\ media' = [media EXCEPT ![SavedCopy] = SavedHeader]
    /\ Goto(AfterSave)
    /\ UNCHANGED <<anchor, sealed, session, guesses, faults>>

\* The last write of a call: the mirror of a change, which ends locked, or
\* the repair of an unlock.
SaveLast ==
    /\ pc \in {"mirror", "repair"}
    /\ media' = [media EXCEPT ![SavedCopy] = SavedHeader]
    /\ session' = IF pc = "mirror" THEN 0 ELSE session
    /\ Return("OK")
    /\ UNCHANGED <<anchor, sealed, guesses, faults>>

\* A write that fails may leave the old sector, the new one or neither.  A
\* failed repair is only noted, unless the card is gone.
SaveFails ==
    /\ pc \in {"copy0", "copy1", "save", "mirror", "repair"}
    /\ \E h \in {media[SavedCopy], 0, SavedHeader} : media' = [media EXCEPT ![SavedCopy] = h]
    /\ Fault
    /\ \/ Return(IF pc = "mirror" THEN "CHANGED_NEEDS_MIRROR" ELSE "IO") /\ Locks
       \/ pc = "repair" /\ Return("OK") /\ UNCHANGED session
    /\ UNCHANGED <<anchor, sealed, guesses>>

-----------------------------------------------------------------------------
(* recover(), limit() and destruction *)

RecoverDenied ==
    /\ pc = "recover"
    /\ ~Loads \/ anchor.status \in {"LOCKED", "DESTROYED"}
    /\ Return(IF Loads THEN "DENIED" ELSE "STATE") /\ Locks
    /\ UNCHANGED <<anchor, sealed, media, guesses, faults>>

\* Mutant of RecoverLoaded: the limit is not looked at again.
RecoverIgnoringLimit ==
    /\ pc = "recover"
    /\ Loads /\ anchor.status \notin {"LOCKED", "DESTROYED"}
    /\ Goto(IF anchor.status = "DESTROY_PENDING" THEN "destroy"
            ELSE IF anchor.pending THEN "clear" ELSE "ready")
    /\ UNCHANGED <<anchor, sealed, media, session, guesses, faults>>

\* An attempt that power cut short stays charged; only its mark is cleared.
RecoverLoaded ==
    /\ pc = "recover"
    /\ Loads /\ anchor.status \notin {"LOCKED", "DESTROYED"}
    /\ Goto(IF anchor.status = "DESTROY_PENDING" THEN "destroy"
            ELSE IF AtLimit(anchor) THEN "limit"
            ELSE IF anchor.pending THEN "clear" ELSE "ready")
    /\ UNCHANGED <<anchor, sealed, media, session, guesses, faults>>

Clear == Commit("clear") /\ Goto("ready") /\ UNCHANGED session

Limit ==
    /\ Commit("limit")
    /\ IF LimitStatus(anchor.policy) = "DESTROY_PENDING"
       THEN Goto("destroy") /\ UNCHANGED session
       ELSE Return("DENIED") /\ Locks

\* fv_enrollment_request_destruction persists the intent first.
Request == Commit("request") /\ Goto("destroy") /\ UNCHANGED session

\* authority.destroy: the secret is revoked and burned (module Enrollment).
Destroy ==
    /\ pc = "destroy"
    /\ anchor' = [anchor EXCEPT !.status = "DESTROYED"]
    /\ Return(IF call.op = "erase" THEN "OK" ELSE "DENIED") /\ Locks
    /\ UNCHANGED <<sealed, media, guesses, faults>>

DestroyFails ==
    /\ pc = "destroy"
    /\ anchor' \in {anchor, [anchor EXCEPT !.status = "DESTROYED"]}
    /\ Fault /\ Return("STATE") /\ Locks
    /\ UNCHANGED <<sealed, media, guesses>>

-----------------------------------------------------------------------------
(* After recover() returned OK *)

RecoverDone ==
    /\ pc = "ready" /\ call.op = "recover"
    /\ Return("OK")
    /\ UNCHANGED <<anchor, sealed, media, session, guesses, faults>>

\* Creation needs an EMPTY enrollment, the others an ACTIVE one.
WrongStatus ==
    /\ pc = "ready" /\ call.op # "recover"
    /\ anchor.status # (IF call.op = "create" THEN "EMPTY" ELSE "ACTIVE")
    /\ Return("DENIED") /\ Locks
    /\ UNCHANGED <<anchor, sealed, media, guesses, faults>>

Seals(gen, vol) ==
    \E c \in call.new :
        sealed' = Append(sealed, [gen |-> gen, policy |-> call.policy, secret |-> c, vol |-> vol])

\* Seal, format and fill the new volume; a failure leaves the device EMPTY.
CreateSeal ==
    /\ pc = "ready" /\ call.op = "create" /\ anchor.status = "EMPTY"
    /\ Seals(1, Len(sealed) + 1)
    /\ Goto("copy0")
    /\ UNCHANGED <<anchor, media, session, guesses, faults>>

CreateFails ==
    /\ pc = "ready" /\ call.op = "create" /\ anchor.status = "EMPTY"
    /\ Fault /\ (Return("INVALID") \/ Return("IO")) /\ Locks
    /\ UNCHANGED <<anchor, sealed, media, guesses>>

Activate == Commit("activate") /\ Return("OK") /\ Locks

-----------------------------------------------------------------------------
(* unlock(), for unlocking, re-verification and changing *)

Selecting == pc = "ready" /\ call.op \in {"unlock", "reverify", "change"} /\ anchor.status = "ACTIVE"

\* The first copy that reads back and matches; a copy may fail to read.
Select(i) ==
    /\ Selecting
    /\ Selectable(media[i])
    /\ slot' = i
    /\ header' = media[i]
    /\ pc' = IF Limited(anchor.policy) THEN "charge" ELSE "evaluate"
    /\ UNCHANGED <<anchor, sealed, media, session, call, failed, guesses, result, faults>>

\* No matching copy, or the card is absent or fails to read.
SelectFails ==
    /\ Selecting
    /\ Fault \/ ((\A i \in {0, 1} : ~Selectable(media[i])) /\ UNCHANGED faults)
    /\ Return("IO") /\ Locks
    /\ UNCHANGED <<anchor, sealed, media, guesses>>

Charge == Commit("charge") /\ Goto("evaluate") /\ UNCHANGED session

Right == call.old = {sealed[header].secret}

\* With a limit the outcome is committed next; without one it is final.
Evaluated(wrong) ==
    /\ IF ~Limited(anchor.policy) /\ wrong
       THEN Return("AUTH") /\ Locks
       ELSE /\ pc' = IF Limited(anchor.policy) THEN "settle" ELSE "open"
            /\ failed' = wrong
            /\ UNCHANGED <<session, call, slot, header, result>>
    /\ UNCHANGED <<anchor, sealed, media>>

EvaluateRight ==
    /\ pc = "evaluate" /\ Right /\ Evaluated(FALSE)
    /\ guesses' = 0
    /\ UNCHANGED faults

EvaluateWrong ==
    /\ pc = "evaluate" /\ ~Right /\ Evaluated(TRUE)
    /\ guesses' = IF Limited(anchor.policy) THEN guesses + 1 ELSE guesses
    /\ UNCHANGED faults

\* The binding, the key derivation or the cipher fails.
EvaluateError == pc = "evaluate" /\ Evaluated(TRUE) /\ Fault /\ UNCHANGED guesses

Settle ==
    /\ Commit("settle")
    /\ IF failed /\ ~AtLimit(anchor)
       THEN Return("AUTH") /\ Locks
       ELSE Goto(IF failed THEN "limit" ELSE "open") /\ UNCHANGED session

\* initialize_session: fv_vault_unlock goes on to repair the other copy,
\* fv_vault_change_credential to reseal.
Open ==
    /\ pc = "open" /\ call.op \in {"unlock", "change"}
    /\ session' = header
    /\ Goto(IF call.op = "unlock" THEN "repair" ELSE "reseal")
    /\ UNCHANGED <<anchor, sealed, media, guesses, faults>>

\* fv_vault_reverify compares its candidate with the session and drops it.
SameVault(g, h) == sealed[g].vol = sealed[h].vol /\ sealed[g].gen = sealed[h].gen

OpenCandidate ==
    /\ pc = "open" /\ call.op = "reverify"
    /\ IF SameVault(header, session)
       THEN Return("OK") /\ UNCHANGED session
       ELSE Return("STATE") /\ Locks
    /\ UNCHANGED <<anchor, sealed, media, guesses, faults>>

OpenFails ==
    /\ pc = "open"
    /\ Fault /\ Return("STATE") /\ Locks
    /\ UNCHANGED <<anchor, sealed, media, guesses>>

-----------------------------------------------------------------------------
(* fv_vault_change_credential, after its unlock() *)

PolicyRefused == ~call.approved /\ call.policy # anchor.policy

Reseal(i) ==
    /\ pc = "reseal"
    /\ Selectable(media[i]) /\ anchor.gen # MaxGeneration /\ ~PolicyRefused
    /\ slot' = i
    /\ header' = media[i]
    /\ Seals(sealed[session].gen + 1, sealed[session].vol)
    /\ pc' = "save"
    /\ UNCHANGED <<anchor, media, session, call, failed, guesses, result, faults>>

ResealRefused ==
    /\ pc = "reseal"
    /\ LET lost == anchor.gen = MaxGeneration \/ \A i \in {0, 1} : ~Selectable(media[i])
       IN (lost \/ PolicyRefused) /\ Return(IF lost THEN "STATE" ELSE "INVALID")
    /\ Locks
    /\ UNCHANGED <<anchor, sealed, media, guesses, faults>>

ResealFails ==
    /\ pc = "reseal"
    /\ Fault /\ (Return("STATE") \/ Return("INVALID")) /\ Locks
    /\ UNCHANGED <<anchor, sealed, media, guesses>>

Anchor == Commit("anchor") /\ Goto("mirror") /\ UNCHANGED session

-----------------------------------------------------------------------------
(* The environment *)

PowerCut ==
    /\ Fault
    /\ Return("none")
    /\ session' = 0
    /\ UNCHANGED <<anchor, sealed, media, guesses>>

\* Someone puts back an older image of the card, or damages it.
SwapCard ==
    /\ altered
    /\ \E a, b \in 0 .. Len(sealed) : media' = [media EXCEPT ![0] = a, ![1] = b]
    /\ UNCHANGED <<anchor, sealed, session, call, pc, slot, header, failed, guesses, result, faults>>

-----------------------------------------------------------------------------
\* A freshly provisioned enrollment: EMPTY, with the default policy.
Init ==
    /\ anchor = [status |-> "EMPTY", gen |-> 0, policy |-> [max |-> 10, action |-> "DESTROY"],
                 attempts |-> 0, pending |-> FALSE, hdr |-> 0, vol |-> 0]
    /\ sealed = <<>>
    /\ media = [i \in {0, 1} |-> 0]
    /\ session = 0
    /\ call = NoCall
    /\ pc = "idle"
    /\ slot = 0
    /\ header = 0
    /\ failed = FALSE
    /\ guesses = 0
    /\ result = "none"
    /\ faults = 0
    /\ altered \in BOOLEAN

Calls ==
    \/ Recover \/ Erase \/ Lock
    \/ \E c \in Secret : Unlock(c) \/ Reverify(c)
    \/ \E c \in Secret, p \in Policy : Create(c, p)
    \/ \E c, d \in Secret, p \in Policy, ok \in BOOLEAN : Change(c, d, p, ok)

\* Steps of the call in progress, and the ways it can fail.
Progress ==
    \/ RecoverDenied \/ RecoverLoaded \/ Clear \/ Limit \/ Request \/ Destroy
    \/ RecoverDone \/ WrongStatus \/ CreateSeal \/ SaveHeader \/ SaveLast \/ Activate
    \/ \E i \in {0, 1} : Select(i) \/ Reseal(i)
    \/ SelectFails \/ Charge \/ EvaluateRight \/ EvaluateWrong \/ Settle
    \/ Open \/ OpenCandidate \/ ResealRefused \/ Anchor

Failures ==
    \/ CommitFails \/ SaveFails \/ DestroyFails \/ CreateFails
    \/ EvaluateError \/ OpenFails \/ ResealFails \/ PowerCut

Next == (Calls \/ Progress \/ Failures \/ SwapCard) /\ UNCHANGED altered

Spec == Init /\ [][Next]_vars

\* Calls run to their end on the worker core, and a device that is used or
\* powered again recovers.  No fairness is assumed of any other call.
FairSpec == Spec /\ WF_state(Progress) /\ WF_state(Recover)

-----------------------------------------------------------------------------
(* Properties *)

AnchorType ==
    [status : Status, gen : 0 .. MaxGeneration, policy : PolicyType, attempts : Nat,
     pending : BOOLEAN, hdr : 0 .. MaxSeals, vol : 0 .. MaxSeals]
CallType ==
    [op : Op, old : SUBSET Secret, new : SUBSET Secret, policy : PolicyType,
     approved : BOOLEAN, base : 0 .. MaxSeals]

\* The record, headers, session and call have the values the code can give
\* them; every header number refers to a sealed header.
TypeOK ==
    /\ anchor \in AnchorType
    /\ sealed \in Seq(Header) /\ Len(sealed) <= MaxSeals
    /\ anchor.hdr <= Len(sealed)
    /\ media \in [{0, 1} -> 0 .. Len(sealed)]
    /\ session \in 0 .. Len(sealed)
    /\ call \in CallType
    /\ pc \in PC
    /\ slot \in {0, 1}
    /\ header \in 0 .. Len(sealed)
    /\ failed \in BOOLEAN
    /\ guesses \in Nat
    /\ result \in Result
    /\ faults \in 0 .. MaxFaults
    /\ altered \in BOOLEAN

\* However calls fail or are cut off, the wrong credentials evaluated since
\* the last right one never exceed the durable counter, nor the limit: every
\* guess was paid for before it was evaluated.
GuessBound ==
    Limited(anchor.policy) /\ anchor.status # "EMPTY" =>
        guesses <= anchor.attempts /\ anchor.attempts <= anchor.policy.max

\* Every record the code commits is one state_valid() accepts afterwards.
AnchorValid == anchor.status # "UNREADABLE" => StateValid(anchor)

\* Between calls, an unlocked session was opened with the header that is
\* anchored now, and no charged attempt is left behind it: an older credential
\* or an older card image never gives a session.
SessionBacked ==
    pc = "idle" /\ session # 0 =>
        /\ anchor.status = "ACTIVE"
        /\ session = anchor.hdr
        /\ anchor.attempts = 0 /\ ~anchor.pending

\* An active vault always has a copy of its header on the card, however a
\* creation, a change or a repair of vault.c was cut off (unless someone
\* altered the card).
HeaderAvailable ==
    ~altered /\ anchor.status = "ACTIVE" => \E i \in {0, 1} : Selectable(media[i])

\* No credential will be evaluated again: the limit took effect, or will
\* before the next evaluation.
Exhausted ==
    \/ anchor.status \in {"LOCKED", "DESTROY_PENDING", "DESTROYED", "UNREADABLE"}
    \/ AtLimit(anchor) /\ pc # "evaluate" /\ (pc = "settle" => failed)

\* Once the last attempt was spent, even on a call that power cut short, no
\* sequence of calls, restarts or card swaps gives another one or a session.
LimitIsFinal ==
    [][Exhausted => Exhausted' /\ (pc' = "idle" => session' = 0)]_vars

\* What a call returns tells which credential holds: success or a missing
\* mirror means the new one, every other definite answer the old one; and
\* unlocking answers OK exactly when it leaves a session.
ResultTells ==
    [][pc # "idle" /\ pc' = "idle" /\ result' # "none" =>
          /\ call.op \in {"unlock", "reverify"} => (result' = "OK" <=> session' # 0)
          /\ call.op \in {"create", "change"} =>
                /\ result' \in {"OK", "CHANGED_NEEDS_MIRROR"} =>
                        anchor'.hdr # call.base /\ {sealed[anchor'.hdr].secret} = call.new
                /\ result' \in {"INVALID", "IO", "AUTH", "DENIED"} => anchor'.hdr = call.base]_vars

\* A limit that was reached is enforced, and a destruction that was begun is
\* finished, unless the last attempt was right or the journal itself failed.
LimitEnforced ==
    /\ AtLimit(anchor) ~>
          (anchor.status \in {"LOCKED", "DESTROYED", "UNREADABLE"} \/ anchor.attempts = 0)
    /\ (anchor.status = "DESTROY_PENDING") ~> (anchor.status = "DESTROYED")

-----------------------------------------------------------------------------
(* Why it holds: the inductive invariant behind the properties above *)

Backed == anchor.status = "ACTIVE" /\ session = anchor.hdr /\ anchor.attempts = 0 /\ ~anchor.pending

\* The anchored record and the header it names agree.
AnchorDescribes ==
    anchor.status = "ACTIVE" =>
        /\ anchor.hdr # 0
        /\ sealed[anchor.hdr].gen = anchor.gen
        /\ sealed[anchor.hdr].policy = anchor.policy
        /\ sealed[anchor.hdr].vol = anchor.vol

\* Guesses are paid for, and none was made before there was a vault.
GuessesPaid ==
    /\ GuessBound
    /\ anchor.status = "EMPTY" => guesses = 0

\* Whose session it is, while a call runs.
SessionInv ==
    /\ (pc = "idle" \/ call.op = "recover") /\ session # 0 => Backed
    /\ call.op = "reverify" => session = anchor.hdr
    /\ pc \in {"repair", "reseal", "save", "anchor"} => session = anchor.hdr
    /\ pc \in {"charge", "evaluate", "settle", "open", "repair"} => header = anchor.hdr
    /\ pc = "idle" => call.op = "none"
    /\ call.op = "recover" => pc \in {"recover", "clear", "limit", "destroy", "ready"}
    /\ call.op = "reverify" =>
          pc \in {"recover", "clear", "limit", "destroy", "ready", "charge", "evaluate", "settle", "open"}

Opened == {"open", "repair", "reseal", "save", "anchor", "mirror"}

\* What the call in progress has established about the record.
CallRecord ==
    /\ pc = "clear" => anchor.status = "ACTIVE" /\ anchor.pending /\ ~AtLimit(anchor)
    /\ pc = "limit" => AtLimit(anchor)
    /\ pc = "request" => anchor.status = "ACTIVE" /\ call.op = "erase"
    /\ pc = "destroy" => anchor.status = "DESTROY_PENDING"
    /\ pc = "ready" => anchor.status \in {"EMPTY", "ACTIVE"} /\ ~anchor.pending /\ ~AtLimit(anchor)
    /\ pc \in {"copy0", "copy1", "activate"} => anchor.status = "EMPTY"
    /\ pc = "charge" =>
          anchor.status = "ACTIVE" /\ Limited(anchor.policy) /\ ~anchor.pending /\ ~AtLimit(anchor)
    /\ pc = "evaluate" =>
          anchor.status = "ACTIVE" /\ (Limited(anchor.policy) => guesses < anchor.attempts)
    /\ pc = "settle" =>
          anchor.status = "ACTIVE" /\ Limited(anchor.policy) /\ (~failed => guesses = 0)
    /\ pc \in Opened =>
          anchor.status = "ACTIVE" /\ anchor.attempts = 0 /\ ~anchor.pending /\ guesses = 0

\* What it has sealed, and for which record.
CallHeader ==
    /\ pc \in {"copy0", "copy1", "activate", "save", "anchor"} =>
          /\ Newest # 0
          /\ sealed[Newest].policy = call.policy
          /\ PolicyValid(call.policy)
    /\ pc \in {"copy0", "copy1", "activate"} =>
          sealed[Newest].gen = 1 /\ sealed[Newest].vol <= Newest
    /\ pc \in {"save", "anchor"} =>
          /\ anchor.gen < MaxGeneration
          /\ sealed[Newest].gen = anchor.gen + 1
          /\ sealed[Newest].vol = anchor.vol
    /\ pc = "mirror" => anchor.hdr = Newest
    /\ call.op \in {"create", "change"} => PolicyValid(call.policy)
    /\ call.op \in {"create", "change"}
          /\ pc \in {"recover", "clear", "ready", "charge", "evaluate", "settle", "open", "reseal"} =>
              Newest < MaxSeals
    /\ pc = "reseal" => call.op = "change"

\* Which copies on an unaltered card hold which header.
CallCopies ==
    ~altered =>
        /\ HeaderAvailable
        /\ pc = "copy1" => media[0] = Newest
        /\ pc = "activate" => media[0] = Newest
        /\ pc \in {"charge", "evaluate", "settle", "open", "repair", "save", "anchor"} =>
              media[slot] = anchor.hdr
        /\ pc \in {"anchor", "mirror"} => media[1 - slot] = Newest

\* The record agrees with its header, guesses are paid for, and the call in
\* progress has established what its next step relies on.
VaultInv ==
    AnchorValid /\ AnchorDescribes /\ GuessesPaid /\ SessionInv /\ CallRecord /\ CallHeader
        /\ CallCopies
=============================================================================
