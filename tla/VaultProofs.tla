---------------------------- MODULE VaultProofs ----------------------------
(***************************************************************************)
(* Proofs about module Vault, for every set of credentials and policies    *)
(* and every bound.  The argument: each record the code is about to commit *)
(* satisfies RecordInv, so it does not matter whether the commit happened; *)
(* what a call relies on between its steps is tied to its place (VaultInv).*)
(***************************************************************************)
EXTENDS Vault, TLAPS

\* What VaultInv asks of the anchored record, as a predicate on any record.
RecordInv(a) ==
    /\ a \in AnchorType /\ a.hdr <= Len(sealed)
    /\ a.status # "UNREADABLE" => StateValid(a)
    /\ a.status = "ACTIVE" =>
          /\ a.hdr # 0
          /\ sealed[a.hdr].gen = a.gen
          /\ sealed[a.hdr].policy = a.policy
          /\ sealed[a.hdr].vol = a.vol
    /\ Limited(a.policy) /\ a.status # "EMPTY" =>
          guesses <= a.attempts /\ a.attempts <= a.policy.max
    /\ a.status = "EMPTY" => guesses = 0
    /\ ~altered /\ a.status = "ACTIVE" => \E i \in {0, 1} : media[i] = a.hdr

\* The record's part of the invariant.
RecordPart ==
    /\ anchor \in AnchorType /\ anchor.hdr <= Len(sealed)
    /\ AnchorValid /\ AnchorDescribes /\ GuessesPaid
    /\ ~altered => HeaderAvailable

\* The two say the same of the anchored record.
LEMMA RecordPartIsInv == RecordPart <=> RecordInv(anchor)
BY DEF RecordPart, RecordInv, AnchorValid, AnchorDescribes, GuessesPaid, GuessBound,
       HeaderAvailable, Selectable

\* The invariant includes it.
LEMMA InvGivesRecord ==
    ASSUME TypeOK, VaultInv
    PROVE  RecordInv(anchor)
<1>1. RecordPart
    BY DEF RecordPart, TypeOK, VaultInv, CallCopies, HeaderAvailable
<1>2. QED
    BY <1>1, RecordPartIsInv

\* A sealed header is a header.
LEMMA SealedType ==
    ASSUME TypeOK, NEW h \in 1 .. Len(sealed)
    PROVE  sealed[h] \in Header
BY DEF TypeOK

\* What the code is about to commit is a record.
LEMMA RecordTypes ==
    ASSUME TypeOK, VaultInv
    PROVE  /\ \A st \in Status : [anchor EXCEPT !.status = st] \in AnchorType
           /\ ClearedRecord \in AnchorType
           /\ LimitRecord \in AnchorType
           /\ RequestRecord \in AnchorType
           /\ pc = "charge" => ChargedRecord \in AnchorType
           /\ pc = "settle" => SettledRecord \in AnchorType
           /\ pc = "activate" => CreatedRecord \in AnchorType
           /\ pc = "anchor" => ChangedRecord \in AnchorType
<1> USE VaultBounds DEF TypeOK, AnchorType, Status
<1>1. \A st \in Status : [anchor EXCEPT !.status = st] \in AnchorType
    OBVIOUS
<1>2. ClearedRecord \in AnchorType
    BY DEF ClearedRecord
<1>3. LimitRecord \in AnchorType /\ RequestRecord \in AnchorType
    BY DEF LimitRecord, RequestRecord, LimitStatus
<1>4. ASSUME pc = "charge" PROVE ChargedRecord \in AnchorType
    <2>1. anchor.attempts + 1 \in Nat
        OBVIOUS
    <2>2. QED
        BY <2>1, Zenon DEF ChargedRecord
<1>5. ASSUME pc = "settle" PROVE SettledRecord \in AnchorType
    BY <1>5 DEF SettledRecord
<1>6. ASSUME pc = "activate" PROVE CreatedRecord \in AnchorType
    <2>1. sealed[Newest] \in Header /\ Newest \in 0 .. MaxSeals /\ sealed[Newest].vol <= Newest
        BY <1>6, SealedType DEF VaultInv, CallHeader, Newest
    <2>2. call.policy \in PolicyType /\ sealed[Newest].vol \in 0 .. MaxSeals
        BY <2>1 DEF CallType, Header
    <2>3. 1 \in 0 .. MaxGeneration
        OBVIOUS
    <2>4. QED
        BY <2>1, <2>2, <2>3, Zenon DEF CreatedRecord
<1>7. ASSUME pc = "anchor" PROVE ChangedRecord \in AnchorType
    <2>1. sealed[Newest] \in Header /\ Newest \in 0 .. MaxSeals
        BY <1>7, SealedType DEF VaultInv, CallHeader, Newest
    <2>2. call.policy \in PolicyType /\ sealed[Newest].gen \in 0 .. MaxGeneration
        BY <1>7, <2>1 DEF CallType, VaultInv, CallHeader
    <2>3. QED
        BY <2>1, <2>2 DEF ChangedRecord
<1>8. QED
    BY <1>1, <1>2, <1>3, <1>4, <1>5, <1>6, <1>7

\* Whatever is committed next satisfies RecordInv.
LEMMA NextRecordInv ==
    ASSUME TypeOK, VaultInv, pc \in Committing
    PROVE  RecordInv(NextRecord)
<1>0. RecordInv(anchor)
    BY InvGivesRecord
<1>1. CASE pc = "clear"
    <2>1. NextRecord = ClearedRecord /\ NextRecord \in AnchorType
        BY <1>1, RecordTypes DEF NextRecord
    <2>2. /\ NextRecord.status = anchor.status
          /\ NextRecord.gen = anchor.gen
          /\ NextRecord.policy = anchor.policy
          /\ NextRecord.attempts = anchor.attempts
          /\ NextRecord.pending = FALSE
          /\ NextRecord.hdr = anchor.hdr
          /\ NextRecord.vol = anchor.vol
        BY <2>1 DEF ClearedRecord, TypeOK, AnchorType
    <2>3. /\ anchor.status = "ACTIVE"
        BY <1>1 DEF VaultInv, CallRecord
    <2>4. anchor.attempts \in Nat /\ anchor.policy.max \in Nat /\ guesses \in Nat
        BY DEF TypeOK, AnchorType, PolicyType
    <2>5. QED
        BY <1>0, <2>1, <2>2, <2>3, <2>4 DEF RecordInv, StateValid
<1>2. CASE pc = "limit"
    <2>1. NextRecord = LimitRecord /\ NextRecord \in AnchorType
        BY <1>2, RecordTypes DEF NextRecord
    <2>2. /\ NextRecord.status = LimitStatus(anchor.policy)
          /\ NextRecord.gen = anchor.gen
          /\ NextRecord.policy = anchor.policy
          /\ NextRecord.attempts = anchor.attempts
          /\ NextRecord.pending = FALSE
          /\ NextRecord.hdr = anchor.hdr
          /\ NextRecord.vol = anchor.vol
        BY <2>1 DEF LimitRecord, TypeOK, AnchorType
    <2>3. /\ anchor.status = "ACTIVE"
          /\ LimitStatus(anchor.policy) \in {"LOCKED", "DESTROY_PENDING"}
        BY <1>2 DEF VaultInv, CallRecord, AtLimit, LimitStatus
    <2>4. anchor.attempts \in Nat /\ anchor.policy.max \in Nat /\ guesses \in Nat
        BY DEF TypeOK, AnchorType, PolicyType
    <2>5. QED
        BY <1>0, <2>1, <2>2, <2>3, <2>4 DEF RecordInv, StateValid
<1>3. CASE pc = "request"
    <2>1. NextRecord = RequestRecord /\ NextRecord \in AnchorType
        BY <1>3, RecordTypes DEF NextRecord
    <2>2. /\ NextRecord.status = "DESTROY_PENDING"
          /\ NextRecord.gen = anchor.gen
          /\ NextRecord.policy = anchor.policy
          /\ NextRecord.attempts = anchor.attempts
          /\ NextRecord.pending = FALSE
          /\ NextRecord.hdr = anchor.hdr
          /\ NextRecord.vol = anchor.vol
        BY <2>1 DEF RequestRecord, TypeOK, AnchorType
    <2>3. /\ anchor.status = "ACTIVE"
        BY <1>3 DEF VaultInv, CallRecord
    <2>4. anchor.attempts \in Nat /\ anchor.policy.max \in Nat /\ guesses \in Nat
        BY DEF TypeOK, AnchorType, PolicyType
    <2>5. QED
        BY <1>0, <2>1, <2>2, <2>3, <2>4 DEF RecordInv, StateValid
<1>4. CASE pc = "activate"
    <2>1. NextRecord = CreatedRecord /\ NextRecord \in AnchorType
        BY <1>4, RecordTypes DEF NextRecord
    <2>2. /\ NextRecord.status = "ACTIVE"
          /\ NextRecord.gen = 1
          /\ NextRecord.policy = call.policy
          /\ NextRecord.attempts = anchor.attempts
          /\ NextRecord.pending = anchor.pending
          /\ NextRecord.hdr = Newest
          /\ NextRecord.vol = sealed[Newest].vol
        BY <2>1 DEF CreatedRecord, TypeOK, AnchorType
    <2>3. /\ anchor.status = "EMPTY"
          /\ Newest # 0 /\ (~altered => media[0] = Newest)
          /\ sealed[Newest].policy = call.policy /\ sealed[Newest].gen = 1
          /\ PolicyValid(call.policy)
        BY <1>4 DEF VaultInv, CallRecord, CallHeader, CallCopies
    <2>4. call.policy.max \in Nat /\ guesses \in Nat /\ Len(sealed) \in Nat
        BY DEF TypeOK, CallType, PolicyType
    <2>5. QED
        BY <1>0, <2>1, <2>2, <2>3, <2>4 DEF RecordInv, StateValid, Newest, PolicyValid
<1>5. CASE pc = "charge"
    <2>1. NextRecord = ChargedRecord /\ NextRecord \in AnchorType
        BY <1>5, RecordTypes DEF NextRecord
    <2>2. /\ NextRecord.status = anchor.status
          /\ NextRecord.gen = anchor.gen
          /\ NextRecord.policy = anchor.policy
          /\ NextRecord.attempts = anchor.attempts + 1
          /\ NextRecord.pending = TRUE
          /\ NextRecord.hdr = anchor.hdr
          /\ NextRecord.vol = anchor.vol
        BY <2>1 DEF ChargedRecord, TypeOK, AnchorType
    <2>3. /\ anchor.status = "ACTIVE" /\ Limited(anchor.policy)
          /\ ~AtLimit(anchor)
        BY <1>5 DEF VaultInv, CallRecord
    <2>4. anchor.attempts \in Nat /\ anchor.policy.max \in Nat /\ guesses \in Nat
        BY DEF TypeOK, AnchorType, PolicyType
    <2>5. QED
        BY <1>0, <2>1, <2>2, <2>3, <2>4 DEF RecordInv, StateValid, AtLimit
<1>6. CASE pc = "settle"
    <2>1. NextRecord = SettledRecord /\ NextRecord \in AnchorType
        BY <1>6, RecordTypes DEF NextRecord
    <2>2. /\ NextRecord.status = anchor.status
          /\ NextRecord.gen = anchor.gen
          /\ NextRecord.policy = anchor.policy
          /\ NextRecord.attempts = (IF failed THEN anchor.attempts ELSE 0)
          /\ NextRecord.pending = FALSE
          /\ NextRecord.hdr = anchor.hdr
          /\ NextRecord.vol = anchor.vol
        BY <2>1 DEF SettledRecord, TypeOK, AnchorType
    <2>3. /\ anchor.status = "ACTIVE" /\ Limited(anchor.policy)
          /\ ~failed => guesses = 0
        BY <1>6 DEF VaultInv, CallRecord
    <2>4. anchor.attempts \in Nat /\ anchor.policy.max \in Nat /\ guesses \in Nat
        BY DEF TypeOK, AnchorType, PolicyType
    <2>5. QED
        BY <1>0, <2>1, <2>2, <2>3, <2>4 DEF RecordInv, StateValid
<1>7. CASE pc = "anchor"
    <2>1. NextRecord = ChangedRecord /\ NextRecord \in AnchorType
        BY <1>7, RecordTypes DEF NextRecord
    <2>2. /\ NextRecord.status = anchor.status
          /\ NextRecord.gen = sealed[Newest].gen
          /\ NextRecord.policy = call.policy
          /\ NextRecord.attempts = anchor.attempts
          /\ NextRecord.pending = anchor.pending
          /\ NextRecord.hdr = Newest
          /\ NextRecord.vol = anchor.vol
        BY <2>1 DEF ChangedRecord, TypeOK, AnchorType
    <2>3. /\ anchor.status = "ACTIVE" /\ anchor.attempts = 0 /\ ~anchor.pending /\ guesses = 0
          /\ Newest # 0 /\ (~altered => media[1 - slot] = Newest)
          /\ sealed[Newest].policy = call.policy /\ sealed[Newest].vol = anchor.vol
          /\ sealed[Newest].gen = anchor.gen + 1
          /\ PolicyValid(call.policy)
        BY <1>7 DEF VaultInv, CallRecord, CallHeader, CallCopies, Opened
    <2>4. anchor.gen \in Nat /\ call.policy.max \in Nat /\ Len(sealed) \in Nat /\ 1 - slot \in {0, 1}
        BY DEF TypeOK, CallType, PolicyType, AnchorType
    <2>5. QED
        BY <1>0, <2>1, <2>2, <2>3, <2>4 DEF RecordInv, StateValid, Newest, PolicyValid
<1>8. QED
    BY <1>1, <1>2, <1>3, <1>4, <1>5, <1>6, <1>7 DEF Committing

\* So do the records a torn commit or a destruction leaves.
LEMMA FinalRecordInv ==
    ASSUME TypeOK, VaultInv, NEW st \in {"UNREADABLE", "DESTROYED"},
           st = "DESTROYED" => pc = "destroy"
    PROVE  RecordInv([anchor EXCEPT !.status = st])
<1> DEFINE R == [anchor EXCEPT !.status = st]
<1>0. RecordInv(anchor)
    BY InvGivesRecord
<1>1. R \in AnchorType
    BY RecordTypes DEF Status
<1>2. /\ R.status = st
      /\ R.gen = anchor.gen
      /\ R.policy = anchor.policy
      /\ R.attempts = anchor.attempts
      /\ R.pending = anchor.pending
      /\ R.hdr = anchor.hdr
      /\ R.vol = anchor.vol
    BY DEF TypeOK, AnchorType
<1>3. pc = "destroy" => anchor.status = "DESTROY_PENDING"
    BY DEF VaultInv, CallRecord
<1>4. anchor.attempts \in Nat /\ anchor.policy.max \in Nat /\ guesses \in Nat
    BY DEF TypeOK, AnchorType, PolicyType
<1> HIDE DEF R
<1>5. RecordInv(R)
    BY <1>0, <1>1, <1>2, <1>3, <1>4 DEF RecordInv, StateValid
<1>6. QED
    BY <1>5 DEF R

\* A step that commits such a record keeps the record's part.
LEMMA CommitKeeps ==
    ASSUME RecordInv(anchor'), UNCHANGED <<sealed, media, guesses, altered>>
    PROVE  RecordPart'
BY DEF RecordInv, RecordPart, AnchorValid, AnchorDescribes, GuessesPaid, GuessBound,
       HeaderAvailable, Selectable, StateValid, PolicyValid, Limited

\* A step that leaves record and guesses alone keeps the record's part, if a
\* copy of the header stays on an unaltered card.
LEMMA RecordFrame ==
    ASSUME TypeOK, VaultInv, altered' = altered, UNCHANGED <<anchor, guesses>>,
           \/ sealed' = sealed
           \/ \E h \in Header : sealed' = Append(sealed, h),
           ~altered /\ anchor.status = "ACTIVE" => \E i \in {0, 1} : media'[i] = anchor.hdr
    PROVE  RecordPart'
<1>1. RecordInv(anchor)
    BY InvGivesRecord
<1>2. /\ Len(sealed) <= Len(sealed')
      /\ \A h \in 1 .. Len(sealed) : sealed'[h] = sealed[h]
    BY DEF TypeOK
<1>3. anchor.hdr \in Nat /\ Len(sealed) \in Nat /\ Len(sealed') \in Nat
    BY DEF TypeOK, AnchorType
<1>4. anchor.hdr # 0 => sealed'[anchor.hdr] = sealed[anchor.hdr]
    BY <1>1, <1>2, <1>3 DEF RecordInv
<1>5. QED
    BY <1>1, <1>2, <1>3, <1>4
       DEF RecordInv, RecordPart, AnchorValid, AnchorDescribes, GuessesPaid, GuessBound,
           HeaderAvailable, Selectable

\* On an unaltered card an active vault's header is on one of the copies.
LEMMA SomeCopy ==
    ASSUME TypeOK, VaultInv, ~altered, anchor.status = "ACTIVE"
    PROVE  \E i \in {0, 1} : media[i] = anchor.hdr
BY InvGivesRecord DEF RecordInv

\* A call that fails leaves no session: fv_vault_recover, which does not lock,
\* fails only where there is none.
LEMMA LocksIsZero ==
    ASSUME TypeOK, VaultInv, Locks,
           pc = "recover" => ~Loads \/ anchor.status # "ACTIVE",
           pc = "ready" => call.op # "recover"
    PROVE  session' = 0
<1>1. CASE call.op # "recover"
    BY <1>1 DEF Locks
<1>2. CASE call.op = "recover"
    <2>1. SUFFICES ASSUME session # 0 PROVE FALSE
        BY <1>2 DEF Locks
    <2>2. Backed /\ Loads
        BY <1>2, <2>1 DEF VaultInv, SessionInv, AnchorValid, Loads, Backed
    <2>3. anchor.policy.max \in Nat /\ (Limited(anchor.policy) => anchor.policy.max # 0)
        BY <2>2 DEF TypeOK, AnchorType, PolicyType, Loads, StateValid, PolicyValid, Limited, Backed
    <2>4. ~AtLimit(anchor)
        BY <2>2, <2>3 DEF AtLimit, Backed
    <2>5. QED
        BY <1>2, <2>2, <2>4 DEF VaultInv, SessionInv, CallRecord, Backed
<1>3. QED
    BY <1>1, <1>2

\* Returning to idle keeps the invariant, given the record's part and a
\* session that is absent or backed.
LEMMA ReturnKeeps ==
    ASSUME TypeOK, VaultInv, altered' = altered, NEW r \in Result, Return(r), RecordPart',
           session' \in 0 .. Len(sealed), session' # 0 => Backed',
           sealed' = sealed, media' \in [{0, 1} -> 0 .. Len(sealed)],
           guesses' \in Nat, faults' \in 0 .. MaxFaults
    PROVE  TypeOK' /\ VaultInv'
<1>1. NoCall \in CallType /\ NoCall.op = "none"
    BY VaultBounds DEF NoCall, CallType, Op, NoPolicy, PolicyType, Action
<1>2. TypeOK'
    <2>1. header' \in 0 .. Len(sealed')
        BY DEF Return, TypeOK
    <2>2. QED
        BY <1>1, <2>1 DEF TypeOK, Return, RecordPart, PC
<1>3. SessionInv'
    BY <1>1 DEF SessionInv, Return
<1>4. CallRecord' /\ CallHeader' /\ CallCopies'
    BY <1>1 DEF CallRecord, CallHeader, CallCopies, Return, RecordPart, Opened
<1>5. QED
    BY <1>2, <1>3, <1>4 DEF VaultInv, RecordPart

\* The same for a failure: the call ends, the vault is locked, and the record
\* is the old one, the one being committed, or a final one.
LEMMA FailureKeeps ==
    ASSUME TypeOK, VaultInv, altered' = altered, NEW r \in Result, Return(r), session' = 0, RecordPart',
           sealed' = sealed, media' = media, guesses' = guesses,
           faults' = faults \/ Fault
    PROVE  TypeOK' /\ VaultInv'
<1>1. guesses' \in Nat /\ faults' \in 0 .. MaxFaults /\ media' \in [{0, 1} -> 0 .. Len(sealed)]
    BY VaultBounds DEF TypeOK, Fault
<1>2. session' \in 0 .. Len(sealed)
    BY DEF TypeOK
<1>3. QED
    BY <1>1, <1>2, ReturnKeeps

\* The constant parts of the state a step leaves typed.
LEMMA FaultType ==
    ASSUME TypeOK, Fault
    PROVE  faults' \in 0 .. MaxFaults
BY VaultBounds DEF TypeOK, Fault

\* Starting a call keeps the invariant.
LEMMA BeginKeeps ==
    ASSUME TypeOK, VaultInv, altered' = altered, NEW c \in CallType, NEW start \in {"recover", "request"},
           Begin(c, start),
           \/ session' = 0 /\ c.op \notin {"recover", "reverify"}
           \/ session' = session /\ c.op = "recover"
           \/ session' = session /\ c.op = "reverify" /\ session # 0,
           start = "request" => c.op = "erase" /\ session # 0,
           start = "recover" => c.op # "erase",
           c.op \in {"create", "change"} => PolicyValid(c.policy) /\ Len(sealed) < MaxSeals
    PROVE  TypeOK' /\ VaultInv'
<1>1. /\ call' \in CallType
      /\ call'.op = c.op /\ call'.policy = c.policy
    BY DEF Begin, TypeOK, AnchorType, CallType
<1>2. TypeOK'
    BY <1>1 DEF TypeOK, Begin, PC, Result
<1>3. RecordPart'
    BY RecordFrame, SomeCopy DEF Begin
<1>4. SessionInv'
    BY <1>1 DEF SessionInv, VaultInv, Begin, Backed
<1>5. CallRecord'
    BY <1>1 DEF CallRecord, VaultInv, Begin, SessionInv, Backed, Opened
<1>6. CallHeader' /\ CallCopies'
    BY <1>1, <1>3 DEF CallHeader, CallCopies, RecordPart, Begin, Newest
<1>7. QED
    BY <1>2, <1>3, <1>4, <1>5, <1>6 DEF VaultInv, RecordPart

\* Every call has typed arguments.
LEMMA CallTypes ==
    /\ \A c \in Secret :
          /\ [NoCall EXCEPT !.op = "unlock", !.old = {c}] \in CallType
          /\ [NoCall EXCEPT !.op = "reverify", !.old = {c}] \in CallType
    /\ [NoCall EXCEPT !.op = "recover"] \in CallType
    /\ [NoCall EXCEPT !.op = "erase"] \in CallType
    /\ \A c, d \in Secret, p \in Policy, ok \in BOOLEAN :
          /\ [NoCall EXCEPT !.op = "create", !.new = {c}, !.policy = p] \in CallType
          /\ [op |-> "change", old |-> {c}, new |-> {d}, policy |-> p, approved |-> ok,
              base |-> 0] \in CallType
<1>1. 0 \in 0 .. MaxSeals
    BY VaultBounds
<1>2. Policy \subseteq PolicyType
    BY PolicyAssumption DEF PolicyType, Action
<1>3. NoCall \in CallType
    BY VaultBounds DEF NoCall, CallType, Op, NoPolicy, PolicyType, Action
<1>4. \A c \in Secret : {c} \in SUBSET Secret
    OBVIOUS
<1>5. {"unlock", "reverify", "recover", "erase", "create", "change"} \subseteq Op
    BY DEF Op
<1>6. QED
    BY <1>1, <1>2, <1>3, <1>4, <1>5, ZenonT(60) DEF CallType

\* The calls, and locking.
LEMMA CallsKeep ==
    ASSUME TypeOK, VaultInv, altered' = altered, Calls
    PROVE  TypeOK' /\ VaultInv'
<1>1. CASE Recover
    BY <1>1, CallTypes, BeginKeeps DEF Recover, NoCall
<1>2. CASE Erase
    BY <1>2, CallTypes, BeginKeeps DEF Erase, NoCall
<1>3. ASSUME NEW c \in Secret, Unlock(c) PROVE TypeOK' /\ VaultInv'
    BY <1>3, CallTypes, BeginKeeps DEF Unlock, NoCall
<1>4. ASSUME NEW c \in Secret, Reverify(c) PROVE TypeOK' /\ VaultInv'
    BY <1>4, CallTypes, BeginKeeps DEF Reverify, NoCall
<1>5. ASSUME NEW c \in Secret, NEW p \in Policy, Create(c, p) PROVE TypeOK' /\ VaultInv'
    BY <1>5, CallTypes, BeginKeeps, PolicyAssumption DEF Create, NoCall
<1>6. ASSUME NEW c \in Secret, NEW d \in Secret, NEW p \in Policy, NEW ok \in BOOLEAN,
             Change(c, d, p, ok)
      PROVE  TypeOK' /\ VaultInv'
    BY <1>6, CallTypes, BeginKeeps, PolicyAssumption DEF Change
<1>7. CASE Lock
    <2>1. RecordPart'
        BY <1>7, RecordFrame, SomeCopy DEF Lock
    <2>2. TypeOK'
        BY <1>7 DEF Lock, TypeOK
    <2>3. SessionInv' /\ CallRecord' /\ CallHeader' /\ CallCopies'
        BY <1>7, <2>1 DEF Lock, VaultInv, SessionInv, CallRecord, CallHeader, CallCopies, RecordPart, Opened
    <2>4. QED
        BY <2>1, <2>2, <2>3 DEF VaultInv, RecordPart
<1>8. QED
    BY <1>1, <1>2, <1>3, <1>4, <1>5, <1>6, <1>7 DEF Calls

\* Writing a header copy keeps a copy of the anchored header on the card.
LEMMA SaveKeepsCopy ==
    ASSUME TypeOK, VaultInv, pc \in {"copy0", "copy1", "save", "mirror", "repair"},
           NEW h \in {media[SavedCopy], 0, SavedHeader}, media' = [media EXCEPT ![SavedCopy] = h]
    PROVE  /\ SavedCopy \in {0, 1}
           /\ media' \in [{0, 1} -> 0 .. Len(sealed)]
           /\ ~altered /\ anchor.status = "ACTIVE" => \E i \in {0, 1} : media'[i] = anchor.hdr
<1>1. SavedCopy \in {0, 1}
    BY DEF SavedCopy, TypeOK
<1>2. SavedHeader \in 0 .. Len(sealed)
    BY DEF SavedHeader, TypeOK, Newest
<1>3. media' \in [{0, 1} -> 0 .. Len(sealed)]
    BY <1>1, <1>2 DEF TypeOK
<1>4. ASSUME ~altered, anchor.status = "ACTIVE"
      PROVE  \E i \in {0, 1} : media'[i] = anchor.hdr
    <2>1. CASE pc \in {"save", "repair"}
        BY <1>4, <2>1 DEF SavedCopy, TypeOK, VaultInv, CallCopies
    <2>2. CASE pc = "mirror"
        BY <1>4, <2>2 DEF SavedCopy, TypeOK, VaultInv, CallCopies, CallHeader
    <2>3. CASE pc \in {"copy0", "copy1"}
        BY <1>4, <2>3 DEF VaultInv, CallRecord
    <2>4. QED
        BY <2>1, <2>2, <2>3
<1>5. QED
    BY <1>1, <1>3, <1>4

\* A header write that fails.
LEMMA SaveFailsKeeps ==
    ASSUME TypeOK, VaultInv, altered' = altered, SaveFails
    PROVE  TypeOK' /\ VaultInv'
<1>1. PICK h \in {media[SavedCopy], 0, SavedHeader} : media' = [media EXCEPT ![SavedCopy] = h]
    BY DEF SaveFails
<1>2. /\ media' \in [{0, 1} -> 0 .. Len(sealed)]
      /\ ~altered /\ anchor.status = "ACTIVE" => \E i \in {0, 1} : media'[i] = anchor.hdr
    BY <1>1, SaveKeepsCopy DEF SaveFails
<1>3. RecordPart'
    BY <1>2, RecordFrame DEF SaveFails
<1>4. faults' \in 0 .. MaxFaults /\ guesses' \in Nat
    BY FaultType DEF SaveFails, TypeOK
<1>5. session' \in 0 .. Len(sealed) /\ (session' # 0 => Backed')
    <2>1. CASE Locks
        BY <2>1, LocksIsZero DEF SaveFails, TypeOK
    <2>2. CASE pc = "repair" /\ UNCHANGED session
        BY <2>2 DEF SaveFails, TypeOK, Backed, VaultInv, SessionInv, CallRecord, Opened
    <2>3. QED
        BY <2>1, <2>2 DEF SaveFails
<1>6. QED
    BY <1>2, <1>3, <1>4, <1>5, ReturnKeeps DEF SaveFails, Result

\* The evaluation of a credential, right, wrong or failing: it was paid for.
LEMMA EvaluatedKeeps ==
    ASSUME TypeOK, VaultInv, altered' = altered, pc = "evaluate", NEW wrong \in BOOLEAN, Evaluated(wrong),
           faults' \in 0 .. MaxFaults, guesses' \in Nat,
           \/ guesses' = 0
           \/ wrong /\ guesses' = guesses
           \/ wrong /\ Limited(anchor.policy) /\ guesses' = guesses + 1
    PROVE  TypeOK' /\ VaultInv'
<1>1. anchor.status = "ACTIVE" /\ (Limited(anchor.policy) => guesses < anchor.attempts)
    BY DEF VaultInv, CallRecord
<1>2. RecordPart'
    <2>1. RecordInv(anchor) /\ UNCHANGED <<anchor, sealed, media>>
        BY InvGivesRecord DEF Evaluated
    <2>2. anchor.attempts \in Nat /\ guesses \in Nat
        BY DEF TypeOK, AnchorType
    <2>3. QED
        BY <1>1, <2>1, <2>2
           DEF RecordInv, RecordPart, AnchorValid, AnchorDescribes, GuessesPaid, GuessBound,
               HeaderAvailable, Selectable
<1>3. CASE ~Limited(anchor.policy) /\ wrong
    <2>1. session' = 0
        BY <1>3, LocksIsZero DEF Evaluated
    <2>2. QED
        BY <1>2, <1>3, <2>1, ReturnKeeps DEF Evaluated, Result, TypeOK
<1>4. CASE Limited(anchor.policy) \/ ~wrong
    <2>1. /\ pc' = IF Limited(anchor.policy) THEN "settle" ELSE "open"
          /\ failed' = wrong
          /\ UNCHANGED <<anchor, sealed, media, session, call, slot, header, result>>
        BY <1>4 DEF Evaluated
    <2>2. TypeOK'
        BY <2>1 DEF TypeOK, PC
    <2>3. SessionInv'
        BY <2>1 DEF VaultInv, SessionInv, Backed
    <2>4. ~Limited(anchor.policy) => anchor.attempts = 0 /\ ~anchor.pending
        BY <1>1 DEF VaultInv, AnchorValid, StateValid, PolicyValid, Limited, TypeOK, AnchorType
    <2>5. CallRecord'
        BY <1>1, <1>4, <2>1, <2>4 DEF CallRecord, Opened
    <2>6. CallHeader' /\ CallCopies'
        BY <1>2, <2>1 DEF VaultInv, CallHeader, CallCopies, RecordPart, Newest
    <2>7. QED
        BY <1>2, <2>2, <2>3, <2>5, <2>6 DEF VaultInv, RecordPart
<1>5. QED
    BY <1>3, <1>4

\* The failures of a call in progress, and power cuts.
LEMMA FailuresKeep ==
    ASSUME TypeOK, VaultInv, altered' = altered, Failures
    PROVE  TypeOK' /\ VaultInv'
<1> USE DEF Result
<1>1. CASE CommitFails
    <2>1. RecordInv(anchor')
        BY <1>1, InvGivesRecord, NextRecordInv, FinalRecordInv DEF CommitFails
    <2>2. session' = 0
        BY <1>1, LocksIsZero DEF CommitFails, Committing
    <2>3. QED
        BY <1>1, <2>1, <2>2, CommitKeeps, FailureKeeps DEF CommitFails
<1>2. CASE DestroyFails
    <2>1. RecordInv(anchor')
        BY <1>2, InvGivesRecord, FinalRecordInv DEF DestroyFails
    <2>2. session' = 0
        BY <1>2, LocksIsZero DEF DestroyFails
    <2>3. QED
        BY <1>2, <2>1, <2>2, CommitKeeps, FailureKeeps DEF DestroyFails
<1>3. CASE CreateFails \/ OpenFails \/ ResealFails
    <2>1. session' = 0
        BY <1>3, LocksIsZero DEF CreateFails, OpenFails, ResealFails
    <2>2. RecordPart'
        BY <1>3, RecordFrame, SomeCopy DEF CreateFails, OpenFails, ResealFails
    <2>3. QED
        BY <1>3, <2>1, <2>2, FailureKeeps DEF CreateFails, OpenFails, ResealFails
<1>4. CASE PowerCut
    <2>1. RecordPart'
        BY <1>4, RecordFrame, SomeCopy DEF PowerCut
    <2>2. QED
        BY <1>4, <2>1, FailureKeeps DEF PowerCut
<1>5. CASE SaveFails
    BY <1>5, SaveFailsKeeps
<1>6. CASE EvaluateError
    BY <1>6, FaultType, EvaluatedKeeps DEF EvaluateError, TypeOK
<1>7. QED
    BY <1>1, <1>2, <1>3, <1>4, <1>5, <1>6 DEF Failures

\* The intended steps of a call that end it.
LEMMA ReturnsKeep ==
    ASSUME TypeOK, VaultInv, altered' = altered,
           \/ RecoverDenied \/ Activate \/ Destroy \/ RecoverDone \/ WrongStatus \/ SelectFails
           \/ OpenCandidate \/ ResealRefused \/ SaveLast
    PROVE  TypeOK' /\ VaultInv'
<1> USE DEF Result
<1>1. CASE RecoverDenied \/ WrongStatus \/ SelectFails \/ ResealRefused
    <2>1. session' = 0
        BY <1>1, LocksIsZero DEF RecoverDenied, WrongStatus, SelectFails, ResealRefused, Selecting
    <2>2. RecordPart'
        BY <1>1, RecordFrame, SomeCopy DEF RecoverDenied, WrongStatus, SelectFails, ResealRefused
    <2>3. QED
        BY <1>1, <2>1, <2>2, FailureKeeps DEF RecoverDenied, WrongStatus, SelectFails, ResealRefused
<1>2. CASE Activate
    <2>1. session' = 0
        BY <1>2, LocksIsZero DEF Activate, Commit
    <2>2. RecordPart'
        BY <1>2, NextRecordInv, CommitKeeps DEF Activate, Commit, Committing
    <2>3. QED
        BY <1>2, <2>1, <2>2, FailureKeeps DEF Activate, Commit
<1>3. CASE Destroy
    <2>1. session' = 0
        BY <1>3, LocksIsZero DEF Destroy
    <2>2. RecordPart'
        BY <1>3, FinalRecordInv, CommitKeeps DEF Destroy
    <2>3. QED
        BY <1>3, <2>1, <2>2, FailureKeeps DEF Destroy
<1>4. CASE RecoverDone
    <2>1. session' \in 0 .. Len(sealed) /\ (session' # 0 => Backed')
        BY <1>4 DEF RecoverDone, TypeOK, VaultInv, SessionInv, Backed
    <2>2. RecordPart'
        BY <1>4, RecordFrame, SomeCopy DEF RecoverDone
    <2>3. QED
        BY <1>4, <2>1, <2>2, ReturnKeeps DEF RecoverDone, TypeOK
<1>5. CASE OpenCandidate
    <2>1. session' = 0 \/ session' = session
        BY <1>5, LocksIsZero DEF OpenCandidate
    <2>2. session' \in 0 .. Len(sealed) /\ (session' # 0 => Backed')
        BY <1>5, <2>1 DEF OpenCandidate, TypeOK, VaultInv, SessionInv, Backed, CallRecord, Opened
    <2>3. RecordPart'
        BY <1>5, RecordFrame, SomeCopy DEF OpenCandidate
    <2>4. QED
        BY <1>5, <2>2, <2>3, ReturnKeeps DEF OpenCandidate, TypeOK
<1>6. CASE SaveLast
    <2>1. /\ media' \in [{0, 1} -> 0 .. Len(sealed)]
          /\ ~altered /\ anchor.status = "ACTIVE" => \E i \in {0, 1} : media'[i] = anchor.hdr
        BY <1>6, SaveKeepsCopy DEF SaveLast
    <2>2. RecordPart'
        BY <1>6, <2>1, RecordFrame DEF SaveLast
    <2>3. session' \in 0 .. Len(sealed) /\ (session' # 0 => Backed')
        BY <1>6 DEF SaveLast, TypeOK, VaultInv, SessionInv, Backed, CallRecord, Opened
    <2>4. QED
        BY <1>6, <2>1, <2>2, <2>3, ReturnKeeps DEF SaveLast, TypeOK
<1>7. QED
    BY <1>1, <1>2, <1>3, <1>4, <1>5, <1>6

\* The intended steps of a call that lead on, the headers they seal aside.
LEMMA StepsKeep ==
    ASSUME TypeOK, VaultInv, altered' = altered,
           \/ RecoverLoaded \/ Clear \/ Limit \/ Request \/ Charge \/ Settle \/ Open \/ Anchor
           \/ SaveHeader
           \/ \E i \in {0, 1} : Select(i)
    PROVE  TypeOK' /\ VaultInv'
<1> USE DEF Goto
<1>1. CASE RecoverLoaded
    <2>1. RecordPart'
        BY <1>1, RecordFrame, SomeCopy DEF RecoverLoaded
    <2>2. TypeOK'
        BY <1>1, <2>1 DEF RecoverLoaded, Loads, TypeOK, RecordPart, PC
    <2>3. SessionInv'
        BY <1>1 DEF RecoverLoaded, Loads, VaultInv, SessionInv, CallRecord, Backed
    <2>4. CallRecord'
        <3>1. anchor.status \in Status
            BY DEF TypeOK, AnchorType
        <3>2. CASE anchor.status = "DESTROY_PENDING"
            <4>1. pc' = "destroy" /\ anchor' = anchor
                BY <1>1, <3>2 DEF RecoverLoaded
            <4>2. QED
                BY <3>2, <4>1 DEF CallRecord, Opened
        <3>3. CASE AtLimit(anchor)
            <4>1. pc' = "limit" /\ anchor' = anchor
                BY <1>1, <3>3 DEF RecoverLoaded, AtLimit
            <4>2. QED
                BY <3>3, <4>1 DEF CallRecord, Opened
        <3>4. CASE anchor.status \in {"EMPTY", "ACTIVE"} /\ ~AtLimit(anchor)
            <4>1. pc' = (IF anchor.pending THEN "clear" ELSE "ready") /\ anchor' = anchor
                BY <1>1, <3>4 DEF RecoverLoaded
            <4>2. anchor.pending => anchor.status = "ACTIVE"
                BY <1>1, <3>4 DEF RecoverLoaded, Loads, StateValid
            <4>3. QED
                BY <3>4, <4>1, <4>2 DEF CallRecord, Opened
        <3>5. QED
            BY <1>1, <3>1, <3>2, <3>3, <3>4 DEF RecoverLoaded, Loads, Status
    <2>5. CallHeader' /\ CallCopies'
        BY <1>1, <2>1 DEF RecoverLoaded, Loads, VaultInv, CallRecord, CallHeader, CallCopies, RecordPart, Newest
    <2>6. QED
        BY <2>1, <2>2, <2>3, <2>4, <2>5 DEF VaultInv, RecordPart
<1>2. CASE Clear
    <2>1. RecordPart'
        BY <1>2, NextRecordInv, CommitKeeps DEF Commit, Committing, Clear
    <2>2. TypeOK'
        BY <1>2, <2>1 DEF Clear, Commit, NextRecord, ClearedRecord, TypeOK, RecordPart, PC
    <2>3. SessionInv'
        BY <1>2 DEF Clear, Commit, NextRecord, ClearedRecord, VaultInv, SessionInv, CallRecord, Backed, AtLimit, TypeOK, AnchorType
    <2>4. CallRecord'
        BY <1>2 DEF Clear, Commit, NextRecord, ClearedRecord, VaultInv, CallRecord, Opened, AtLimit, TypeOK, AnchorType
    <2>5. CallHeader' /\ CallCopies'
        BY <1>2, <2>1 DEF Clear, Commit, NextRecord, ClearedRecord, VaultInv, CallRecord, CallHeader, CallCopies, RecordPart, Newest, AtLimit, TypeOK, AnchorType
    <2>6. QED
        BY <2>1, <2>2, <2>3, <2>4, <2>5 DEF VaultInv, RecordPart
<1>3. CASE Request
    <2>1. RecordPart'
        BY <1>3, NextRecordInv, CommitKeeps DEF Commit, Committing, Request
    <2>2. TypeOK'
        BY <1>3, <2>1 DEF Request, Commit, NextRecord, RequestRecord, TypeOK, RecordPart, PC
    <2>3. SessionInv'
        BY <1>3 DEF Request, Commit, NextRecord, RequestRecord, VaultInv, SessionInv, CallRecord, Backed, TypeOK, AnchorType
    <2>4. CallRecord'
        BY <1>3 DEF Request, Commit, NextRecord, RequestRecord, VaultInv, CallRecord, Opened, TypeOK, AnchorType
    <2>5. CallHeader' /\ CallCopies'
        BY <1>3, <2>1 DEF Request, Commit, NextRecord, RequestRecord, VaultInv, CallRecord, CallHeader, CallCopies, RecordPart, Newest, TypeOK, AnchorType
    <2>6. QED
        BY <2>1, <2>2, <2>3, <2>4, <2>5 DEF VaultInv, RecordPart
<1>4. CASE Charge
    <2>1. RecordPart'
        BY <1>4, NextRecordInv, CommitKeeps DEF Commit, Committing, Charge
    <2>2. TypeOK'
        BY <1>4, <2>1 DEF Charge, Commit, NextRecord, ChargedRecord, TypeOK, RecordPart, PC
    <2>3. SessionInv'
        BY <1>4 DEF Charge, Commit, NextRecord, ChargedRecord, VaultInv, SessionInv, CallRecord, Backed, GuessesPaid, GuessBound, TypeOK, AnchorType
    <2>4. CallRecord'
        <3>1. /\ anchor'.status = anchor.status /\ anchor'.policy = anchor.policy
              /\ anchor'.attempts = anchor.attempts + 1
            BY <1>4 DEF Charge, Commit, NextRecord, ChargedRecord, TypeOK, AnchorType
        <3>2. anchor.status = "ACTIVE" /\ Limited(anchor.policy) /\ guesses <= anchor.attempts
            BY <1>4 DEF Charge, Commit, VaultInv, CallRecord, GuessesPaid, GuessBound
        <3>3. anchor.attempts \in Nat /\ guesses \in Nat /\ pc' = "evaluate" /\ guesses' = guesses
            BY <1>4 DEF TypeOK, AnchorType, Charge, Commit
        <3>4. QED
            BY <3>1, <3>2, <3>3 DEF CallRecord, Opened
    <2>5. CallHeader' /\ CallCopies'
        BY <1>4, <2>1 DEF Charge, Commit, NextRecord, ChargedRecord, VaultInv, CallRecord, CallHeader, CallCopies, RecordPart, Newest, GuessesPaid, GuessBound, TypeOK, AnchorType
    <2>6. QED
        BY <2>1, <2>2, <2>3, <2>4, <2>5 DEF VaultInv, RecordPart
<1>5. CASE Open
    <2>1. RecordPart'
        BY <1>5, RecordFrame, SomeCopy DEF Open
    <2>2. TypeOK'
        BY <1>5, <2>1 DEF Open, TypeOK, AnchorType, RecordPart, PC
    <2>3. SessionInv'
        BY <1>5 DEF Open, VaultInv, SessionInv, CallRecord, Backed
    <2>4. CallRecord'
        BY <1>5 DEF Open, VaultInv, CallRecord, Opened
    <2>5. CallHeader' /\ CallCopies'
        BY <1>5, <2>1 DEF Open, VaultInv, CallRecord, CallHeader, CallCopies, RecordPart, Newest
    <2>6. QED
        BY <2>1, <2>2, <2>3, <2>4, <2>5 DEF VaultInv, RecordPart
<1>6. CASE Anchor
    <2>1. RecordPart'
        BY <1>6, NextRecordInv, CommitKeeps DEF Commit, Committing, Anchor
    <2>2. TypeOK'
        BY <1>6, <2>1 DEF Anchor, Commit, NextRecord, ChangedRecord, TypeOK, RecordPart, PC
    <2>3. SessionInv'
        BY <1>6 DEF Anchor, Commit, NextRecord, ChangedRecord, VaultInv, SessionInv, CallRecord, Backed, Opened, TypeOK, AnchorType
    <2>4. CallRecord'
        BY <1>6 DEF Anchor, Commit, NextRecord, ChangedRecord, VaultInv, CallRecord, Opened, Opened, TypeOK, AnchorType
    <2>5. CallHeader' /\ CallCopies'
        BY <1>6, <2>1 DEF Anchor, Commit, NextRecord, ChangedRecord, VaultInv, CallRecord, CallHeader, CallCopies, RecordPart, Newest, Opened, TypeOK, AnchorType
    <2>6. QED
        BY <2>1, <2>2, <2>3, <2>4, <2>5 DEF VaultInv, RecordPart
<1>7. ASSUME NEW i \in {0, 1}, Select(i) PROVE TypeOK' /\ VaultInv'
    <2>1. RecordPart'
        BY <1>7, RecordFrame, SomeCopy DEF Select
    <2>2. TypeOK'
        BY <1>7, <2>1 DEF Select, Selecting, Selectable, TypeOK, RecordPart, PC
    <2>3. SessionInv'
        BY <1>7 DEF Select, Selecting, Selectable, VaultInv, SessionInv, CallRecord, Backed
    <2>4. CallRecord'
        BY <1>7 DEF Select, Selecting, Selectable, VaultInv, CallRecord, Opened
    <2>5. CallHeader' /\ CallCopies'
        BY <1>7, <2>1 DEF Select, Selecting, Selectable, VaultInv, CallRecord, CallHeader, CallCopies, RecordPart, Newest
    <2>6. QED
        BY <2>1, <2>2, <2>3, <2>4, <2>5 DEF VaultInv, RecordPart
<1>8. CASE SaveHeader
    <2>0. /\ media' \in [{0, 1} -> 0 .. Len(sealed)]
          /\ ~altered /\ anchor.status = "ACTIVE" => \E i \in {0, 1} : media'[i] = anchor.hdr
        BY <1>8, SaveKeepsCopy DEF SaveHeader
    <2>1. RecordPart'
        BY <1>8, <2>0, RecordFrame DEF SaveHeader
    <2>2. TypeOK'
        BY <1>8, <2>0 DEF SaveHeader, AfterSave, TypeOK, PC
    <2>3. SessionInv'
        BY <1>8 DEF SaveHeader, AfterSave, VaultInv, SessionInv, Backed, CallRecord
    <2>4. CallRecord'
        BY <1>8 DEF SaveHeader, AfterSave, VaultInv, CallRecord, Opened
    <2>5. CallHeader' /\ CallCopies'
        BY <1>8, <2>1 DEF SaveHeader, AfterSave, SavedCopy, SavedHeader, VaultInv, CallHeader, CallCopies, RecordPart, Newest, TypeOK
    <2>6. QED
        BY <2>1, <2>2, <2>3, <2>4, <2>5 DEF VaultInv, RecordPart
<1>9. CASE Limit
    <2>1. RecordPart'
        BY <1>9, NextRecordInv, CommitKeeps DEF Limit, Commit, Committing
    <2>2. CASE LimitStatus(anchor.policy) = "DESTROY_PENDING"
        <3>1. TypeOK'
            BY <1>9, <2>1, <2>2 DEF Limit, Commit, TypeOK, RecordPart, PC
        <3>2. anchor'.status = "DESTROY_PENDING" /\ anchor'.hdr = anchor.hdr
            BY <1>9, <2>2 DEF Limit, Commit, NextRecord, LimitRecord, TypeOK, AnchorType
        <3>3. anchor.attempts # 0
            BY <1>9 DEF Limit, Commit, VaultInv, CallRecord, AtLimit, AnchorValid, StateValid, PolicyValid,
                Limited, TypeOK, AnchorType, PolicyType
        <3>4. SessionInv'
            BY <1>9, <2>2, <3>2, <3>3 DEF Limit, Commit, VaultInv, SessionInv, Backed
        <3>5. CallRecord' /\ CallHeader' /\ CallCopies'
            BY <1>9, <2>1, <2>2, <3>2 DEF Limit, Commit, CallRecord, CallHeader, CallCopies, RecordPart, Opened, VaultInv
        <3>6. QED
            BY <2>1, <3>1, <3>4, <3>5 DEF VaultInv, RecordPart
    <2>3. CASE LimitStatus(anchor.policy) # "DESTROY_PENDING"
        <3>1. session' = 0
            BY <1>9, <2>3, LocksIsZero DEF Limit, Commit
        <3>2. QED
            BY <1>9, <2>1, <2>3, <3>1, FailureKeeps DEF Limit, Commit, Result
    <2>4. QED
        BY <2>2, <2>3
<1>10. CASE Settle
    <2>1. RecordPart'
        BY <1>10, NextRecordInv, CommitKeeps DEF Settle, Commit, Committing
    <2>2. CASE failed /\ ~AtLimit(anchor)
        <3>1. session' = 0
            BY <1>10, <2>2, LocksIsZero DEF Settle, Commit
        <3>2. QED
            BY <1>10, <2>1, <2>2, <3>1, FailureKeeps DEF Settle, Commit, Result
    <2>3. CASE ~(failed /\ ~AtLimit(anchor))
        <3>1. TypeOK'
            BY <1>10, <2>1, <2>3 DEF Settle, Commit, TypeOK, RecordPart, PC
        <3>2. /\ anchor'.status = anchor.status /\ anchor'.hdr = anchor.hdr
              /\ anchor'.policy = anchor.policy /\ anchor'.pending = FALSE
              /\ anchor'.attempts = IF failed THEN anchor.attempts ELSE 0
            BY <1>10 DEF Settle, Commit, NextRecord, SettledRecord, TypeOK, AnchorType
        <3>3. SessionInv'
            BY <1>10, <2>3, <3>2 DEF Settle, Commit, VaultInv, SessionInv, Backed
        <3>4. CallRecord'
            BY <1>10, <2>3, <3>2 DEF Settle, Commit, VaultInv, CallRecord, AtLimit, Opened
        <3>5. CallHeader' /\ CallCopies'
            BY <1>10, <2>1, <2>3, <3>2 DEF Settle, Commit, VaultInv, CallHeader, CallCopies, RecordPart, Newest
        <3>6. QED
            BY <2>1, <3>1, <3>3, <3>4, <3>5 DEF VaultInv, RecordPart
    <2>4. QED
        BY <2>2, <2>3
<1>11. QED
    BY <1>1, <1>2, <1>3, <1>4, <1>5, <1>6, <1>7, <1>8, <1>9, <1>10

\* Sealing a header, for a new volume or a changed credential.
LEMMA SealsKeep ==
    ASSUME TypeOK, VaultInv, altered' = altered, CreateSeal \/ \E i \in {0, 1} : Reseal(i)
    PROVE  TypeOK' /\ VaultInv'
<1> USE DEF Goto
<1>1. CASE CreateSeal
    <2>1. PICK c \in call.new :
             sealed' = Append(sealed, [gen |-> 1, policy |-> call.policy, secret |-> c,
                                       vol |-> Len(sealed) + 1])
        BY <1>1 DEF CreateSeal, Seals
    <2>2. [gen |-> 1, policy |-> call.policy, secret |-> c, vol |-> Len(sealed) + 1] \in Header
        BY DEF Header, TypeOK, CallType
    <2>3. /\ Len(sealed') = Len(sealed) + 1 /\ sealed' \in Seq(Header)
          /\ sealed'[Len(sealed')].gen = 1
          /\ sealed'[Len(sealed')].policy = call.policy
          /\ sealed'[Len(sealed')].vol = Len(sealed')
        BY <2>1, <2>2 DEF TypeOK
    <2>4. RecordPart'
        BY <1>1, <2>1, <2>2, RecordFrame, SomeCopy DEF CreateSeal
    <2>5. Len(sealed) < MaxSeals
        BY <1>1 DEF CreateSeal, VaultInv, CallHeader, Newest
    <2>6. TypeOK'
        BY <1>1, <2>3, <2>4, <2>5, VaultBounds DEF CreateSeal, TypeOK, RecordPart, PC
    <2>7. SessionInv'
        BY <1>1 DEF CreateSeal, VaultInv, SessionInv, Backed
    <2>8. CallRecord'
        BY <1>1 DEF CreateSeal, VaultInv, CallRecord, Opened
    <2>9. CallHeader' /\ CallCopies'
        BY <1>1, <2>3, <2>4 DEF CreateSeal, VaultInv, CallHeader, CallCopies, RecordPart, Newest, TypeOK
    <2>10. QED
        BY <2>4, <2>6, <2>7, <2>8, <2>9 DEF VaultInv, RecordPart
<1>2. ASSUME NEW i \in {0, 1}, Reseal(i) PROVE TypeOK' /\ VaultInv'
    <2>0. /\ session = anchor.hdr /\ anchor.status = "ACTIVE"
          /\ session \in 1 .. Len(sealed)
          /\ sealed[session].gen = anchor.gen /\ sealed[session].vol = anchor.vol
          /\ sealed[session] \in Header
          /\ media[i] = anchor.hdr
        BY <1>2, InvGivesRecord, SealedType
           DEF Reseal, VaultInv, SessionInv, CallRecord, Opened, RecordInv, Selectable, TypeOK,
               AnchorType
    <2>1. PICK c \in call.new :
             sealed' = Append(sealed, [gen |-> anchor.gen + 1, policy |-> call.policy, secret |-> c,
                                       vol |-> anchor.vol])
        BY <1>2, <2>0 DEF Reseal, Seals
    <2>2. [gen |-> anchor.gen + 1, policy |-> call.policy, secret |-> c, vol |-> anchor.vol] \in Header
        BY DEF Header, TypeOK, CallType, AnchorType
    <2>3. /\ Len(sealed') = Len(sealed) + 1 /\ sealed' \in Seq(Header)
          /\ sealed'[Len(sealed')].gen = anchor.gen + 1
          /\ sealed'[Len(sealed')].policy = call.policy
          /\ sealed'[Len(sealed')].vol = anchor.vol
        BY <2>1, <2>2 DEF TypeOK
    <2>4. RecordPart'
        BY <1>2, <2>0, <2>1, <2>2, RecordFrame DEF Reseal
    <2>5. Len(sealed) < MaxSeals /\ PolicyValid(call.policy)
        BY <1>2 DEF Reseal, VaultInv, CallHeader, Newest
    <2>6. TypeOK'
        BY <1>2, <2>3, <2>4, <2>5, VaultBounds DEF Reseal, TypeOK, RecordPart, PC
    <2>7. SessionInv'
        BY <1>2 DEF Reseal, VaultInv, SessionInv, Backed
    <2>8. CallRecord'
        BY <1>2 DEF Reseal, VaultInv, CallRecord, Opened
    <2>9. CallHeader'
        <3>1. anchor.gen < MaxGeneration
            BY <1>2, VaultBounds DEF Reseal, TypeOK, AnchorType
        <3>2. pc' = "save" /\ call' = call /\ anchor' = anchor /\ Len(sealed') # 0
            BY <1>2, <2>3 DEF Reseal, TypeOK
        <3>3. QED
            BY <2>3, <2>5, <3>1, <3>2 DEF CallHeader, Newest
    <2>10. CallCopies'
        BY <1>2, <2>0, <2>4 DEF Reseal, VaultInv, CallCopies, RecordPart
    <2>11. QED
        BY <2>4, <2>6, <2>7, <2>8, <2>9, <2>10 DEF VaultInv, RecordPart
<1>3. QED
    BY <1>1, <1>2

\* Evaluating a credential, right or wrong.
LEMMA EvaluatesKeep ==
    ASSUME TypeOK, VaultInv, altered' = altered, EvaluateRight \/ EvaluateWrong
    PROVE  TypeOK' /\ VaultInv'
<1>1. guesses' \in Nat /\ faults' \in 0 .. MaxFaults /\ pc = "evaluate"
    <2>1. guesses \in Nat /\ faults \in 0 .. MaxFaults
        BY DEF TypeOK
    <2>2. CASE EvaluateRight
        BY <2>1, <2>2 DEF EvaluateRight
    <2>3. CASE EvaluateWrong
        BY <2>1, <2>3 DEF EvaluateWrong
    <2>4. QED
        BY <2>2, <2>3
<1>2. CASE EvaluateRight
    BY <1>1, <1>2, EvaluatedKeeps DEF EvaluateRight
<1>3. CASE EvaluateWrong
    BY <1>1, <1>3, EvaluatedKeeps DEF EvaluateWrong
<1>4. QED
    BY <1>2, <1>3

\* Another image on the card: nothing the record or the call relies on.
LEMMA SwapKeeps ==
    ASSUME TypeOK, VaultInv, altered' = altered, SwapCard
    PROVE  TypeOK' /\ VaultInv'
<1>1. RecordPart'
    BY RecordFrame DEF SwapCard
<1>2. TypeOK'
    BY DEF SwapCard, TypeOK
<1>3. SessionInv' /\ CallRecord' /\ CallHeader' /\ CallCopies'
    BY DEF SwapCard, VaultInv, SessionInv, Backed, CallRecord, CallHeader, CallCopies, Newest,
           Opened
<1>4. QED
    BY <1>1, <1>2, <1>3 DEF VaultInv, RecordPart

\* A fresh enrollment satisfies the invariant.
LEMMA InitHolds == Init => TypeOK /\ VaultInv
<1> SUFFICES ASSUME Init PROVE TypeOK /\ VaultInv
    OBVIOUS
<1>1. [max |-> 10, action |-> "DESTROY"] \in PolicyType
    BY DEF PolicyType, Action
<1>2. anchor \in AnchorType
    BY <1>1, VaultBounds DEF Init, AnchorType, Status
<1>3. NoCall \in CallType /\ NoCall.op = "none"
    BY VaultBounds DEF NoCall, CallType, Op, NoPolicy, PolicyType, Action
<1>4. sealed \in Seq(Header) /\ Len(sealed) = 0
    BY DEF Init
<1>5. TypeOK
    <2>1. /\ media \in [{0, 1} -> 0 .. Len(sealed)]
          /\ session \in 0 .. Len(sealed) /\ header \in 0 .. Len(sealed)
        BY <1>4 DEF Init
    <2>2. faults \in 0 .. MaxFaults /\ Len(sealed) <= MaxSeals /\ anchor.hdr <= Len(sealed)
        BY <1>4, VaultBounds DEF Init
    <2>3. pc \in PC /\ slot \in {0, 1} /\ guesses \in Nat /\ result \in Result
        BY DEF Init, PC, Result
    <2>6. failed \in BOOLEAN /\ altered \in BOOLEAN
        BY DEF Init
    <2>4. call \in CallType
        BY <1>3 DEF Init
    <2>5. QED
        BY <1>2, <1>4, <2>1, <2>2, <2>3, <2>4, <2>6 DEF TypeOK
<1>6. AnchorValid /\ AnchorDescribes /\ GuessesPaid
    BY DEF Init, AnchorValid, StateValid, AnchorDescribes, GuessesPaid, GuessBound
<1>7. SessionInv /\ CallRecord /\ CallHeader /\ CallCopies
    BY <1>3 DEF Init, SessionInv, CallRecord, CallHeader, CallCopies, HeaderAvailable, Opened
<1>8. QED
    BY <1>5, <1>6, <1>7 DEF VaultInv

\* Every step keeps the invariant.
LEMMA NextKeeps ==
    ASSUME TypeOK, VaultInv, [Next]_vars
    PROVE  TypeOK' /\ VaultInv'
<1>0. altered' = altered
    BY DEF Next, vars
<1>1. CASE Calls
    BY <1>0, <1>1, CallsKeep
<1>2. CASE Failures
    BY <1>0, <1>2, FailuresKeep
<1>3. CASE Progress
    BY <1>0, <1>3, ReturnsKeep, StepsKeep, SealsKeep, EvaluatesKeep DEF Progress
<1>4. CASE SwapCard
    BY <1>0, <1>4, SwapKeeps
<1>5. CASE UNCHANGED vars
    <2>1. RecordPart'
        BY <1>5, RecordFrame, SomeCopy DEF vars, state
    <2>2. TypeOK'
        BY <1>5 DEF vars, state, TypeOK
    <2>3. SessionInv' /\ CallRecord' /\ CallHeader' /\ CallCopies'
        BY <1>5, <2>1 DEF vars, state, VaultInv, SessionInv, Backed, CallRecord, CallHeader, CallCopies,
                          Newest, Opened, RecordPart
    <2>4. QED
        BY <2>1, <2>2, <2>3 DEF VaultInv, RecordPart
<1>6. QED
    BY <1>1, <1>2, <1>3, <1>4, <1>5 DEF Next

-----------------------------------------------------------------------------
(* The theorems *)

\* The inductive invariant: at every step of every call, the record agrees
\* with its header, guesses are paid for, and what the call relies on holds.
THEOREM VaultInvariant == Spec => [](TypeOK /\ VaultInv)
<1>1. Init => TypeOK /\ VaultInv
    BY InitHolds
<1>2. TypeOK /\ VaultInv /\ [Next]_vars => (TypeOK /\ VaultInv)'
    BY NextKeeps
<1>3. QED
    BY <1>1, <1>2, PTL DEF Spec

\* Record, headers, session and call always have the values the code can
\* give them.
THEOREM VaultType == Spec => []TypeOK
BY VaultInvariant, PTL

\* unlock() evaluates no credential that was not charged to the durable
\* counter before, for any limit and any sequence of failures.
THEOREM VaultGuessBound == Spec => []GuessBound
<1>1. VaultInv => GuessBound
    BY DEF VaultInv, GuessesPaid
<1>2. QED
    BY <1>1, VaultInvariant, PTL

\* No commit writes a record that state_valid() refuses later.
THEOREM VaultAnchorValid == Spec => []AnchorValid
<1>1. VaultInv => AnchorValid
    BY DEF VaultInv
<1>2. QED
    BY <1>1, VaultInvariant, PTL

\* Between calls a session is one of the anchored header, whatever image the
\* card holds.
THEOREM VaultSessionBacked == Spec => []SessionBacked
<1>1. VaultInv => SessionBacked
    BY DEF VaultInv, SessionInv, SessionBacked, Backed
<1>2. QED
    BY <1>1, VaultInvariant, PTL

\* save_header's order keeps a copy of the anchored header on an unaltered
\* card, wherever creation, change or repair is cut off.
THEOREM VaultHeaderAvailable == Spec => []HeaderAvailable
<1>1. VaultInv => HeaderAvailable
    BY DEF VaultInv, CallCopies, HeaderAvailable
<1>2. QED
    BY <1>1, VaultInvariant, PTL

\* An evaluation begins only after a charge or, without a limit, a selection;
\* an outcome is settled only after an evaluation.
LEMMA EvaluationStarts ==
    ASSUME Next
    PROVE  /\ pc' = "evaluate" => pc \in {"evaluate", "charge", "ready"}
           /\ pc' = "settle" =>
                 pc = "evaluate" \/ (pc = "settle" /\ UNCHANGED <<anchor, failed>>)
<1> USE DEF Goto, Return
<1>1. CASE Calls
    BY <1>1 DEF Calls, Recover, Erase, Lock, Unlock, Reverify, Create, Change, Begin
<1>2. CASE Failures
    BY <1>2 DEF Failures, CommitFails, SaveFails, DestroyFails, CreateFails, EvaluateError,
                Evaluated, OpenFails, ResealFails, PowerCut
<1>3. CASE SwapCard
    BY <1>3 DEF SwapCard
<1>4. CASE Progress
    <2>1. CASE RecoverDenied \/ RecoverLoaded \/ Clear \/ Limit \/ Request \/ Destroy \/ RecoverDone
        BY <2>1 DEF RecoverDenied, RecoverLoaded, Clear, Limit, Request, Destroy, RecoverDone
    <2>2. CASE WrongStatus \/ CreateSeal \/ SaveHeader \/ SaveLast \/ Activate \/ SelectFails
        BY <2>2 DEF WrongStatus, CreateSeal, SaveHeader, SaveLast, Activate, SelectFails, AfterSave
    <2>3. CASE \E i \in {0, 1} : Select(i) \/ Reseal(i)
        BY <2>3 DEF Select, Selecting, Reseal
    <2>4. CASE Charge \/ EvaluateRight \/ EvaluateWrong \/ Settle
        BY <2>4 DEF Charge, Commit, EvaluateRight, EvaluateWrong, Evaluated, Settle
    <2>5. CASE Open \/ OpenCandidate \/ ResealRefused \/ Anchor
        BY <2>5 DEF Open, OpenCandidate, ResealRefused, Anchor
    <2>6. QED
        BY <1>4, <2>1, <2>2, <2>3, <2>4, <2>5 DEF Progress
<1>5. QED
    BY <1>1, <1>2, <1>3, <1>4 DEF Next

\* The record changes only by a commit, torn or not, or by a destruction.
LEMMA RecordChanges ==
    ASSUME Next, anchor' # anchor
    PROVE  \/ pc \in Committing /\ anchor' \in {NextRecord, [anchor EXCEPT !.status = "UNREADABLE"]}
           \/ pc = "destroy" /\ anchor' = [anchor EXCEPT !.status = "DESTROYED"]
<1>1. CASE Calls
    BY <1>1 DEF Calls, Recover, Erase, Lock, Unlock, Reverify, Create, Change, Begin
<1>2. CASE Failures
    BY <1>2 DEF Failures, CommitFails, SaveFails, DestroyFails, CreateFails, EvaluateError,
                Evaluated, OpenFails, ResealFails, PowerCut
<1>3. CASE SwapCard
    BY <1>3 DEF SwapCard
<1>4. CASE Progress
    BY <1>4 DEF Progress, RecoverDenied, RecoverLoaded, Clear, Limit, Request, Destroy,
        RecoverDone, WrongStatus, CreateSeal, SaveHeader, SaveLast, Activate, SelectFails, Select,
        Reseal, Charge, EvaluateRight, EvaluateWrong, Evaluated, Settle, Open, OpenCandidate,
        ResealRefused, Anchor, Commit, Committing
<1>5. QED
    BY <1>1, <1>2, <1>3, <1>4 DEF Next

\* Nothing gives back the last attempt.
LEMMA ExhaustedKept ==
    ASSUME TypeOK, VaultInv, Exhausted, Next
    PROVE  Exhausted'
<1> DEFINE Final == {"LOCKED", "DESTROY_PENDING", "DESTROYED", "UNREADABLE"}
<1>1. AtLimit(anchor) => anchor.attempts # 0
    BY DEF AtLimit, VaultInv, AnchorValid, StateValid, PolicyValid, Limited, TypeOK, AnchorType,
           PolicyType
<1>2. CASE anchor' = anchor
    BY <1>2, EvaluationStarts DEF Exhausted, VaultInv, CallRecord
<1>3. CASE anchor' # anchor
    <2>1. CASE anchor' \in {[anchor EXCEPT !.status = "UNREADABLE"], [anchor EXCEPT !.status = "DESTROYED"]}
        BY <2>1 DEF Exhausted, TypeOK, AnchorType
    <2>2. CASE pc \in Committing /\ anchor' = NextRecord
        <3>1. pc \in {"limit", "request"} \/ (pc = "settle" /\ failed /\ AtLimit(anchor))
            BY <1>1, <2>2 DEF Exhausted, VaultInv, CallRecord, Opened, Committing, AtLimit
        <3>2. CASE pc \in {"limit", "request"}
            <4>1. anchor'.status \in {"LOCKED", "DESTROY_PENDING"}
                BY <2>2, <3>2 DEF NextRecord, LimitRecord, RequestRecord, LimitStatus, TypeOK, AnchorType
            <4>2. QED
                BY <4>1 DEF Exhausted
        <3>3. CASE pc = "settle" /\ failed /\ AtLimit(anchor)
            <4>1. /\ anchor'.status = anchor.status /\ anchor'.policy = anchor.policy
                  /\ anchor'.attempts = anchor.attempts
                BY <2>2, <3>3 DEF NextRecord, SettledRecord, TypeOK, AnchorType
            <4>2. pc' # "evaluate"
                BY <3>3, EvaluationStarts
            <4>3. pc' # "settle"
                BY <1>3, <3>3, EvaluationStarts
            <4>4. QED
                BY <3>3, <4>1, <4>2, <4>3 DEF Exhausted, AtLimit
        <3>4. QED
            BY <3>1, <3>2, <3>3
    <2>3. QED
        BY <1>3, <2>1, <2>2, RecordChanges
<1>4. QED
    BY <1>2, <1>3

\* Once the last attempt is spent, no call, restart or swapped card gives
\* another evaluation or a session.
THEOREM VaultLimitIsFinal == Spec => LimitIsFinal
<1>1. ASSUME TypeOK, VaultInv, TypeOK', VaultInv', [Next]_vars
      PROVE  [Exhausted => Exhausted' /\ (pc' = "idle" => session' = 0)]_vars
    <2>1. SUFFICES ASSUME Exhausted, Next PROVE Exhausted' /\ (pc' = "idle" => session' = 0)
        BY <1>1
    <2>2. Exhausted'
        BY <1>1, <2>1, ExhaustedKept
    <2>3. ASSUME pc' = "idle", session' # 0 PROVE FALSE
        <3>1. Backed'
            BY <1>1, <2>3 DEF VaultInv, SessionInv
        <3>2. AtLimit(anchor)'
            BY <2>2, <3>1 DEF Exhausted, Backed
        <3>3. StateValid(anchor)'
            BY <1>1, <3>1 DEF VaultInv, AnchorValid, Backed
        <3>4. PolicyValid(anchor.policy)' /\ (anchor.policy.max \in Nat)'
            BY <1>1, <3>1, <3>3 DEF StateValid, Backed, TypeOK, AnchorType, PolicyType
        <3>5. QED
            BY <3>1, <3>2, <3>4 DEF AtLimit, Backed, PolicyValid, Limited
    <2>4. QED
        BY <2>2, <2>3
<1>2. QED
    BY <1>1, VaultInvariant, PTL DEF Spec, LimitIsFinal

-----------------------------------------------------------------------------
(* What a call returns *)

\* Which call may be where, and the record and header a creation or a change
\* began with, sealed and put in force.
TellInv ==
    /\ pc \in {"copy0", "copy1", "activate"} => call.op = "create"
    /\ pc \in {"reseal", "save", "anchor", "mirror"} => call.op = "change"
    /\ pc = "repair" => call.op = "unlock"
    /\ call.op \in {"create", "change"} =>
          /\ \E c : call.new = {c}
          /\ pc # "mirror" => anchor.hdr = call.base
          /\ pc = "mirror" => anchor.hdr # call.base /\ {sealed[anchor.hdr].secret} = call.new
          /\ pc \in {"copy0", "copy1", "activate", "save", "anchor"} =>
                {sealed[Newest].secret} = call.new /\ call.base < Newest

\* The end of a call leaves nothing to tell.
LEMMA ReturnTells ==
    ASSUME NEW r, Return(r)
    PROVE  TellInv'
BY DEF TellInv, Return, NoCall

\* A step that stays clear of sealing and anchoring keeps what the call tells.
LEMMA GotoTells ==
    ASSUME TellInv, call' = call, sealed' = sealed, anchor'.hdr = anchor.hdr,
           pc # "mirror" \/ pc' = "mirror",
           \/ pc' = pc
           \/ pc' \notin {"copy0", "copy1", "activate", "reseal", "save", "anchor", "mirror", "repair"}
           \/ pc' = "reseal" /\ call.op = "change"
           \/ pc' = "repair" /\ call.op = "unlock"
           \/ pc = "copy0" /\ pc' = "copy1"
           \/ pc = "copy1" /\ pc' = "activate"
           \/ pc = "save" /\ pc' = "anchor"
    PROVE  TellInv'
BY DEF TellInv, Newest

\* Every commit but those of a creation and a change keeps the header in force.
LEMMA RecordKeepsHeader ==
    ASSUME TypeOK
    PROVE  /\ ClearedRecord.hdr = anchor.hdr /\ LimitRecord.hdr = anchor.hdr
           /\ RequestRecord.hdr = anchor.hdr /\ ChargedRecord.hdr = anchor.hdr
           /\ SettledRecord.hdr = anchor.hdr
           /\ CreatedRecord.hdr = Newest /\ ChangedRecord.hdr = Newest
BY DEF TypeOK, AnchorType, ClearedRecord, LimitRecord, RequestRecord, ChargedRecord, SettledRecord,
       CreatedRecord, ChangedRecord

\* Starting a call records the header in force.
LEMMA CallsTell ==
    ASSUME TypeOK, TellInv, Calls
    PROVE  TellInv'
<1>1. CASE Recover \/ Erase
    BY <1>1 DEF Recover, Erase, Begin, NoCall, TellInv
<1>2. CASE Lock
    BY <1>2, GotoTells DEF Lock
<1>3. ASSUME NEW c \in Secret, Unlock(c) \/ Reverify(c) PROVE TellInv'
    BY <1>3 DEF Unlock, Reverify, Begin, NoCall, TellInv
<1>4. ASSUME NEW c \in Secret, NEW p \in Policy, Create(c, p) PROVE TellInv'
    BY <1>4 DEF Create, Begin, NoCall, TellInv
<1>5. ASSUME NEW c \in Secret, NEW d \in Secret, NEW p \in Policy, NEW ok \in BOOLEAN, Change(c, d, p, ok)
      PROVE  TellInv'
    BY <1>5 DEF Change, Begin, TellInv
<1>6. QED
    BY <1>1, <1>2, <1>3, <1>4, <1>5 DEF Calls

\* A new header is that of the new credential, and not the one in force.
LEMMA SealsTell ==
    ASSUME TypeOK, TellInv, CreateSeal \/ \E i \in {0, 1} : Reseal(i)
    PROVE  TellInv'
<1>0. call.op \in {"create", "change"} /\ pc \in {"ready", "reseal"} /\ call' = call /\ anchor' = anchor
    BY DEF CreateSeal, Goto, Reseal, TellInv
<1>1. PICK c, gen, vol :
         /\ c \in call.new
         /\ sealed' = Append(sealed, [gen |-> gen, policy |-> call.policy, secret |-> c, vol |-> vol])
    BY DEF CreateSeal, Reseal, Seals
<1>2. Newest' = Len(sealed) + 1 /\ sealed'[Newest'].secret = c
    BY <1>1 DEF Newest, TypeOK
<1>3. call.new = {c} /\ anchor.hdr = call.base
    BY <1>0, <1>1 DEF TellInv
<1>4. call.base < Newest'
    BY <1>2, <1>3 DEF TypeOK, AnchorType
<1>5. \/ pc' = "copy0" /\ call.op = "create"
      \/ pc' = "save" /\ call.op = "change"
    BY DEF CreateSeal, Goto, Reseal, TellInv
<1>6. QED
    BY <1>0, <1>2, <1>3, <1>4, <1>5 DEF TellInv

\* Every step of a call keeps what it tells.
LEMMA ProgressTells ==
    ASSUME TypeOK, TellInv, Progress
    PROVE  TellInv'
<1>1. CASE RecoverDenied \/ Destroy \/ RecoverDone \/ WrongStatus \/ SaveLast \/ Activate \/ SelectFails
           \/ OpenCandidate \/ ResealRefused
    BY <1>1, ReturnTells DEF RecoverDenied, Destroy, RecoverDone, WrongStatus, SaveLast, Activate,
        SelectFails, OpenCandidate, ResealRefused
<1>2. CASE RecoverLoaded
    BY <1>2, GotoTells DEF RecoverLoaded, Goto
<1>3. CASE Clear \/ Request \/ Charge
    <2>1. anchor'.hdr = anchor.hdr
        BY <1>3, RecordKeepsHeader DEF Clear, Request, Charge, Commit, NextRecord
    <2>2. QED
        BY <1>3, <2>1, GotoTells DEF Clear, Request, Charge, Commit, Goto
<1>4. CASE Limit
    <2>1. anchor'.hdr = anchor.hdr
        BY <1>4, RecordKeepsHeader DEF Limit, Commit, NextRecord
    <2>2. QED
        BY <1>4, <2>1, GotoTells, ReturnTells DEF Limit, Commit, Goto
<1>5. CASE Settle
    <2>1. anchor'.hdr = anchor.hdr
        BY <1>5, RecordKeepsHeader DEF Settle, Commit, NextRecord
    <2>2. QED
        BY <1>5, <2>1, GotoTells, ReturnTells DEF Settle, Commit, Goto
<1>6. CASE SaveHeader
    BY <1>6, GotoTells DEF SaveHeader, AfterSave, Goto
<1>7. ASSUME NEW i \in {0, 1}, Select(i) PROVE TellInv'
    BY <1>7, GotoTells DEF Select, Selecting
<1>8. CASE CreateSeal \/ \E i \in {0, 1} : Reseal(i)
    BY <1>8, SealsTell
<1>9. CASE EvaluateRight \/ EvaluateWrong
    BY <1>9, GotoTells, ReturnTells DEF EvaluateRight, EvaluateWrong, Evaluated
<1>10. CASE Open
    BY <1>10, GotoTells DEF Open, Goto
<1>11. CASE Anchor
    <2>1. anchor'.hdr = Newest /\ pc = "anchor" /\ pc' = "mirror" /\ call' = call /\ sealed' = sealed
        BY <1>11, RecordKeepsHeader DEF Anchor, Commit, NextRecord, Goto
    <2>2. call.base < Newest /\ {sealed[Newest].secret} = call.new /\ call.op = "change"
        BY <2>1 DEF TellInv
    <2>3. call.base # Newest
        BY <2>2 DEF TypeOK, CallType, Newest
    <2>4. QED
        BY <2>1, <2>2, <2>3 DEF TellInv
<1>12. QED
    BY <1>1, <1>2, <1>3, <1>4, <1>5, <1>6, <1>7, <1>8, <1>9, <1>10, <1>11 DEF Progress

\* The invariant of what a call tells.
LEMMA TellHolds ==
    ASSUME TypeOK, TellInv, [Next]_vars
    PROVE  TellInv'
<1>1. CASE Calls
    BY <1>1, CallsTell
<1>2. CASE Progress
    BY <1>2, ProgressTells
<1>3. CASE Failures
    BY <1>3, ReturnTells, GotoTells DEF Failures, CommitFails, SaveFails, DestroyFails, CreateFails,
        EvaluateError, Evaluated, OpenFails, ResealFails, PowerCut
<1>4. CASE SwapCard
    BY <1>4, GotoTells DEF SwapCard
<1>5. CASE UNCHANGED vars
    BY <1>5, GotoTells DEF vars, state
<1>6. QED
    BY <1>1, <1>2, <1>3, <1>4, <1>5 DEF Next

\* Creating and changing: a result that names a credential names the one whose
\* header is in force.
LEMMA WriteResult ==
    ASSUME TypeOK, TellInv, Next, pc # "idle", pc' = "idle", result' # "none",
           call.op \in {"create", "change"}
    PROVE  /\ result' \in {"OK", "CHANGED_NEEDS_MIRROR"} =>
                  anchor'.hdr # call.base /\ {sealed[anchor'.hdr].secret} = call.new
           /\ result' \in {"INVALID", "IO", "AUTH", "DENIED"} => anchor'.hdr = call.base
<1> USE DEF Return
<1>0. pc # "mirror" => anchor.hdr = call.base
    BY DEF TellInv
<1>1. CASE Calls
    BY <1>1 DEF Calls, Recover, Erase, Lock, Unlock, Reverify, Create, Change, Begin
<1>2. CASE SaveLast
    BY <1>2 DEF SaveLast, TellInv
<1>3. CASE Activate
    <2>1. anchor'.hdr = Newest /\ pc = "activate" /\ result' = "OK"
        BY <1>3, RecordKeepsHeader DEF Activate, Commit, NextRecord
    <2>2. call.base < Newest /\ {sealed[Newest].secret} = call.new
        BY <2>1 DEF TellInv
    <2>3. call.base # Newest
        BY <2>2 DEF TypeOK, CallType, Newest
    <2>4. QED
        BY <2>1, <2>2, <2>3
<1>4. CASE RecoverDenied \/ RecoverDone \/ WrongStatus \/ SelectFails \/ OpenCandidate \/ ResealRefused
           \/ EvaluateRight \/ EvaluateWrong \/ EvaluateError \/ CreateFails \/ OpenFails \/ ResealFails
    BY <1>0, <1>4 DEF RecoverDenied, RecoverDone, WrongStatus, SelectFails, Selecting, OpenCandidate,
        ResealRefused, EvaluateRight, EvaluateWrong, EvaluateError, Evaluated, CreateFails, OpenFails,
        ResealFails
<1>5. CASE Limit
    <2>1. anchor'.hdr = anchor.hdr /\ pc = "limit" /\ result' = "DENIED"
        BY <1>5, RecordKeepsHeader DEF Limit, Commit, NextRecord, Goto
    <2>2. QED
        BY <1>0, <2>1
<1>6. CASE Settle
    <2>1. anchor'.hdr = anchor.hdr /\ pc = "settle" /\ result' = "AUTH"
        BY <1>6, RecordKeepsHeader DEF Settle, Commit, NextRecord, Goto
    <2>2. QED
        BY <1>0, <2>1
<1>7. CASE Destroy
    <2>1. anchor'.hdr = anchor.hdr /\ pc = "destroy" /\ result' = "DENIED"
        BY <1>7 DEF Destroy, TypeOK, AnchorType
    <2>2. QED
        BY <1>0, <2>1
<1>8. CASE CommitFails \/ DestroyFails \/ PowerCut
    BY <1>8 DEF CommitFails, DestroyFails, PowerCut
<1>9. CASE SaveFails
    BY <1>0, <1>9 DEF SaveFails, TellInv
<1>10. CASE SwapCard
    BY <1>10 DEF SwapCard
<1>11. CASE RecoverLoaded \/ Clear \/ Request \/ CreateSeal \/ SaveHeader \/ Charge \/ Open \/ Anchor
    BY <1>11 DEF RecoverLoaded, Clear, Request, CreateSeal, SaveHeader, AfterSave, Charge, Open, Anchor, Goto
<1>12. CASE \E i \in {0, 1} : Select(i) \/ Reseal(i)
    BY <1>12 DEF Select, Reseal
<1>13. QED
    BY <1>1, <1>2, <1>3, <1>4, <1>5, <1>6, <1>7, <1>8, <1>9, <1>10, <1>11, <1>12 DEF Next, Progress, Failures

\* Unlocking and verifying again answer OK exactly when a session is left.
LEMMA OpenResult ==
    ASSUME TypeOK, VaultInv, TellInv, Next, pc # "idle", pc' = "idle", result' # "none",
           call.op \in {"unlock", "reverify"}
    PROVE  result' = "OK" <=> session' # 0
<1> USE DEF Return, Locks
<1>0. pc \in {"open", "repair"} => anchor.hdr # 0
    BY DEF VaultInv, CallRecord, AnchorDescribes, Opened
<1>1. CASE Calls
    BY <1>1 DEF Calls, Recover, Erase, Lock, Unlock, Reverify, Create, Change, Begin
<1>2. CASE SaveLast
    BY <1>0, <1>2 DEF SaveLast, TellInv, VaultInv, SessionInv
<1>3. CASE Activate
    BY <1>3 DEF Activate, Commit, TellInv
<1>4. CASE RecoverDenied \/ RecoverDone \/ WrongStatus \/ SelectFails \/ ResealRefused \/ EvaluateRight
           \/ EvaluateWrong \/ EvaluateError \/ CreateFails \/ OpenFails \/ ResealFails
    BY <1>4 DEF RecoverDenied, RecoverDone, WrongStatus, SelectFails, ResealRefused, EvaluateRight,
        EvaluateWrong, EvaluateError, Evaluated, CreateFails, OpenFails, ResealFails
<1>5. CASE OpenCandidate
    BY <1>0, <1>5 DEF OpenCandidate, VaultInv, SessionInv
<1>6. CASE Limit \/ Settle \/ Destroy \/ CommitFails \/ DestroyFails \/ PowerCut
    BY <1>6 DEF Limit, Settle, Destroy, CommitFails, DestroyFails, PowerCut, Goto
<1>7. CASE SaveFails
    BY <1>0, <1>7 DEF SaveFails, TellInv, VaultInv, SessionInv
<1>8. CASE SwapCard
    BY <1>8 DEF SwapCard
<1>9. CASE RecoverLoaded \/ Clear \/ Request \/ CreateSeal \/ SaveHeader \/ Charge \/ Open \/ Anchor
    BY <1>9 DEF RecoverLoaded, Clear, Request, CreateSeal, SaveHeader, AfterSave, Charge, Open, Anchor, Goto
<1>10. CASE \E i \in {0, 1} : Select(i) \/ Reseal(i)
    BY <1>10 DEF Select, Reseal
<1>11. QED
    BY <1>1, <1>2, <1>3, <1>4, <1>5, <1>6, <1>7, <1>8, <1>9, <1>10 DEF Next, Progress, Failures

\* The result of create, change, unlock and verify again tells which
\* credential holds and whether there is a session (fv_vault_create,
\* fv_vault_change_credential, fv_vault_unlock, fv_vault_reverify), wherever a
\* write of the record or of a header failed.
THEOREM VaultResultTells == Spec => ResultTells
<1> DEFINE Inv == TypeOK /\ VaultInv /\ TellInv
           Tells == pc # "idle" /\ pc' = "idle" /\ result' # "none" =>
              /\ call.op \in {"unlock", "reverify"} => (result' = "OK" <=> session' # 0)
              /\ call.op \in {"create", "change"} =>
                    /\ result' \in {"OK", "CHANGED_NEEDS_MIRROR"} =>
                            anchor'.hdr # call.base /\ {sealed[anchor'.hdr].secret} = call.new
                    /\ result' \in {"INVALID", "IO", "AUTH", "DENIED"} => anchor'.hdr = call.base
<1>1. Init => TellInv
    BY DEF Init, TellInv, NoCall
<1>2. Inv /\ [Next]_vars => TellInv'
    BY TellHolds
<1>3. Inv /\ [Next]_vars => [Tells]_vars
    BY WriteResult, OpenResult
<1>4. ResultTells <=> [][Tells]_vars
    BY DEF ResultTells
<1>5. QED
    BY <1>1, <1>2, <1>3, <1>4, VaultInvariant, PTL DEF Spec
=============================================================================
