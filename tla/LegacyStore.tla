----------------------------- MODULE LegacyStore -----------------------------
(***************************************************************************)
(* What the first-generation firmware keeps when the power is off, and how *)
(* it is read back (device_roots.c, media_layout.c, vault_header_store.c,  *)
(* device_services.c): the one-time-programmable device roots, the latest  *)
(* record of the security journal (LegacyJournal shows why one record is   *)
(* enough) and the superblocks and header slots of the card.               *)
(*                                                                         *)
(* A sector is Blank, Garbage (foreign data or a torn write) or a record   *)
(* that authenticates under the device roots.  The header tag in the       *)
(* journal binds the whole header, so the anchor is the header itself.     *)
(***************************************************************************)
EXTENDS Integers, FiniteSets

Blank == [kind |-> "blank"]
Garbage == [kind |-> "garbage"]
Super(vault, seq) == [kind |-> "super", vault |-> vault, seq |-> seq]
Header(vault, seq, entry) ==
  [kind |-> "header", vault |-> vault, seq |-> seq, entry |-> entry]
NoHeader == [kind |-> "none"]
NoVault == 0

NoRecord == [seq |-> 0]
Record(seq, attempts, vault, anchor) ==
  [seq |-> seq, attempts |-> attempts, vault |-> vault, anchor |-> anchor]

\* inspect_rows
RootsStatus(otp) ==
  CASE otp.revoked = "yes" -> "REVOKED"
    [] otp.revoked = "no" /\ otp.rows = "empty" -> "EMPTY"
    [] otp.revoked = "no" /\ otp.rows = "active" -> "ACTIVE"
    [] OTHER -> "INVALID"

Newest(rs) == CHOOSE r \in rs : \A q \in rs : q.seq <= r.seq
\* Two copies are a pair only when one follows the other.
Paired(rs) == \A q, r \in rs : q # r => q.seq - r.seq \in {-1, 1} /\ q.vault = r.vault

\* Of the two copies of a record: the one in force, or why there is none.
Select(slots, good) ==
  LET rs == {slots[i] : i \in {j \in 0..1 : slots[j] \in good}}
      twins == slots[0] \in good /\ slots[0] = slots[1]
  IN CASE rs # {} /\ Paired(rs) /\ ~twins -> [result |-> "OK", found |-> Newest(rs)]
       [] rs # {} /\ (~Paired(rs) \/ twins) -> [result |-> "INVALID", found |-> NoHeader]
       [] rs = {} /\ \E i \in 0..1 : slots[i] # Blank ->
            [result |-> "INVALID", found |-> NoHeader]
       [] OTHER -> [result |-> "NOT_FOUND", found |-> NoHeader]

\* fv_media_load; vault is the expected vault, NoVault for any
MediaLoad(card, vault) ==
  Select(card.super, {s \in {card.super[0], card.super[1]} :
                        s.kind = "super" /\ vault \in {NoVault, s.vault}})

\* fv_vault_header_store_load
HeaderLoad(card, vault) ==
  Select(card.head, {h \in {card.head[0], card.head[1]} :
                       h.kind = "header" /\ h.vault = vault})

\* find_committed
FindCommitted(card, vault, anchor) ==
  IF \E i \in 0..1 : card.head[i] = anchor /\ anchor.vault = vault
  THEN [result |-> "OK", found |-> anchor]
  ELSE [result |-> "INVALID", found |-> NoHeader]

\* fv_vault_header_store_load_committed
LoadCommitted(card, vault, anchor) ==
  IF anchor = NoHeader THEN HeaderLoad(card, vault) ELSE FindCommitted(card, vault, anchor)

Anchor(jrn) == IF jrn = NoRecord THEN NoHeader ELSE jrn.anchor

\* roots_result: what the other services make of the roots' status
RootsResult(otp) ==
  [EMPTY |-> "NOT_FOUND", ACTIVE |-> "OK", REVOKED |-> "INVALID",
   INVALID |-> "INVALID"][RootsStatus(otp)]

\* load_security_state: the journal cannot be opened without the roots
StateResult(otp, jrn) ==
  IF RootsResult(otp) = "OK" /\ jrn = NoRecord THEN "NOT_FOUND" ELSE RootsResult(otp)

\* load_vault_header; vid is current_vault_id after load_security_state
LoadVaultHeader(otp, jrn, card, vid) ==
  LET media == MediaLoad(card, vid)
  IN CASE RootsResult(otp) # "OK" -> [result |-> RootsResult(otp), found |-> NoHeader]
       [] RootsResult(otp) = "OK" /\ media.result # "OK" ->
            [result |-> media.result, found |-> NoHeader]
       [] OTHER -> LoadCommitted(card, media.found.vault, Anchor(jrn))

\* Mutant: the next header goes over the committed one.
StageOverCommitted(card, anchor, header) ==
  IF anchor = NoHeader THEN (header.seq - 1) % 2
  ELSE CHOOSE i \in 0..1 : card.head[i] = anchor

\* fv_vault_header_store_stage: the slot the next header goes to, -1 when refused
StageSlot(card, anchor, header) ==
  LET old == HeaderLoad(card, header.vault)
      at == {i \in 0..1 : card.head[i] = anchor /\ anchor.vault = header.vault}
  IN CASE anchor = NoHeader /\ old.result = "OK" ->
            IF header.seq = old.found.seq + 1 THEN old.found.seq % 2 ELSE -1
       [] anchor = NoHeader /\ old.result = "NOT_FOUND" ->
            IF header.seq = 1 THEN 0 ELSE -1
       [] anchor # NoHeader /\ header.seq = anchor.seq + 1 /\ at # {} ->
            1 - (CHOOSE i \in at : \A j \in at : i <= j)
       [] OTHER -> -1

\* fv_security_journal_append and store_security_state: what may follow a record
MayAppend(jrn, new) ==
  IF jrn = NoRecord THEN new.seq = 1
  ELSE /\ new.seq = jrn.seq + 1 /\ new.vault = jrn.vault
       /\ jrn.anchor \notin {NoHeader, new.anchor}
            => new.anchor # NoHeader /\ new.anchor.seq = jrn.anchor.seq + 1

\* The states a sector may be in after a write that was cut or failed.
Torn(old, new) == {old, Garbage, new}
=============================================================================
