----------------------------- MODULE LegacyDevice -----------------------------
(***************************************************************************)
(* The first-generation firmware as a whole: the main loop (main.c) turns  *)
(* what the card, the connector, the host and the buttons do into events,  *)
(* the application (LegacyApp) turns an event into commands, and the       *)
(* runtime (device_runtime.c) carries them out in a fixed order, feeding   *)
(* their outcomes back as events.  Every durable write is a step of its    *)
(* own, so that the power can go between any two of them.                  *)
(*                                                                         *)
(* Time and the passkey engine are not followed: an unlock that has grown  *)
(* too old and what the engine decides are choices.                        *)
(***************************************************************************)
EXTENDS Sequences, LegacyApp, LegacyStore, LegacySd, LegacyUsb

CONSTANTS Value,            \* secrets a user may enter
          MaxTransitions,   \* rounds of fv_device_runtime_execute
          MaxVaults,        \* bound: setup attempts that choose a vault id
          MaxRecords,       \* bound: journal records
          MaxFaults,        \* bound: failures, removals, cable changes, cuts
          MaxPasskeys,      \* bound: passkeys the engine may report
          Cable,            \* what the connectors may show
          Card              \* what the card may hold at first

\* A secret takes three rounds, and a wipe may begin anew twice.
ASSUME TransitionsAssumption == MaxTransitions \in Nat /\ MaxTransitions >= 6
\* Nothing on a card that this device has not written authenticates under its roots.
ASSUME CardAssumption ==
  Card \subseteq [super : [0..1 -> {Blank, Garbage}], head : [0..1 -> {Blank, Garbage}]]

VARIABLES app,                \* fv_app_t, or Off
          cmds, next, turns,  \* fv_device_runtime_execute: commands, next, transitions
          step,               \* progress within the command being carried out
          vid,                \* current_vault_id
          staged,             \* the header a running operation works on
          otp, jrn, card,     \* durable
          slot, sd,           \* the card socket and its driver
          usb, cable, con,    \* USB device, cables, connector safety
          keys,               \* session keys: [vmk, enc]
          fido,               \* fido_fault, fido_reunlock
          guesses,            \* wrong secrets evaluated since the last right one
          disowned,           \* setup was told to fail, and its record is stored
          faults

durable == <<otp, jrn, card>>
ram == <<app, cmds, next, turns, step, vid, staged, sd, usb, con, keys, fido>>
vars == <<ram, durable, slot, cable, guesses, disowned, faults>>

Off == [state |-> "OFF"]
NoPick == [result |-> "CHANGED", value |-> "none"]
NoKeys == [vmk |-> FALSE, enc |-> FALSE]
NoFido == [fault |-> FALSE, reunlock |-> FALSE]
On == app # Off
Idle == On /\ cmds = {}

\* fv_device_runtime_execute: the order in which commands are looked at
Order == <<"DETACH", "ERASE_TRANSIENT", "ERASE_KEYS", "DESTROY", "INSPECT", "PREPARE",
           "PROVISION", "STORE_ATTEMPT", "AUTHENTICATE", "CHANGE", "ATTACH_MSC",
           "ATTACH_FIDO", "PASSKEY_BEGIN", "PASSKEY_READ", "PASSKEY_DELETE", "PASSKEY_END">>
First(cs) == Order[CHOOSE i \in 1..Len(Order) :
                     Order[i] \in cs /\ \A j \in 1..(i - 1) : Order[j] \notin cs]
Doing(c) == cmds # {} /\ First(cmds) = c

\* clear_session, as far as the application's own fields go
ForgetSession(a) == [SettingsClear(a) EXCEPT !.index = 0, !.count = 0]

\* fail: the session is dropped and the application faults
Fail(a) == EnterFault(ForgetSession(a))

\* A command ends with an outcome of the application (and nothing more when
\* it has none); the round after the last is a fatal error.
Finish(out) ==
  LET rest == cmds \ {First(cmds)}
      more == next \cup out.cmds
  IN /\ step' = "" /\ staged' = NoHeader
     /\ IF rest # {} THEN app' = out.app /\ cmds' = rest /\ next' = more /\ turns' = turns
        ELSE IF more = {} \/ turns + 1 < MaxTransitions
        THEN /\ app' = out.app /\ cmds' = more /\ next' = {}
             /\ turns' = IF more = {} THEN 0 ELSE turns + 1
        ELSE app' = Fail(out.app).app /\ cmds' = {} /\ next' = {} /\ turns' = 0
Done == Finish(Stay(app))
Answer(e) == Finish(Handle(app, e, NoPick))
\* Failing also drops the keys; Kept leaves them.
Kept == UNCHANGED keys
Broken == Finish(Fail(app)) /\ keys' = NoKeys

\* dispatch_event, outside a running command
Dispatch(e, p) ==
  LET out == Handle(app, e, p)
  IN app' = out.app /\ cmds' = out.cmds /\ next' = {} /\ turns' = 0

Fault == faults < MaxFaults /\ faults' = faults + 1
CardOk == CanTransfer(sd, slot) /\ UNCHANGED <<sd, faults>>
\* A transfer fails because the card is gone, or by itself.
CardFails ==
  /\ sd' = FailedTransfer(sd, slot)
  /\ IF CanTransfer(sd, slot) THEN Fault ELSE UNCHANGED faults
----------------------------------------------------------------------------
\* A device that has never been set up, and one that has.
New ==
  otp = [rows |-> "empty", revoked |-> "no"] /\ jrn = NoRecord /\ card \in Card
SetUp ==
  /\ otp = [rows |-> "active", revoked |-> "no"] /\ jrn = Record(1, 0, 1, NoHeader)
  /\ card = [super |-> [i \in 0..1 |-> Super(1, i + 1)],
             head |-> [i \in 0..1 |->
                        IF i = 1 THEN Blank
                        ELSE Header(1, 1, [method |-> 0, value |-> CHOOSE v \in Value : TRUE])]]

Init ==
  /\ app = Off /\ cmds = {} /\ next = {} /\ turns = 0 /\ step = "" /\ vid = NoVault
  /\ staged = NoHeader /\ sd = SdOff
  /\ \/ New /\ slot = "raw"
     \/ SetUp /\ slot \in {"raw", "none"}
  /\ usb = UsbOff /\ cable \in Cable \ {"both"} /\ con = NoRoute
  /\ keys = NoKeys /\ fido = NoFido /\ guesses = 0 /\ disowned = FALSE /\ faults = 0

\* fv_boot_recover_entry_method: the method is the header's, or there is none
MethodKnown(header) == header.result = "OK"

\* recover_boot_state once the driver is up; present: the card can be read
Recovered(status, present, header) ==
  CASE status \in {"REVOKED", "INVALID"} -> "FAILED"
    [] status = "EMPTY" \/ jrn = NoRecord -> "READY"
    [] status = "ACTIVE" /\ jrn # NoRecord /\ ~present -> "WAITING"
    [] OTHER -> IF MethodKnown(header) THEN "READY" ELSE "FAILED"

\* What the application makes of the state that was recovered.
BootOutcome(reads, present, id, faulted) ==
  LET known == StateResult(otp, jrn) = "OK"
      header == IF reads THEN LoadVaultHeader(otp, jrn, card, id)
                ELSE [result |-> "IO_ERROR", found |-> NoHeader]
      how == Recovered(RootsStatus(otp), present, header)
      a == AppInit(known, IF known THEN jrn.attempts ELSE 0,
                   IF known /\ how = "READY" THEN header.found.entry.method ELSE 0)
  IN CASE faulted \/ how = "FAILED" -> Stay(EnterFault(a).app)
       [] ~faulted /\ how = "READY" -> Handle(a, "BOOT_COMPLETED", NoPick)
       [] OTHER -> Handle(a, "BOOT_MEDIA_REQUIRED", NoPick)

\* A record that setup was told to have failed counts from the time the
\* device asks for its secret.
StillDisowned(a) == disowned /\ a.state # "VAULT_SECRET_ENTRY"

\* main, up to the loop
Boot ==
  /\ app = Off
  /\ \E ok, reads \in BOOLEAN :
       /\ IF (ok /\ reads) \/ slot = "none" THEN UNCHANGED faults ELSE Fault
       /\ sd' = SdInit(slot, ok)
       /\ slot' = IF sd'.initialized THEN "live" ELSE slot
       /\ vid' = IF StateResult(otp, jrn) = "OK" THEN jrn.vault ELSE NoVault
       /\ con' = ConnectorPoll(NoRoute, cable)
       /\ LET out == BootOutcome(reads, sd'.initialized, vid', con'.faulted)
          IN app' = out.app /\ cmds' = out.cmds /\ disowned' = StillDisowned(out.app)
  /\ next' = {} /\ turns' = 0 /\ step' = "" /\ staged' = NoHeader
  /\ usb' = UsbOff /\ keys' = NoKeys /\ fido' = NoFido
  /\ UNCHANGED <<durable, cable, guesses>>

\* Power is lost, between two writes or in the middle of one.
Tearing ==
  \/ UNCHANGED durable
  \/ /\ step \in {"super0", "super1"}
     /\ \E w \in Torn(card.super[IF step = "super0" THEN 0 ELSE 1],
                      Super(staged.vault, IF step = "super0" THEN 1 ELSE 2)) :
          card' = [card EXCEPT !.super[IF step = "super0" THEN 0 ELSE 1] = w]
     /\ UNCHANGED <<otp, jrn>>
  \/ /\ step \in {"header", "stage"} /\ StageSlot(card, Anchor(jrn), staged) # -1
     /\ \E w \in Torn(card.head[StageSlot(card, Anchor(jrn), staged)], staged) :
          card' = [card EXCEPT !.head[StageSlot(card, Anchor(jrn), staged)] = w]
     /\ UNCHANGED <<otp, jrn>>
  \/ /\ step \in {"rows", "format", "active"}
     /\ \E r \in {"torn", step} : otp' = [otp EXCEPT !.rows = r]
     /\ UNCHANGED <<jrn, card>>
  \/ /\ Doing("DESTROY") /\ otp.revoked = "no"
     /\ \E r \in {"torn", "yes"} : otp' = [otp EXCEPT !.revoked = r]
     /\ UNCHANGED <<jrn, card>>
  \/ /\ Doing("PREPARE")
     /\ \E w \in [0..1 -> {card.super[0], card.super[1], Garbage, Blank}] :
          /\ \A i \in 0..1 : w[i] \in Torn(card.super[i], Blank)
          /\ card' = [card EXCEPT !.super = w]
     /\ UNCHANGED <<otp, jrn>>

Cut ==
  /\ On /\ Fault /\ Tearing
  /\ app' = Off /\ cmds' = {} /\ next' = {} /\ turns' = 0 /\ step' = "" /\ vid' = NoVault
  /\ staged' = NoHeader /\ sd' = SdOff /\ usb' = UsbOff /\ con' = NoRoute
  /\ keys' = NoKeys /\ fido' = NoFido
  /\ slot' = IF slot = "none" THEN "none" ELSE "raw"
  /\ UNCHANGED <<cable, guesses, disowned>>
----------------------------------------------------------------------------
(* fv_device_runtime_execute, one action per command or per durable write. *)

\* usb_detach: the plaintext device is flushed, the bus and the route go away
Detach ==
  /\ Doing("DETACH") /\ usb' = UsbDetach(usb) /\ con' = Disable(con)
  /\ \/ (usb.blocks => CanTransfer(sd, slot)) /\ UNCHANGED <<sd, faults>> /\ Done /\ Kept
     \/ usb.blocks /\ CardFails /\ Broken
  /\ UNCHANGED <<durable, vid, slot, cable, fido, guesses, disowned>>

EraseTransient ==
  /\ Doing("ERASE_TRANSIENT")
  /\ Finish(Stay([app EXCEPT !.secret = NoEntry, !.setup = NoEntry]))
  /\ UNCHANGED <<durable, vid, slot, sd, usb, cable, con, keys, fido, guesses, disowned, faults>>

EraseKeys ==
  /\ Doing("ERASE_KEYS") /\ Finish(Stay(ForgetSession(app))) /\ keys' = NoKeys
  /\ UNCHANGED <<durable, vid, slot, sd, usb, cable, con, fido, guesses, disowned, faults>>

\* fv_device_roots_revoke; revoked roots never get this far
Destroy ==
  /\ Doing("DESTROY")
  /\ \/ otp' = [otp EXCEPT !.revoked = "yes"] /\ Done /\ Kept /\ UNCHANGED faults
     \/ /\ Fault
        /\ \E r \in {otp.revoked, "torn"} : otp' = [otp EXCEPT !.revoked = r]
        /\ Broken
  /\ UNCHANGED <<jrn, card, vid, slot, sd, usb, cable, con, fido, guesses, disowned>>

\* fv_media_classify: any card that can be read will do
InspectMedia ==
  /\ Doing("INSPECT") /\ Kept
  /\ \/ IsPresent(sd, slot) /\ CardOk /\ Answer("MEDIA_FOUND")
     \/ IsPresent(sd, slot) /\ CardFails /\ Answer("MEDIA_FAILED")
     \/ ~IsPresent(sd, slot) /\ Answer("MEDIA_FAILED") /\ UNCHANGED <<sd, faults>>
  /\ UNCHANGED <<durable, vid, slot, usb, cable, con, fido, guesses, disowned>>

\* fv_media_prepare_for_initialization: the superblocks and nothing else
PrepareMedia ==
  /\ Doing("PREPARE") /\ Kept
  /\ \/ /\ IsPresent(sd, slot) /\ CardOk /\ Answer("MEDIA_PREPARED")
        /\ card' = [card EXCEPT !.super = [i \in 0..1 |-> Blank]]
     \/ /\ IsPresent(sd, slot) /\ CardFails /\ Answer("MEDIA_FAILED")
        /\ \E w \in {Blank, Garbage} : card' = [card EXCEPT !.super[0] = w]
     \/ ~IsPresent(sd, slot) /\ Answer("MEDIA_FAILED") /\ UNCHANGED <<sd, faults, card>>
  /\ UNCHANGED <<otp, jrn, vid, slot, usb, cable, con, fido, guesses, disowned>>

Working(s) == step' = s /\ UNCHANGED <<app, cmds, next, turns>>
SetupFails == Answer("PROVISIONING_FAILED")

\* fv_setup_provision: the device must be pristine
ProvisionStart ==
  /\ Doing("PROVISION") /\ step = "" /\ Kept
  /\ LET status == RootsStatus(otp)
         header == LoadVaultHeader(otp, jrn, card, vid)
         pristine == status \in {"EMPTY", "ACTIVE"} /\ StateResult(otp, jrn) = "NOT_FOUND"
     IN \/ /\ pristine /\ status = "EMPTY" /\ Working("rows")
           /\ staged' = Header(NoVault, 1, app.setup) /\ UNCHANGED <<sd, faults>>
        \/ pristine /\ status = "EMPTY" /\ Fault /\ SetupFails /\ UNCHANGED sd   \* no random roots
        \/ /\ pristine /\ status = "ACTIVE" /\ header.result = "NOT_FOUND" /\ CardOk
           /\ Working("vault") /\ staged' = Header(NoVault, 1, app.setup)
        \/ pristine /\ status = "ACTIVE" /\ header.result # "NOT_FOUND" /\ CardOk /\ SetupFails
        \/ pristine /\ status = "ACTIVE" /\ CardFails /\ SetupFails
        \/ ~pristine /\ SetupFails /\ UNCHANGED <<sd, faults>>
  /\ UNCHANGED <<durable, vid, slot, usb, cable, con, fido, guesses, disowned>>

\* A write of the roots whose acknowledgement is lost counts when they prove
\* to be active.
RootsProve(r) ==
  IF RootsStatus(r) = "ACTIVE" THEN Working("vault") /\ UNCHANGED staged ELSE SetupFails

\* fv_device_roots_provision: roots, format marker, active marker.
ProvisionRoots ==
  /\ Doing("PROVISION") /\ step \in {"rows", "format", "active"} /\ Kept
  /\ LET after == [rows |-> "format", format |-> "active", active |-> "vault"][step]
     IN \/ /\ otp' = [otp EXCEPT !.rows = step] /\ Working(after)
           /\ UNCHANGED <<staged, faults>>
        \/ /\ Fault
           /\ \E r \in {"torn", step} : otp' = [otp EXCEPT !.rows = r]
           /\ RootsProve(otp')
  /\ UNCHANGED <<jrn, card, vid, slot, sd, usb, cable, con, fido, guesses, disowned>>

\* A random id: none that is still about.
Fresh == CHOOSE v \in 1..MaxVaults :
           /\ v # vid
           /\ \A i \in 0..1 : /\ card.super[i].kind = "super" => card.super[i].vault # v
                              /\ card.head[i].kind = "header" => card.head[i].vault # v

\* store_vault_header begins: only a blank card is formatted
ProvisionVault ==
  /\ Doing("PROVISION") /\ step = "vault" /\ Kept
  /\ \/ /\ MediaLoad(card, Fresh).result = "NOT_FOUND" /\ CardOk /\ Working("super0")
        /\ staged' = [staged EXCEPT !.vault = Fresh]
     \/ MediaLoad(card, Fresh).result # "NOT_FOUND" /\ CardOk /\ SetupFails
     \/ CardFails /\ SetupFails
  /\ UNCHANGED <<durable, vid, slot, usb, cable, con, fido, guesses, disowned>>

\* fv_media_format: two superblocks, each flushed
ProvisionSuper ==
  /\ Doing("PROVISION") /\ step \in {"super0", "super1"} /\ Kept
  /\ LET i == IF step = "super0" THEN 0 ELSE 1
         new == Super(staged.vault, i + 1)
     IN \/ /\ CardOk /\ card' = [card EXCEPT !.super[i] = new] /\ UNCHANGED staged
           /\ Working(IF i = 0 THEN "super1" ELSE "header")
        \/ /\ CardFails /\ SetupFails
           /\ \E w \in Torn(card.super[i], new) : card' = [card EXCEPT !.super[i] = w]
  /\ UNCHANGED <<otp, jrn, vid, slot, usb, cable, con, fido, guesses, disowned>>

\* fv_vault_header_store_stage writes a header and reads it back
StageWrite ==
  card' = [card EXCEPT !.head[StageSlot(card, Anchor(jrn), staged)] = staged]
StageTorn ==
  \E w \in Torn(card.head[StageSlot(card, Anchor(jrn), staged)], staged) :
    card' = [card EXCEPT !.head[StageSlot(card, Anchor(jrn), staged)] = w]
Refused == StageSlot(card, Anchor(jrn), staged) = -1

ProvisionHeader ==
  /\ Doing("PROVISION") /\ step = "header" /\ Kept
  /\ \/ ~Refused /\ CardOk /\ StageWrite /\ vid' = staged.vault /\ Working("journal")
        /\ UNCHANGED staged
     \/ Refused /\ CardOk /\ SetupFails /\ UNCHANGED <<card, vid>>
     \/ ~Refused /\ CardFails /\ SetupFails /\ StageTorn /\ UNCHANGED vid
     \/ ~Refused /\ CardFails /\ SetupFails /\ StageWrite /\ vid' = staged.vault
  /\ UNCHANGED <<otp, jrn, slot, usb, cable, con, fido, guesses, disowned>>

\* The record that makes the device provisioned.  When it is stored and cannot
\* be read back, or its acknowledgement is lost, setup fails all the same.
ProvisionState ==
  /\ Doing("PROVISION") /\ step = "journal" /\ Kept
  /\ LET new == Record(1, 0, vid, NoHeader)
     IN \/ jrn' = new /\ Answer("PROVISIONING_SUCCEEDED") /\ UNCHANGED <<faults, disowned>>
        \/ Fault /\ SetupFails /\ UNCHANGED <<jrn, disowned>>
        \/ Fault /\ SetupFails /\ jrn' = new /\ disowned' = TRUE
  /\ UNCHANGED <<otp, card, vid, slot, sd, usb, cable, con, fido, guesses>>

\* store_attempt_state
StoreAttempt ==
  /\ Doing("STORE_ATTEMPT")
  /\ LET new == [jrn EXCEPT !.seq = @ + 1, !.attempts = app.attempts]
     IN \/ /\ StateResult(otp, jrn) = "OK" /\ MayAppend(jrn, new)
           /\ jrn' = new /\ Answer("ATTEMPT_COUNTER_STORED") /\ Kept /\ UNCHANGED faults
        \/ Fault /\ Broken /\ UNCHANGED jrn
        \/ Fault /\ Broken /\ StateResult(otp, jrn) = "OK" /\ MayAppend(jrn, new) /\ jrn' = new
  /\ UNCHANGED <<otp, card, vid, slot, sd, usb, cable, con, fido, guesses, disowned>>

\* prepare_encrypted_session, once the volume key is there
SessionKeys == [vmk |-> TRUE, enc |-> TRUE]

\* fv_authenticate
Authenticate ==
  /\ Doing("AUTHENTICATE")
  /\ LET header == LoadVaultHeader(otp, jrn, card, vid)
         right == header.result = "OK" /\ header.found.entry = app.secret
     IN \/ /\ CardOk /\ right /\ Answer("AUTH_SUCCEEDED")
           /\ keys' = SessionKeys /\ guesses' = 0
        \/ /\ CardOk /\ ~right
           /\ IF header.result = "OK" THEN Answer("AUTH_FAILED") /\ guesses' = guesses + 1
                                      ELSE Broken /\ UNCHANGED guesses
           /\ keys' = NoKeys
        \/ CardFails /\ Broken /\ UNCHANGED guesses
  /\ UNCHANGED <<durable, vid, slot, usb, cable, con, fido, disowned>>

\* fv_credential_change: transports go first, then the header in force is
\* anchored, the next one staged, and the anchor moved to it
ChangeStart ==
  /\ Doing("CHANGE") /\ step = "" /\ usb' = UsbDetach(usb) /\ con' = Disable(con)
  /\ LET header == LoadVaultHeader(otp, jrn, card, vid)
         valid == app.unlocked /\ keys.vmk /\ app.attempts = 0 /\ jrn.attempts = 0
                    /\ header.result = "OK"
     IN \/ /\ CardOk /\ valid /\ Kept
           /\ Working(IF jrn.anchor = NoHeader THEN "anchor" ELSE "stage")
           /\ staged' = [header.found EXCEPT !.seq = @ + 1, !.entry = app.change]
        \/ CardOk /\ ~valid /\ Broken
        \/ CardFails /\ Broken
  /\ UNCHANGED <<durable, vid, slot, cable, fido, guesses, disowned>>

ChangeJournal ==
  /\ Doing("CHANGE") /\ step \in {"anchor", "commit"}
  /\ LET head == IF step = "commit" THEN staged
                 ELSE LoadVaultHeader(otp, jrn, card, vid).found
         new == [jrn EXCEPT !.seq = @ + 1, !.anchor = head]
     IN \/ /\ MayAppend(jrn, new) /\ jrn' = new /\ Kept /\ UNCHANGED faults
           /\ Working(IF step = "anchor" THEN "stage" ELSE "verify") /\ UNCHANGED staged
        \/ Fault /\ Broken /\ UNCHANGED jrn
        \/ Fault /\ Broken /\ MayAppend(jrn, new) /\ jrn' = new   \* stored, not verified
  /\ UNCHANGED <<otp, card, vid, slot, sd, usb, cable, con, fido, guesses, disowned>>

ChangeStage ==
  /\ Doing("CHANGE") /\ step = "stage"
  /\ \/ /\ CardOk
        /\ IF Refused THEN Broken /\ UNCHANGED card
           ELSE StageWrite /\ Working("commit") /\ Kept /\ UNCHANGED staged
     \/ ~Refused /\ CardFails /\ StageTorn /\ Broken
  /\ UNCHANGED <<otp, jrn, vid, slot, usb, cable, con, fido, guesses, disowned>>

ChangeVerify ==
  /\ Doing("CHANGE") /\ step = "verify"
  /\ \/ CardOk /\ LoadVaultHeader(otp, jrn, card, vid).found = staged
        /\ Answer("CREDENTIAL_CHANGED") /\ Kept
     \/ CardFails /\ Broken
  /\ UNCHANGED <<durable, vid, slot, usb, cable, con, fido, guesses, disowned>>

\* usb_attach_msc; the block device is the decrypted card
BlocksReady == keys.enc /\ IsPresent(sd, slot)
AttachMassStorage ==
  /\ Doing("ATTACH_MSC")
  /\ LET k == ConnectorPoll(con, cable)
     IN \/ /\ keys.enc /\ CanRoute(k) /\ CanAttachMsc(usb, BlocksReady)
           /\ usb' = AttachMsc(usb) /\ con' = Route(k) /\ Done /\ Kept /\ UNCHANGED faults
        \/ /\ ~(keys.enc /\ CanRoute(k) /\ CanAttachMsc(usb, BlocksReady))
           /\ con' = IF keys.enc /\ CanRoute(k) THEN Disable(k) ELSE k
           /\ Broken /\ UNCHANGED <<usb, faults>>
        \/ /\ keys.enc /\ CanRoute(k) /\ CanAttachMsc(usb, BlocksReady) /\ Fault
           /\ usb' = AttachMscFailed(usb) /\ con' = Disable(k) /\ Broken
  /\ UNCHANGED <<durable, vid, slot, sd, cable, fido, guesses, disowned>>

\* fido_safe
FidoSafe(k) == keys.vmk /\ app.unlocked /\ IsPresent(sd, slot) /\ ~k.faulted

\* usb_attach_fido: the passkey store is opened, the engine started
AttachPasskeys ==
  /\ Doing("ATTACH_FIDO")
  /\ LET k == ConnectorPoll(con, cable)
         may == keys.enc /\ FidoSafe(k)
     IN \/ /\ may /\ CanRoute(k) /\ CanAttachFido(usb) /\ CardOk /\ fido' = NoFido
           /\ usb' = AttachFido(usb) /\ con' = Route(k) /\ Done /\ Kept
        \/ /\ ~may /\ con' = k /\ fido' = [NoFido EXCEPT !.fault = keys.enc]
           /\ Broken /\ UNCHANGED <<usb, sd, faults>>
        \/ /\ may /\ CanTransfer(sd, slot) /\ ~(CanRoute(k) /\ CanAttachFido(usb))
           /\ usb' = UsbDetach(usb) /\ con' = Disable(k) /\ fido' = NoFido /\ Broken
           /\ UNCHANGED <<sd, faults>>
        \/ /\ may /\ CardFails /\ con' = k /\ fido' = NoFido /\ Broken /\ UNCHANGED usb
  /\ UNCHANGED <<durable, vid, slot, cable, guesses, disowned>>

\* manage_passkeys: the engine moves the index and reports the count
ManagePasskeys ==
  /\ \E c \in {"PASSKEY_BEGIN", "PASSKEY_READ", "PASSKEY_DELETE", "PASSKEY_END"} : Doing(c)
  /\ \/ /\ keys.vmk /\ app.unlocked /\ UNCHANGED faults /\ Kept
        /\ \E n \in 0..MaxPasskeys :
             /\ First(cmds) \in {"PASSKEY_READ", "PASSKEY_END"} => n = app.count
             /\ First(cmds) = "PASSKEY_DELETE" => n = app.count - 1
             /\ Finish(Stay([app EXCEPT !.count = n,
                                       !.index = IF @ < n THEN @ ELSE 0]))
     \/ Fault /\ Broken
  /\ UNCHANGED <<durable, vid, slot, sd, usb, cable, con, fido, guesses, disowned>>
----------------------------------------------------------------------------
(* The main loop.  A pass looks at the card, the connector, the bus, what   *)
(* the bus left behind, and the buttons, in this order.                    *)

NoWork == UNCHANGED <<durable, vid, step, staged, guesses, disowned>>
UsbQuiet == ~fido.fault /\ ~fido.reunlock /\ ~usb.failed /\ ~usb.eject
SdQuiet == ~sd.insertion /\ ~sd.removal /\ ~sd.failure

PollCard ==
  /\ Idle /\ UsbQuiet /\ SdQuiet
  /\ \E ok \in BOOLEAN :
       /\ IF ok \/ ~PollInitializes(sd, slot) THEN UNCHANGED faults ELSE Fault
       /\ sd' = SdPoll(sd, slot, ok) /\ sd' # sd
       /\ slot' = IF PollInitializes(sd, slot) /\ ok THEN "live" ELSE slot
  /\ NoWork /\ UNCHANGED <<app, cmds, next, turns, usb, cable, con, keys, fido>>

\* A card was inserted; only a device that waits for one looks at it.
CardInserted ==
  /\ Idle /\ UsbQuiet /\ sd.insertion
  /\ \E reads \in BOOLEAN :
     LET header == IF reads THEN LoadVaultHeader(otp, jrn, card, jrn.vault)
                   ELSE [result |-> "IO_ERROR", found |-> NoHeader]
         how == Recovered(RootsStatus(otp), IsPresent(sd, slot), header)
         out == CASE how = "READY" ->
                       Handle([app EXCEPT !.attempts = jrn.attempts,
                                          !.method = header.found.entry.method],
                              "BOOT_COMPLETED", NoPick)
                  [] how = "FAILED" -> EnterFault(app)
                  [] OTHER -> Stay(app)
     IN IF app.state # "BOOT_MEDIA_REQUIRED"
        THEN /\ reads /\ sd' = [sd EXCEPT !.insertion = FALSE]
             /\ UNCHANGED <<app, cmds, next, turns, faults, disowned>>
        ELSE /\ IF reads THEN (how = "WAITING" \/ CanTransfer(sd, slot)) /\ UNCHANGED faults
                ELSE IF CanTransfer(sd, slot) THEN Fault ELSE UNCHANGED faults
             /\ sd' = [(IF reads THEN sd ELSE FailedTransfer(sd, slot))
                         EXCEPT !.insertion = FALSE]
             /\ app' = out.app /\ cmds' = out.cmds /\ next' = {} /\ turns' = 0
             /\ disowned' = StillDisowned(out.app)
  /\ UNCHANGED <<durable, vid, step, staged, guesses, slot, usb, cable, con, keys, fido>>

CardLost ==
  /\ Idle /\ UsbQuiet /\ ~sd.insertion /\ (sd.removal \/ sd.failure)
  /\ sd' = IF sd.removal THEN [sd EXCEPT !.removal = FALSE] ELSE [sd EXCEPT !.failure = FALSE]
  /\ Dispatch("STORAGE_FAILED", NoPick)
  /\ NoWork /\ UNCHANGED <<slot, usb, cable, con, keys, fido, faults>>

PollConnector ==
  /\ Idle /\ UsbQuiet /\ SdQuiet /\ ~con.faulted /\ con' = ConnectorPoll(con, cable) /\ con' # con
  /\ IF con'.faulted THEN Dispatch("FATAL_ERROR", NoPick)
     ELSE UNCHANGED <<app, cmds, next, turns>>
  /\ NoWork /\ UNCHANGED <<slot, sd, usb, cable, keys, fido, faults>>

\* The host reads, writes or flushes through the decrypted device, or ejects.
HostStorage ==
  /\ Idle /\ UsbQuiet /\ SdQuiet /\ usb.up /\ ~usb.fido
  /\ \/ BackendReady(usb, BlocksReady) /\ CardOk /\ UNCHANGED usb
     \/ BackendReady(usb, BlocksReady) /\ CardOk /\ usb' = Ejected(usb)
     \/ BackendReady(usb, BlocksReady) /\ CardFails /\ usb' = RequestFailed(usb)
     \/ ~BackendReady(usb, BlocksReady) /\ usb' = RequestRefused(usb) /\ UNCHANGED <<sd, faults>>
  /\ NoWork /\ UNCHANGED <<app, cmds, next, turns, slot, cable, con, keys, fido>>

\* fido_dispatch, a bus event, or an unlock that has grown too old
HostPasskeys ==
  /\ Idle /\ UsbQuiet /\ SdQuiet /\ usb.up /\ usb.fido
  /\ LET k == ConnectorPoll(con, cable)
     IN \/ FidoSafe(k) /\ con' = k /\ fido' = [fido EXCEPT !.reunlock = TRUE]
           /\ UNCHANGED <<usb, sd, faults>>
        \/ FidoSafe(k) /\ CardFails /\ con' = k /\ fido' = [fido EXCEPT !.fault = TRUE]
           /\ UNCHANGED usb
        \/ ~FidoSafe(k) /\ con' = k /\ fido' = [fido EXCEPT !.fault = TRUE]
           /\ UNCHANGED <<usb, sd, faults>>
        \/ usb' = Unmounted(usb) /\ UNCHANGED <<con, fido, sd, faults>>
        \/ usb' = Overflowed(usb) /\ Fault /\ UNCHANGED <<con, fido, sd>>
  /\ NoWork /\ UNCHANGED <<app, cmds, next, turns, slot, cable, keys>>

\* What the bus left behind, in the order the loop asks for it.
TakeUsb ==
  /\ Idle /\ ~UsbQuiet
  /\ CASE fido.fault -> fido' = [fido EXCEPT !.fault = FALSE] /\ UNCHANGED usb
                        /\ Dispatch("STORAGE_FAILED", NoPick)
       [] ~fido.fault /\ fido.reunlock ->
            fido' = [fido EXCEPT !.reunlock = FALSE] /\ UNCHANGED usb
            /\ Dispatch("LOCK_REQUESTED", NoPick)
       [] ~fido.fault /\ ~fido.reunlock /\ usb.failed ->
            usb' = [usb EXCEPT !.failed = FALSE] /\ UNCHANGED fido
            /\ Dispatch("STORAGE_FAILED", NoPick)
       [] OTHER -> usb' = [usb EXCEPT !.eject = FALSE] /\ UNCHANGED fido
                   /\ Dispatch("USB_EJECTED", NoPick)
  /\ NoWork /\ UNCHANGED <<slot, sd, cable, con, keys, faults>>

\* A button.  In a picker only the press that completes the entry or leaves
\* an empty one matters here.
Pickers == {"SETUP_SECRET_ENTRY", "SETUP_SECRET_CONFIRM", "VAULT_SECRET_ENTRY",
            "CHANGE_SECRET", "CHANGE_CONFIRM"}
Picks(b) ==
  IF app.state \notin Pickers THEN {NoPick}
  ELSE {[result |-> "COMPLETE", value |-> v] : v \in IF b = "SELECT" THEN Value ELSE {}}
       \cup {[result |-> "IGNORED", value |-> "none"] : x \in IF b = "BACK" THEN {b} ELSE {}}
Press ==
  /\ Idle /\ UsbQuiet /\ jrn.seq + 3 <= MaxRecords
  /\ \E b \in Buttons(app) : \E p \in Picks(b) : Dispatch(b, p)
  /\ NoWork /\ UNCHANGED <<slot, sd, usb, cable, con, keys, fido, faults>>

\* The display cannot be written any more.
DisplayLost ==
  /\ Idle /\ Fault /\ Dispatch("FATAL_ERROR", NoPick)
  /\ NoWork /\ UNCHANGED <<slot, sd, usb, cable, con, keys, fido>>

\* People and cables.
MoveCard ==
  /\ Fault /\ slot' = IF slot = "none" THEN "raw" ELSE "none"
  /\ UNCHANGED <<ram, durable, cable, guesses, disowned>>
MoveCable ==
  /\ Fault /\ cable' \in Cable \ {cable}
  /\ UNCHANGED <<ram, durable, slot, guesses, disowned>>

Next ==
  \/ Boot \/ Cut \/ Detach \/ EraseTransient \/ EraseKeys \/ Destroy \/ InspectMedia
  \/ PrepareMedia \/ ProvisionStart \/ ProvisionRoots \/ ProvisionVault \/ ProvisionSuper
  \/ ProvisionHeader \/ ProvisionState \/ StoreAttempt \/ Authenticate \/ ChangeStart
  \/ ChangeJournal \/ ChangeStage \/ ChangeVerify \/ AttachMassStorage \/ AttachPasskeys
  \/ ManagePasskeys \/ PollCard \/ CardInserted \/ CardLost \/ PollConnector
  \/ HostStorage \/ HostPasskeys \/ TakeUsb \/ Press \/ DisplayLost \/ MoveCard \/ MoveCable

Spec == Init /\ [][Next]_vars
----------------------------------------------------------------------------
\* Wrong secrets that were evaluated are never more than the device allows
\* between two right ones, however the power fails and the journal refuses:
\* an attempt is on record before fv_authenticate looks at the secret.
GuessBound == guesses <= MaxUnlockAttempts /\ (jrn # NoRecord => guesses <= jrn.attempts)

\* Once the setup is on record its vault can be opened: the header in force
\* is on the card whatever fv_credential_change had written when it stopped.
\* A record whose setup was told to fail counts from the next start that asks
\* for its secret: until then the user may have the card initialised again,
\* and fv_setup_provision refuses a device with a record only after that.
HeaderKept ==
  jrn # NoRecord /\ ~disowned /\ RootsStatus(otp) = "ACTIVE" =>
    LoadVaultHeader(otp, jrn, card, jrn.vault).result = "OK"

\* When the runtime has nothing left to do and the session is not unlocked
\* there are no keys, and the host is not served; an unlocked session has its keys.
NothingServedLocked ==
  Idle => /\ ~app.unlocked => keys = NoKeys /\ ~usb.up /\ ~con.routed
          /\ app.unlocked => keys.vmk /\ keys.enc

\* A card that was initialised for setup takes the first header of the vault:
\* docs say that setup can be retried on reinitialised media.
SetupRetryable ==
  step = "header" => ~Refused
=============================================================================
