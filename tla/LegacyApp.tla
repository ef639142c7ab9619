------------------------------ MODULE LegacyApp ------------------------------
(***************************************************************************)
(* The application of the first-generation firmware (app.c, settings.c): a *)
(* state machine that turns an event into a new state and a set of         *)
(* commands for the runtime.  Handle(a, e, p) is fv_app_handle; p is what  *)
(* the secret picker makes of the event, [result, value], and matters only *)
(* in the states where a secret is being entered.                          *)
(*                                                                         *)
(* Left out: the cipher preset and the scroll offsets, which change no     *)
(* state, and fido_waiting, which is only set while no event is handled.   *)
(***************************************************************************)
EXTENDS Integers, FiniteSets

CONSTANTS MaxUnlockAttempts,   \* FV_MAX_UNLOCK_ATTEMPTS
          Methods              \* FV_ENTRY_METHOD_COUNT

ASSUME AttemptsAssumption == MaxUnlockAttempts \in Nat

NoEntry == [method |-> 0, value |-> "none"]

Result(a, cmds) == [app |-> a, cmds |-> cmds]
Stay(a) == Result(a, {})
Go(a, s) == [a EXCEPT !.state = s]

\* Mutant: locking leaves the session keys where they are.
WipeKeepingKeys == {"DETACH", "ERASE_TRANSIENT"}

Wipe == {"DETACH", "ERASE_TRANSIENT", "ERASE_KEYS"}

SettingsClear(a) == [a EXCEPT !.change = NoEntry, !.changeMethod = a.method]

EnterFault(a) ==
  Result([SettingsClear(a) EXCEPT !.unlocked = FALSE, !.secret = NoEntry,
                                  !.setup = NoEntry, !.state = "FAULT"], Wipe)

MediaLostDuringSetup(a) ==
  Result([SettingsClear(a) EXCEPT !.secret = NoEntry, !.setup = NoEntry,
                                  !.state = "SETUP_MEDIA_ERROR"], Wipe)

BeginSecret(a, s) == [a EXCEPT !.secret = NoEntry, !.state = s]

LeaveSensitiveMode(a) ==
  Result([BeginSecret(SettingsClear(a), "VAULT_SECRET_ENTRY")
            EXCEPT !.unlocked = FALSE, !.mode = "VAULT"], Wipe)

CompleteBoot(a) ==
  IF a.provisioned /\ a.attempts >= MaxUnlockAttempts
  THEN Result(Go(a, "DESTROYED"), Wipe \cup {"DESTROY"})
  ELSE Stay(IF a.provisioned THEN BeginSecret(a, "VAULT_SECRET_ENTRY")
                             ELSE Go(a, "SETUP_REQUIRED"))

\* fv_app_init; the stored counter is clamped
AppInit(provisioned, attempts, method) ==
  [state |-> "BOOTING", mode |-> "VAULT", method |-> method,
   attempts |-> IF attempts > MaxUnlockAttempts THEN MaxUnlockAttempts ELSE attempts,
   provisioned |-> provisioned, unlocked |-> FALSE,
   secret |-> NoEntry, setup |-> NoEntry, change |-> NoEntry, changeMethod |-> 0,
   setting |-> "PASSWORD", index |-> 0, count |-> 0]

Turn(n, e, size) == (n + (IF e = "UP" THEN size - 1 ELSE 1)) % size

\* The states between the start of setup and the writing of the vault.
SetupStates ==
  {"SETUP_REQUIRED", "SETUP_MEDIA_CHECKING", "SETUP_MEDIA_CONFIRM",
   "SETUP_MEDIA_INITIALIZING", "SETUP_MEDIA_ERROR", "SETUP_METHOD_SELECT",
   "SETUP_SECRET_ENTRY", "SETUP_SECRET_CONFIRM", "SETUP_SECRET_MISMATCH",
   "SETUP_STACK_SELECT", "SETUP_POLICY_CONFIRM"}

\* The media, before anything is asked of the user.
SetupMedia(a, e) ==
  CASE a.state \in {"SETUP_REQUIRED", "SETUP_MEDIA_ERROR"} /\ e = "SELECT" ->
         Result(Go(a, "SETUP_MEDIA_CHECKING"), {"INSPECT"})
    [] a.state = "SETUP_MEDIA_CHECKING" /\ e = "MEDIA_FOUND" -> Stay(Go(a, "SETUP_MEDIA_CONFIRM"))
    [] a.state = "SETUP_MEDIA_CONFIRM" /\ e = "SELECT" ->
         Result(Go(a, "SETUP_MEDIA_INITIALIZING"), {"PREPARE"})
    [] a.state = "SETUP_MEDIA_INITIALIZING" /\ e = "MEDIA_PREPARED" ->
         Stay(Go(a, "SETUP_METHOD_SELECT"))
    [] a.state \in {"SETUP_MEDIA_CHECKING", "SETUP_MEDIA_INITIALIZING"} /\ e = "MEDIA_FAILED" ->
         Stay(Go(a, "SETUP_MEDIA_ERROR"))
    [] a.state \in {"SETUP_MEDIA_CONFIRM", "SETUP_MEDIA_ERROR"} /\ e = "BACK" ->
         Stay(Go(a, "SETUP_REQUIRED"))
    [] OTHER -> Stay(a)

\* Choosing a method, entering the secret twice, and the two confirmations.
SetupSecret(a, e, p) ==
  CASE a.state = "SETUP_METHOD_SELECT" /\ e \in {"UP", "DOWN"} ->
         Stay([a EXCEPT !.method = Turn(@, e, Methods)])
    [] a.state = "SETUP_METHOD_SELECT" /\ e = "SELECT" ->
         Stay(BeginSecret(a, "SETUP_SECRET_ENTRY"))
    [] a.state = "SETUP_METHOD_SELECT" /\ e = "BACK" -> Stay(Go(a, "SETUP_REQUIRED"))
    [] a.state = "SETUP_SECRET_ENTRY" /\ p.result = "COMPLETE" ->
         Stay([BeginSecret(a, "SETUP_SECRET_CONFIRM")
                 EXCEPT !.setup = [method |-> a.method, value |-> p.value]])
    [] a.state = "SETUP_SECRET_ENTRY" /\ e = "BACK" /\ p.result = "IGNORED" ->
         Stay(BeginSecret(a, "SETUP_METHOD_SELECT"))
    [] a.state = "SETUP_SECRET_CONFIRM" /\ p.result = "COMPLETE" ->
         IF a.setup = [method |-> a.method, value |-> p.value]
         THEN Stay([Go(a, "SETUP_STACK_SELECT") EXCEPT !.secret = NoEntry])
         ELSE Stay([Go(a, "SETUP_SECRET_MISMATCH")
                      EXCEPT !.secret = NoEntry, !.setup = NoEntry])
    [] a.state = "SETUP_SECRET_CONFIRM" /\ e = "BACK" /\ p.result = "IGNORED" ->
         Stay([BeginSecret(a, "SETUP_SECRET_ENTRY") EXCEPT !.setup = NoEntry])
    [] a.state = "SETUP_SECRET_MISMATCH" /\ e \in {"SELECT", "BACK"} ->
         Stay(BeginSecret(a, "SETUP_SECRET_ENTRY"))
    [] a.state = "SETUP_STACK_SELECT" /\ e = "SELECT" -> Stay(Go(a, "SETUP_POLICY_CONFIRM"))
    [] a.state = "SETUP_POLICY_CONFIRM" /\ e = "SELECT" ->
         Result(Go(a, "PROVISIONING"), {"PROVISION"})
    [] a.state \in {"SETUP_STACK_SELECT", "SETUP_POLICY_CONFIRM"} /\ e = "BACK" ->
         Stay([BeginSecret(a, "SETUP_SECRET_ENTRY") EXCEPT !.setup = NoEntry])
    [] OTHER -> Stay(a)

Provisioning(a, e) ==
  CASE e = "PROVISIONING_SUCCEEDED" ->
         Result([BeginSecret(a, "VAULT_SECRET_ENTRY")
                   EXCEPT !.setup = NoEntry, !.provisioned = TRUE, !.attempts = 0],
                {"ERASE_TRANSIENT", "ERASE_KEYS"})
    [] e = "PROVISIONING_FAILED" ->
         Result([Go(a, "SETUP_REQUIRED") EXCEPT !.setup = NoEntry],
                {"ERASE_TRANSIENT", "ERASE_KEYS"})
    [] OTHER -> Stay(a)

\* Mutant: the secret is looked at before the attempt is on record.
UnlockUncharged(a, e, p) ==
  CASE a.state = "VAULT_SECRET_ENTRY" /\ p.result = "COMPLETE"
       /\ a.attempts < MaxUnlockAttempts ->
         Result([Go(a, "VAULT_AUTHENTICATING")
                   EXCEPT !.attempts = @ + 1,
                          !.secret = [method |-> a.method, value |-> p.value]],
                {"AUTHENTICATE"})
    [] a.state = "VAULT_AUTHENTICATING" /\ e = "AUTH_FAILED" ->
         Result(BeginSecret(a, "VAULT_SECRET_ENTRY"), {"ERASE_TRANSIENT", "ERASE_KEYS"})
    [] OTHER -> Stay(a)

\* The attempt is charged, stored, evaluated, and the counter cleared, stored.
Unlock(a, e, p) ==
  CASE a.state = "VAULT_SECRET_ENTRY" /\ p.result = "COMPLETE" ->
         IF a.attempts >= MaxUnlockAttempts
         THEN Result([Go(a, "DESTROYED") EXCEPT !.secret = NoEntry], Wipe \cup {"DESTROY"})
         ELSE Result([Go(a, "VAULT_RESERVING_ATTEMPT")
                        EXCEPT !.attempts = @ + 1,
                               !.secret = [method |-> a.method, value |-> p.value]],
                     {"STORE_ATTEMPT"})
    [] a.state = "VAULT_SECRET_ENTRY" /\ e = "BACK" /\ p.result = "IGNORED" ->
         LeaveSensitiveMode(a)
    [] a.state = "VAULT_RESERVING_ATTEMPT" /\ e = "ATTEMPT_COUNTER_STORED" ->
         Result(Go(a, "VAULT_AUTHENTICATING"), {"AUTHENTICATE"})
    [] a.state = "VAULT_AUTHENTICATING" /\ e = "AUTH_SUCCEEDED" ->
         Result([Go(a, "VAULT_RECORDING_SUCCESS") EXCEPT !.secret = NoEntry, !.attempts = 0],
                {"ERASE_TRANSIENT", "STORE_ATTEMPT"})
    [] a.state = "VAULT_AUTHENTICATING" /\ e = "AUTH_FAILED" ->
         IF a.attempts >= MaxUnlockAttempts
         THEN Result(BeginSecret(a, "DESTROYED"), Wipe \cup {"DESTROY"})
         ELSE Result(BeginSecret(a, "VAULT_SECRET_ENTRY"), {"ERASE_TRANSIENT", "ERASE_KEYS"})
    [] a.state = "VAULT_RECORDING_SUCCESS" /\ e = "ATTEMPT_COUNTER_STORED" ->
         Stay([Go(a, "MODE_SELECT") EXCEPT !.unlocked = TRUE, !.mode = "VAULT"])
    [] OTHER -> Stay(a)

ModeSelect(a, e) ==
  LET modes == <<"VAULT", "FIDO", "SETTINGS">>
      at == (CHOOSE i \in 1..3 : modes[i] = a.mode) - 1
  IN CASE e \in {"UP", "DOWN"} -> Stay([a EXCEPT !.mode = modes[Turn(at, e, 3) + 1]])
       [] e = "SELECT" /\ ~a.unlocked -> Stay(BeginSecret(a, "VAULT_SECRET_ENTRY"))
       [] e = "SELECT" /\ a.unlocked /\ a.mode = "SETTINGS" ->
            Stay([Go(SettingsClear(a), "SETTINGS") EXCEPT !.setting = "PASSWORD"])
       [] e = "SELECT" /\ a.unlocked /\ a.mode = "VAULT" ->
            Result(Go(a, "VAULT_UNLOCKED"), {"ATTACH_MSC"})
       [] e = "SELECT" /\ a.unlocked /\ a.mode = "FIDO" ->
            Result(Go(a, "FIDO_READY"), {"ATTACH_FIDO"})
       [] e \in {"BACK", "LOCK_REQUESTED"} -> LeaveSensitiveMode(a)
       [] OTHER -> Stay(a)

Passkeys(a, e) ==
  CASE a.state = "FIDO_READY" /\ e = "SELECT" /\ a.unlocked ->
         Result([Go(a, "PASSKEY_LIST") EXCEPT !.index = 0], {"PASSKEY_BEGIN"})
    [] a.state = "FIDO_READY" /\ e \in {"BACK", "LOCK_REQUESTED", "USB_EJECTED"} ->
         LeaveSensitiveMode(a)
    [] a.state \in {"PASSKEY_LIST", "PASSKEY_DELETE_CONFIRM"}
       /\ e \in {"LOCK_REQUESTED", "USB_EJECTED"} -> LeaveSensitiveMode(a)
    [] a.state = "PASSKEY_DELETE_CONFIRM" /\ e = "BACK" -> Stay(Go(a, "PASSKEY_LIST"))
    [] a.state = "PASSKEY_DELETE_CONFIRM" /\ e = "RIGHT" /\ a.count > 0 ->
         Result(Go(a, "PASSKEY_LIST"), {"PASSKEY_DELETE"})
    [] a.state = "PASSKEY_LIST" /\ e = "BACK" -> Result(Go(a, "FIDO_READY"), {"PASSKEY_END"})
    [] a.state = "PASSKEY_LIST" /\ e = "SELECT" /\ a.count > 0 ->
         Stay(Go(a, "PASSKEY_DELETE_CONFIRM"))
    [] a.state = "PASSKEY_LIST" /\ e \in {"UP", "DOWN"} /\ a.count > 0 ->
         Result([a EXCEPT !.index = Turn(@, e, a.count)], {"PASSKEY_READ"})
    [] OTHER -> Stay(a)

SettingsStates ==
  {"SETTINGS", "CHANGE_METHOD", "CHANGE_SECRET", "CHANGE_CONFIRM", "CHANGE_MISMATCH",
   "CHANGE_REVIEW", "CHANGE_SAVING", "CHANGE_SAVED"}

BeginEntry(a) == [BeginSecret(a, "CHANGE_SECRET") EXCEPT !.change = NoEntry]
Cancel(a) == [Go(SettingsClear(a), "SETTINGS") EXCEPT !.secret = NoEntry]

\* fv_settings_handle
SettingsHandle(a, e, p) ==
  CASE a.state = "SETTINGS" /\ e \in {"UP", "DOWN"} ->
         Stay([a EXCEPT !.setting = IF @ = "PASSWORD" THEN "METHOD" ELSE "PASSWORD"])
    [] a.state = "SETTINGS" /\ e = "SELECT" ->
         Stay(IF a.setting = "PASSWORD" THEN BeginEntry(SettingsClear(a))
                                        ELSE Go(SettingsClear(a), "CHANGE_METHOD"))
    [] a.state = "CHANGE_METHOD" /\ e \in {"UP", "DOWN"} ->
         Stay([a EXCEPT !.changeMethod = Turn(@, e, Methods)])
    [] a.state \in {"CHANGE_METHOD", "CHANGE_MISMATCH"} /\ e = "SELECT" -> Stay(BeginEntry(a))
    [] a.state \in {"CHANGE_METHOD", "CHANGE_MISMATCH", "CHANGE_REVIEW"} /\ e = "BACK" ->
         Stay(Cancel(a))
    [] a.state = "CHANGE_SECRET" /\ p.result = "COMPLETE" ->
         Stay([BeginSecret(a, "CHANGE_CONFIRM")
                 EXCEPT !.change = [method |-> a.changeMethod, value |-> p.value]])
    [] a.state = "CHANGE_CONFIRM" /\ p.result = "COMPLETE" ->
         IF a.change = [method |-> a.changeMethod, value |-> p.value]
         THEN Stay([Go(a, "CHANGE_REVIEW") EXCEPT !.secret = NoEntry])
         ELSE Stay([Go(a, "CHANGE_MISMATCH") EXCEPT !.secret = NoEntry, !.change = NoEntry])
    [] a.state \in {"CHANGE_SECRET", "CHANGE_CONFIRM"} /\ e = "BACK" /\ p.result = "IGNORED" ->
         Stay(Cancel(a))
    [] a.state = "CHANGE_REVIEW" /\ e = "SELECT" -> Result(Go(a, "CHANGE_SAVING"), {"CHANGE"})
    [] a.state = "CHANGE_SAVING" /\ e = "CREDENTIAL_CHANGED" ->
         Result([Go(Cancel([a EXCEPT !.method = a.changeMethod]), "CHANGE_SAVED")
                   EXCEPT !.unlocked = FALSE, !.mode = "VAULT"], Wipe)
    [] OTHER -> Stay(a)

\* In the settings screens the application decides first.
Settings(a, e, p) ==
  CASE \/ e \in {"LOCK_REQUESTED", "USB_EJECTED"}
       \/ a.state = "SETTINGS" /\ e = "BACK"
       \/ a.state = "CHANGE_SAVED" /\ e \in {"SELECT", "BACK"} -> LeaveSensitiveMode(a)
    [] ~a.unlocked /\ a.state # "CHANGE_SAVED"
       /\ e \notin {"LOCK_REQUESTED", "USB_EJECTED"}
       /\ ~(a.state = "SETTINGS" /\ e = "BACK") -> EnterFault(a)
    [] OTHER -> SettingsHandle(a, e, p)

\* fv_app_handle
Handle(a, e, p) ==
  CASE e = "FATAL_ERROR" -> EnterFault(a)
    [] e = "STORAGE_FAILED" ->
         IF ~a.provisioned /\ a.state \in SetupStates THEN MediaLostDuringSetup(a)
                                                       ELSE EnterFault(a)
    [] e \notin {"FATAL_ERROR", "STORAGE_FAILED"} ->
         CASE a.state \in SettingsStates -> Settings(a, e, p)
           [] a.state = "BOOTING" /\ e = "BOOT_MEDIA_REQUIRED" /\ a.provisioned ->
                Stay(Go(a, "BOOT_MEDIA_REQUIRED"))
           [] a.state \in {"BOOTING", "BOOT_MEDIA_REQUIRED"} /\ e = "BOOT_COMPLETED" ->
                CompleteBoot(a)
           [] a.state \in {"SETUP_REQUIRED", "SETUP_MEDIA_CHECKING", "SETUP_MEDIA_CONFIRM",
                           "SETUP_MEDIA_INITIALIZING", "SETUP_MEDIA_ERROR"} -> SetupMedia(a, e)
           [] a.state = "PROVISIONING" -> Provisioning(a, e)
           [] a.state = "MODE_SELECT" -> ModeSelect(a, e)
           [] a.state = "VAULT_UNLOCKED" /\ e \in {"LOCK_REQUESTED", "USB_EJECTED", "BACK"} ->
                LeaveSensitiveMode(a)
           [] a.state \in {"FIDO_READY", "PASSKEY_LIST", "PASSKEY_DELETE_CONFIRM"} ->
                Passkeys(a, e)
           [] a.state \in {"VAULT_SECRET_ENTRY", "VAULT_RESERVING_ATTEMPT",
                           "VAULT_AUTHENTICATING", "VAULT_RECORDING_SUCCESS"} -> Unlock(a, e, p)
           [] a.state \in {"SETUP_METHOD_SELECT", "SETUP_SECRET_ENTRY", "SETUP_SECRET_CONFIRM",
                           "SETUP_SECRET_MISMATCH", "SETUP_STACK_SELECT",
                           "SETUP_POLICY_CONFIRM"} -> SetupSecret(a, e, p)
           [] OTHER -> Stay(a)

\* fv_input_map_for_app: the buttons each screen listens to.
Buttons(a) ==
  CASE a.state = "SETUP_REQUIRED" -> {"SELECT"}
    [] a.state \in {"SETUP_MEDIA_CONFIRM", "SETUP_MEDIA_ERROR", "CHANGE_MISMATCH",
                    "CHANGE_REVIEW", "CHANGE_SAVED", "SETUP_SECRET_MISMATCH",
                    "SETUP_POLICY_CONFIRM", "FIDO_READY"} -> {"SELECT", "BACK"}
    [] a.state \in {"SETTINGS", "CHANGE_METHOD", "SETUP_METHOD_SELECT",
                    "SETUP_STACK_SELECT", "MODE_SELECT"} -> {"UP", "DOWN", "SELECT", "BACK"}
    [] a.state \in {"CHANGE_SECRET", "CHANGE_CONFIRM", "SETUP_SECRET_ENTRY",
                    "SETUP_SECRET_CONFIRM", "VAULT_SECRET_ENTRY", "PASSKEY_LIST"} ->
         {"UP", "DOWN", "LEFT", "RIGHT", "SELECT", "BACK"}
    [] a.state = "PASSKEY_DELETE_CONFIRM" -> {"RIGHT", "BACK"}
    [] a.state = "VAULT_UNLOCKED" -> {"BACK"}
    [] OTHER -> {}
=============================================================================
