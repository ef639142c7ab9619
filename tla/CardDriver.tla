----------------------------- MODULE CardDriver -----------------------------
(***************************************************************************)
(* The SD card driver (sd_native.c) under the worker (commands.c), while   *)
(* the user may take the card out and put another one in at any moment.    *)
(* The worker never polls the driver: a card is identified again by the    *)
(* jobs of the user interface, and a swap shows only when the driver looks *)
(* at the detect pin, which a build may not have, or when a transfer fails.*)
(* A card answers commands only after it was identified in the slot.       *)
(*                                                                         *)
(* The pending events of fv_rp2354_sd_t have no reader in this firmware    *)
(* and fv_rp2354_sd_poll no caller; they are left out.                     *)
(***************************************************************************)
EXTENDS Integers

CONSTANTS Cards,      \* cards the user has
          NoCard,
          Chunks,     \* bound: commands of one transfer
          MaxMoves    \* bound: the card is taken out or put in

ASSUME CardAssumption == Chunks \in Nat \ {0} /\ MaxMoves \in Nat

VARIABLES detect,   \* FUSE_VAULT_SD_CARD_DETECT_POLARITY_CONFIRMED of the build
          slot,     \* the card in the slot, and whether it was identified there
          sd,       \* fv_rp2354_sd_t: initialized, and the card it was for
          used,     \* sd_initialized
          session,  \* the card usb_session was opened on
          step,     \* what the worker does: [at, for, left, back]
          moves

cvars == <<detect, slot, sd, used, session, step, moves>>

At(place) == [at |-> place, for |-> "", left |-> 0, back |-> "idle"]
Transfer(for, back) == [at |-> "transfer", for |-> for, left |-> Chunks, back |-> back]
Uninitialized == [initialized |-> FALSE, of |-> NoCard]

CInit ==
  /\ detect \in BOOLEAN
  /\ slot \in [card : Cards \cup {NoCard}, live : {FALSE}]
  /\ sd = Uninitialized /\ used = FALSE /\ session = NoCard
  /\ step = At("idle") /\ moves = 0
----------------------------------------------------------------------------
(* sd_native.c *)

Detected == detect => slot.card # NoCard
IsPresent == sd.initialized /\ Detected

\* halt and fault: the driver serves nothing until it is initialised again.
Fault == sd' = Uninitialized

\* fv_rp2354_sd_reinitialize, and fv_rp2354_sd_init on the first use, which
\* returns true although the card did not answer.
Identify(ready, refused) ==
  /\ used' = TRUE
  /\ \E ok \in BOOLEAN :
       /\ ok => slot.card # NoCard
       /\ IF ok THEN sd' = [initialized |-> TRUE, of |-> slot.card]
                       /\ slot' = [slot EXCEPT !.live = TRUE]
          ELSE sd' = Uninitialized /\ UNCHANGED slot
       /\ step' = IF ok \/ ~used THEN ready ELSE refused

\* What the end of a transfer means to its caller; a wrong credential opens
\* no session and ends the one it was to confirm.
Succeeded(for) ==
  session' \in CASE for \in {"unlock", "verify"} -> {sd.of, NoCard}
                 [] for = "reverify" -> {session, NoCard}
                 [] OTHER -> {session}
Failed(for) == session' = IF for \in {"storage", "reverify"} THEN NoCard ELSE session

\* One command of read_blocks or write_blocks with its finish.
Chunk ==
  /\ step.at = "transfer"
  /\ \/ /\ IsPresent /\ slot.live /\ step.left > 1
        /\ step' = [step EXCEPT !.left = @ - 1] /\ UNCHANGED <<sd, session>>
     \/ /\ IsPresent /\ slot.live /\ step.left = 1
        /\ Succeeded(step.for) /\ step' = At(step.back) /\ UNCHANGED sd
     \/ /\ Fault /\ Failed(step.for)
        /\ step' = At(IF step.for = "profile" THEN "idle" ELSE step.back)
  /\ UNCHANGED <<detect, slot, used, moves>>
----------------------------------------------------------------------------
(* commands.c *)

\* fv_device_ui_execute: the session ends before a job that needs the card
\* identifies it again; a job that is refused is one that asks for the status.
Job(op) ==
  /\ step.at = "idle"
  /\ CASE op \in {"unlock", "change"} ->
            /\ op = "unlock" => session = NoCard
            /\ session' = NoCard /\ step' = [At("identify") EXCEPT !.for = op]
       [] op = "status" -> step' = At("result") /\ UNCHANGED session
       [] OTHER -> /\ session # NoCard /\ UNCHANGED session
                   /\ step' = Transfer("passkeys", "result")
  /\ UNCHANGED <<detect, slot, sd, used, moves>>

JobIdentifies ==
  /\ step.at = "identify" /\ Identify(Transfer(step.for, "result"), At("result"))
  /\ UNCHANGED <<detect, session, moves>>

\* Mutant: the result is taken from the card in an open session too.
ResultFromCard ==
  /\ step.at = "result"
  /\ IF used /\ IsPresent THEN step' = Transfer("header", "idle") /\ UNCHANGED <<slot, sd, used>>
     ELSE Identify(Transfer("header", "idle"), At("idle"))
  /\ UNCHANGED <<detect, session, moves>>

\* fv_device_ui_execute: the credential profile that the result tells.
Result ==
  /\ step.at = "result"
  /\ IF session # NoCard THEN step' = At("idle") /\ UNCHANGED <<slot, sd, used>>
     ELSE IF used /\ IsPresent THEN step' = Transfer("header", "idle") /\ UNCHANGED <<slot, sd, used>>
     ELSE Identify(Transfer("header", "idle"), At("idle"))
  /\ UNCHANGED <<detect, session, moves>>

\* usb_lock: the user, the time-out, a bus event
Locks ==
  /\ step.at \in {"idle", "prompt"} /\ session # NoCard /\ session' = NoCard
  /\ UNCHANGED <<detect, slot, sd, used, step, moves>>

\* fv_usb_storage_execute and io of vault.c, also from fv_fido_pump while a
\* prompt is open.
Storage ==
  /\ step.at \in {"idle", "prompt"} /\ session # NoCard
  /\ IF IsPresent THEN step' = Transfer("storage", step.at) /\ UNCHANGED session
     ELSE session' = NoCard /\ UNCHANGED step
  /\ UNCHANGED <<detect, slot, sd, used, moves>>

\* fv_fido_execute up to a prompt: fv_fido_profile, and the engine's store
FidoRequest ==
  /\ step.at = "idle"
  /\ IF used /\ ~IsPresent THEN session' = NoCard /\ UNCHANGED <<slot, sd, used, step>>
     ELSE /\ UNCHANGED session
          /\ IF session # NoCard
             THEN /\ step' \in {Transfer("passkeys", "ask"), Transfer("passkeys", "idle")}
                  /\ UNCHANGED <<slot, sd, used>>
             ELSE IF used THEN step' = Transfer("profile", "ask") /\ UNCHANGED <<slot, sd, used>>
             ELSE Identify(Transfer("profile", "ask"), At("idle"))
  /\ UNCHANGED <<detect, moves>>

\* verify of fido_adapter.c: fv_fido_profile once more, then the prompt
FidoAsks ==
  /\ step.at = "ask"
  /\ IF ~IsPresent THEN session' = NoCard /\ step' = At("idle")
     ELSE /\ step' = IF session = NoCard THEN Transfer("profile", "prompt") ELSE At("prompt")
          /\ UNCHANGED session
  /\ UNCHANGED <<detect, slot, sd, used, moves>>

\* verify and fv_fido_verify_secret: the prompt is answered or given up.
FidoVerify ==
  /\ step.at = "prompt"
  /\ step' \in {At("idle"), Transfer(IF session = NoCard THEN "verify" ELSE "reverify", "idle")}
  /\ UNCHANGED <<detect, slot, sd, used, session, moves>>

\* The user takes the card out, or puts one in.
SwapCard ==
  /\ moves < MaxMoves /\ moves' = moves + 1
  /\ \E c \in IF slot.card = NoCard THEN Cards ELSE {NoCard} :
       slot' = [card |-> c, live |-> FALSE]
  /\ UNCHANGED <<detect, sd, used, session, step>>

CNext ==
  \/ Chunk \/ JobIdentifies \/ Result \/ Locks \/ Storage \/ FidoRequest \/ FidoAsks
  \/ FidoVerify \/ SwapCard
  \/ \E op \in {"unlock", "change", "status", "passkeys"} : Job(op)
CSpec == CInit /\ [][CNext]_cvars

\* No transfer of an open session reaches another card than the one it was
\* opened on, although the worker does not notice a swap and the jobs of the
\* user interface identify whatever card is in the slot.
SessionKeepsCard == session # NoCard /\ sd.initialized => sd.of = session
=============================================================================
