------------------------------ MODULE DeviceUi ------------------------------
(***************************************************************************)
(* The user interface on core 0: the screens and their keys (shared/ui),   *)
(* the debounced buttons, and the adapter that hands jobs to the worker    *)
(* and shows FIDO prompts (device_ui_adapter.c, fv_fido_ui_poll).          *)
(*                                                                         *)
(* What only decides what is drawn (error texts, text pages, transfer      *)
(* history, progress, the dashboard's form) is left out, and so is turning *)
(* the display, which only permutes the arrows the user may press anyway.  *)
(* fv_device_ui_poll does several things in a row; each is an action here, *)
(* since each looks at its own input.  One button is pressed at a time,    *)
(* and which one it was is chosen when the key is delivered.  Fields of    *)
(* the job that are written again before they are read are reset.          *)
(***************************************************************************)
EXTENDS Integers, Sequences

CONSTANTS Entries,       \* wheels of a code, and words of a passphrase (4)
          Codes,         \* values of a wheel (100)
          WordSteps,     \* choices that select a word (3)
          MinLength,     \* shortest new pattern (8)
          MaxLength,     \* longest pattern (64)
          Algorithms,    \* number of ciphers (5)
          MaxStack,      \* longest cipher stack (4)
          MaxAttempts,   \* largest attempt limit (100)
          DefaultAttempts, \* the limit proposed (10)
          Durations,     \* choices of a timeout (7)
          EntryKeys,     \* keys the user presses while entering a credential
          MaxPrompts,    \* bound on the prompts of one FIDO request
          Disks          \* vaults the device may start with

ASSUME UiSizes == {Entries, Codes, WordSteps, MinLength, Algorithms, MaxStack, MaxAttempts, Durations} \subseteq Nat \ {0}
ASSUME UiLimits == /\ MaxLength \in Nat /\ MinLength <= MaxLength /\ Entries <= MaxLength /\ MaxPrompts \in Nat
                   /\ DefaultAttempts \in 1 .. MaxAttempts

VARIABLES
    u,            \* fv_ui
    disk,         \* the vault: its status, credential profile and policy
    access,       \* access mode of the open session
    serving,      \* the job at the worker
    maintenance, refresh, \* flags of the adapter
    fido,         \* the FIDO request and its prompt mailbox
    btn           \* the buttons and fv_button_input

uvars == <<u, disk, access, serving, maintenance, refresh, fido, btn>>

Keys == {"UP", "DOWN", "LEFT", "RIGHT", "SELECT", "BACK"}
Arrows == {"UP", "DOWN", "LEFT", "RIGHT"}
ASSUME UiKeys == EntryKeys \subseteq Keys

Fido(m) == m \in {"full", "passkeys"}
Admin(m) == m = "full"

\* What the worker reports (fv_ui_result).
NoPasskey == [count |-> 0, id |-> 0]
Passkeys == {NoPasskey} \cup {[count |-> 2, id |-> i] : i \in {1, 2}}
Policy(action, attempts, lock, sleep) == [action |-> action, attempts |-> attempts, lock |-> lock, sleep |-> sleep]
Device(d, m, pk) == [status |-> d.status, profile |-> d.profile, policy |-> d.policy, mode |-> m, pk |-> pk]
Unlocked(d) == d.mode # "locked"
NoDisk == [status |-> "empty", profile |-> 0, policy |-> Policy("none", 0, 0, 0)]

\* A vault that can be opened has a credential profile.
Statuses == {"empty", "active", "denied"}
Policies == [action : {"none", "lockout", "destroy"}, attempts : Nat, lock : 0 .. Durations - 1, sleep : 0 .. Durations - 1]
ASSUME UiDisks == \A d \in Disks : /\ d \in [status : Statuses, profile : 0 .. 4, policy : Policies]
                                   /\ d.status = "active" => d.profile # 0

-----------------------------------------------------------------------------
(* credential_entry.c *)

EntryBegin(profile) ==
    [profile |-> profile, values |-> IF profile = 3 THEN [i \in 1 .. Entries |-> 0] ELSE <<>>,
     selected |-> 1, depth |-> 0, prefix |-> 0]

\* fv_entry_key on four wheels.
WheelKey(e, k) ==
    CASE k = "UP"    -> [e EXCEPT !.values[e.selected] = (@ + 1) % Codes]
      [] k = "DOWN"  -> [e EXCEPT !.values[e.selected] = (@ + Codes - 1) % Codes]
      [] k = "LEFT"  -> [e EXCEPT !.selected = ((@ + Entries - 2) % Entries) + 1]
      [] k = "RIGHT" -> [e EXCEPT !.selected = (@ % Entries) + 1]
      [] OTHER -> e

\* fv_entry_key on words: each is chosen in steps of four ways, which reach
\* WordCount words; a complete list is edited by choosing the word to go back to.
WordCount[n \in 0 .. WordSteps] == IF n = 0 THEN 1 ELSE 4 * WordCount[n - 1]
Choice(k) == CASE k = "UP" -> 0 [] k = "RIGHT" -> 1 [] k = "DOWN" -> 2 [] OTHER -> 3
WordKey(e, k) ==
    LET complete == Len(e.values) = Entries
        value == e.prefix * 4 + Choice(k)
    IN CASE k = "BACK" /\ e.depth > 0 -> [e EXCEPT !.depth = @ - 1, !.prefix = @ \div 4]
         [] k = "BACK" /\ e.depth = 0 /\ e.values # <<>> ->
                [e EXCEPT !.values = SubSeq(@, 1, Len(@) - 1)]
         [] k \in Arrows /\ complete ->
                [e EXCEPT !.values = SubSeq(@, 1, IF Choice(k) < Entries THEN Choice(k) ELSE Entries)]
         [] k \in Arrows /\ ~complete /\ e.depth < WordSteps - 1 -> [e EXCEPT !.prefix = value, !.depth = @ + 1]
         [] k \in Arrows /\ ~complete /\ e.depth = WordSteps - 1 ->
                [e EXCEPT !.values = Append(@, value), !.depth = 0, !.prefix = 0]
         [] OTHER -> e

\* fv_entry_key and its results: a wiped entry ignores every key.
EntryKey(e, k) == CASE e.profile = 3 -> WheelKey(e, k) [] e.profile = 4 -> WordKey(e, k) [] OTHER -> e
EntryDone(e, k) == k = "SELECT" /\ (e.profile = 3 \/ (e.profile = 4 /\ Len(e.values) = Entries))
EntryLeft(e, k) == k = "BACK" /\ (e.profile = 3 \/ (e.profile = 4 /\ e.depth = 0 /\ e.values = <<>>))

-----------------------------------------------------------------------------
(* device_ui.c and scene.c *)

NoEntry == EntryBegin(0)
NoJob == [op |-> "status", mode |-> "locked", profile |-> 0, secret |-> <<>>, current |-> <<>>,
          stack |-> <<>>, policy |-> Policy("none", 0, 0, 0), id |-> 0]

Idle == [NoJob EXCEPT !.op = "idle"]

\* ui_scene_show, with what each scene does when it is entered.
Show(w, screen) ==
    [w EXCEPT !.screen = screen, !.cursor = 0,
              !.bump = @ \/ screen \in {"secret", "confirm", "passkeys", "delete"},
              !.entry = IF screen \in {"secret", "confirm"} THEN EntryBegin(w.job.profile) ELSE @]

\* ui_clear_input.
ClearInput(w) ==
    [w EXCEPT !.flow = "setup", !.job = [NoJob EXCEPT !.op = w.job.op],
              !.confirmation = <<>>, !.entry = NoEntry]

Submit(w, op) == Show([w EXCEPT !.job.op = op, !.pending = TRUE], "wait")

GoHome(w) == Show(ClearInput(w), IF Unlocked(w.dev) THEN "dashboard" ELSE "home")

\* fv_ui_cancel: a job the worker has is left to finish.
Cancelled(w) ==
    LET v == ClearInput([w EXCEPT !.cursor = 0])
    IN IF v.screen # "wait" \/ v.pending THEN Submit(v, "status") ELSE v

Named(w, d) == d.pk.id

\* fv_ui_complete: the passkey shown is the one the next job will name.
Completed(w, ok, d) ==
    LET v == [ClearInput(w) EXCEPT !.pending = FALSE, !.dev = d, !.job = NoJob]
    IN IF ~ok THEN Show(v, "error")
       ELSE IF w.job.op \in {"list", "delete"} THEN Show([v EXCEPT !.job.id = Named(w, d)], "passkeys")
       ELSE Show(v, IF Unlocked(d) THEN "dashboard" ELSE "home")

\* A mutant of Announced: the buttons need not be released for a prompt.
AnnouncedSilently(w) == w

Announced(w) == [w EXCEPT !.bump = TRUE]

\* fv_ui_fido_begin, fv_ui_fido_end.
FidoBegin(w, secret, profile) ==
    Show([Announced(ClearInput(w)) EXCEPT !.pending = FALSE, !.modal = TRUE, !.done = FALSE, !.approved = FALSE,
                !.job.profile = profile, !.job.mode = IF Unlocked(w.dev) THEN w.dev.mode ELSE "passkeys"],
         IF secret THEN "secret" ELSE "approve")

\* A mutant of FidoEnd: the screen waits for a status nobody asked for.
FidoEndIdle(w) ==
    Show([ClearInput(w) EXCEPT !.bump = TRUE, !.modal = FALSE, !.done = FALSE, !.approved = FALSE], "wait")

FidoEnd(w) ==
    Submit([ClearInput(w) EXCEPT !.bump = TRUE, !.modal = FALSE, !.done = FALSE, !.approved = FALSE], "status")

-----------------------------------------------------------------------------
(* widgets/menu.c and the scenes *)

\* ui_selection_move.
Moved(cursor, n, k) ==
    LET c == IF cursor >= n THEN 0 ELSE cursor
    IN CASE n = 0 -> cursor
         [] n > 0 /\ k = "UP" -> (c + n - 1) % n
         [] n > 0 /\ k = "DOWN" -> (c + 1) % n
         [] OTHER -> c

\* ui_confirmation_key: the first of two choices is to cancel.
Confirmation(w, k, confirmed, cancelled) ==
    CASE k = "BACK" \/ (k = "SELECT" /\ w.cursor = 0) -> cancelled
      [] k = "SELECT" /\ w.cursor # 0 -> confirmed
      [] OTHER -> [w EXCEPT !.cursor = Moved(@, 2, k)]

\* home.c
BeginFlow(w, mode) ==
    LET active == w.dev.status = "active"
        profile == IF w.dev.profile = 0 THEN 2 ELSE w.dev.profile
        v == [w EXCEPT !.flow = IF active THEN "unlock" ELSE "setup",
                       !.job = [NoJob EXCEPT !.stack = <<1>>, !.profile = profile,
                                             !.policy = Policy("destroy", DefaultAttempts, Durations \div 2, 0),
                                             !.mode = IF active THEN mode ELSE "locked"]]
    IN Show(v, IF ~active THEN "method" ELSE IF profile = 1 THEN "error" ELSE "secret")

HomeKey(w, k) ==
    CASE k \in {"LEFT", "RIGHT"} -> w
      [] k = "BACK" -> IF Unlocked(w.dev) THEN Show(w, "dashboard") ELSE GoHome(w)
      [] OTHER ->
            IF Unlocked(w.dev)
            THEN LET v == [w EXCEPT !.cursor = Moved(@, 2, k)]
                 IN IF k # "SELECT" THEN v ELSE IF v.cursor = 0 THEN Submit(v, "lock") ELSE Show(v, "settings")
            ELSE CASE w.dev.status = "active" ->
                        BeginFlow(w, CASE k = "SELECT" -> "full" [] k = "UP" -> "passkeys" [] OTHER -> "readonly")
                   [] w.dev.status = "empty" /\ k = "SELECT" -> BeginFlow(w, "locked")
                   [] OTHER -> w

\* dashboard.c
DashboardKey(w, k) ==
    CASE k = "BACK" -> Submit(w, "lock")
      [] k = "SELECT" -> Show(w, "settings")
      [] OTHER -> w

\* settings.c: the settings this session may use, in order.
Menu(d) ==
    (IF Admin(d.mode) THEN <<"policy", "erase", "method">> ELSE <<>>)
    \o (IF Fido(d.mode) THEN <<"reset", "verification", "passkeys">> ELSE <<>>)
    \o (IF Unlocked(d) THEN <<"dashsetting">> ELSE <<>>)

\* ui_settings_return.
ReturnTo(w, setting) ==
    LET v == Show(ClearInput(w), "settings")
        at == {i \in DOMAIN Menu(w.dev) : Menu(w.dev)[i] = setting}
    IN IF at = {} THEN v ELSE [v EXCEPT !.cursor = (CHOOSE i \in at : TRUE) - 1]

\* A mutant of Limit: begin_policy takes the limit in force as it is.
LimitKept(p) == p

\* begin_policy: a limit this screen cannot show becomes one it can.
Limit(p) ==
    IF p.action = "none" THEN [p EXCEPT !.attempts = 0]
    ELSE [p EXCEPT !.action = "destroy", !.attempts = IF @ \in 1 .. MaxAttempts THEN @ ELSE DefaultAttempts]

Chosen(w, s) ==
    LET profile == IF w.dev.profile = 0 THEN 2 ELSE w.dev.profile
        Begin(flow, p) == Show([ClearInput(w) EXCEPT !.flow = flow, !.job.profile = profile, !.job.policy = p], "secret")
    IN CASE s = "policy" -> Begin("policy", Limit(w.dev.policy))
         [] s = "method" -> Begin("change", w.dev.policy)
         [] s = "passkeys" -> Submit(w, "list")
         [] OTHER -> Show(w, s)

SettingsKey(w, k) ==
    IF k = "BACK" THEN GoHome(w)
    ELSE LET n == Len(Menu(w.dev))
             v == [w EXCEPT !.cursor = Moved(@, n, k)]
         IN IF k = "SELECT" /\ v.cursor < n THEN Chosen(v, Menu(w.dev)[v.cursor + 1]) ELSE v

\* credential.c
MethodKey(w, k) ==
    IF k = "BACK" THEN GoHome(w)
    ELSE LET v == [w EXCEPT !.cursor = Moved(@, 3, k)]
         IN IF k = "SELECT" THEN Show([v EXCEPT !.job.profile = v.cursor + 2], "secret") ELSE v

LongEnough(w) == w.job.profile # 2 \/ Len(w.job.secret) >= MinLength

\* credential_submitted.
Submitted(w) ==
    IF w.modal THEN [w EXCEPT !.done = TRUE, !.approved = TRUE]
    ELSE IF w.flow = "change" /\ w.job.current = <<>>
    THEN Show([w EXCEPT !.job.current = w.job.secret, !.job.secret = <<>>, !.entry = NoEntry], "method")
    ELSE IF w.flow = "policy" THEN Show([w EXCEPT !.entry = NoEntry], "options")
    ELSE IF w.flow = "unlock" THEN Submit(w, "unlock")
    ELSE IF w.screen = "secret" THEN (IF LongEnough(w) THEN Show(w, "confirm") ELSE w)
    ELSE IF w.confirmation = w.job.secret
    THEN Show([w EXCEPT !.confirmation = <<>>, !.entry = NoEntry], IF w.flow = "change" THEN "review" ELSE "stack")
    ELSE Show([w EXCEPT !.job.secret = <<>>, !.confirmation = <<>>], "secret")

\* credential_key.
Code(k) == CASE k = "UP" -> 1 [] k = "DOWN" -> 2 [] k = "LEFT" -> 3 [] OTHER -> 4
CredentialKey(w, k) ==
    LET input == IF w.screen = "secret" THEN w.job.secret ELSE w.confirmation
        With(s) == IF w.screen = "secret" THEN [w EXCEPT !.job.secret = s] ELSE [w EXCEPT !.confirmation = s]
    IN IF w.job.profile \in {3, 4}
       THEN IF EntryLeft(w.entry, k) THEN GoHome(w)
            ELSE IF EntryDone(w.entry, k) THEN Submitted(With(w.entry.values))
            ELSE [w EXCEPT !.entry = EntryKey(@, k)]
       ELSE CASE k \in Arrows -> IF Len(input) < MaxLength THEN With(Append(input, Code(k))) ELSE w
              [] k = "BACK" -> IF input = <<>> THEN GoHome(w) ELSE With(SubSeq(input, 1, Len(input) - 1))
              [] OTHER -> IF input = <<>> THEN w ELSE Submitted(w)

\* setup.c
StackKey(w, k) ==
    LET n == Len(w.job.stack)
        c == Moved(w.cursor, n + 3, k)
        v == [w EXCEPT !.cursor = c]
    IN CASE k = "BACK" -> GoHome(w)
         [] k \in {"LEFT", "RIGHT", "SELECT"} /\ c < n -> [v EXCEPT !.job.stack[c + 1] = (@ % Algorithms) + 1]
         [] k = "SELECT" /\ c = n -> IF n < MaxStack THEN [v EXCEPT !.job.stack = Append(@, 1)] ELSE v
         [] k = "SELECT" /\ c = n + 1 ->
                IF n > 1 THEN [v EXCEPT !.job.stack = SubSeq(@, 1, n - 1), !.cursor = n] ELSE v
         [] k = "SELECT" /\ c = n + 2 -> Show(v, "options")
         [] OTHER -> v

Turn(i, k) == IF k = "RIGHT" THEN (i + 1) % Durations ELSE (i + Durations - 1) % Durations
Toggled(p) == IF p.action = "none" THEN [p EXCEPT !.action = "destroy", !.attempts = DefaultAttempts]
              ELSE [p EXCEPT !.action = "none", !.attempts = 0]
OptionsKey(w, k) ==
    LET c == Moved(w.cursor, 5, k)
        v == [w EXCEPT !.cursor = c]
        p == w.job.policy
    IN CASE k = "BACK" -> GoHome(w)
         [] k \in {"LEFT", "RIGHT"} /\ c = 0 -> [v EXCEPT !.job.policy = Toggled(p)]
         [] k = "RIGHT" /\ c = 1 /\ p.action = "destroy" /\ p.attempts < MaxAttempts -> [v EXCEPT !.job.policy.attempts = @ + 1]
         [] k = "LEFT" /\ c = 1 /\ p.action = "destroy" /\ p.attempts > 1 -> [v EXCEPT !.job.policy.attempts = @ - 1]
         [] k \in {"LEFT", "RIGHT"} /\ c = 2 -> [v EXCEPT !.job.policy.lock = Turn(@, k)]
         [] k \in {"LEFT", "RIGHT"} /\ c = 3 -> [v EXCEPT !.job.policy.sleep = Turn(@, k)]
         [] k = "SELECT" /\ c < 4 -> [v EXCEPT !.cursor = c + 1]
         [] k = "SELECT" /\ c = 4 -> Show(v, "review")
         [] OTHER -> v

Saves(flow) == CASE flow = "change" -> "change" [] flow = "policy" -> "policy" [] OTHER -> "create"

\* passkeys.c, fido.c
PasskeysKey(w, k) ==
    CASE k = "BACK" -> ReturnTo(w, "passkeys")
      [] w.dev.pk.count > 0 /\ k \in {"UP", "DOWN"} -> Submit(w, "list")
      [] w.dev.pk.count > 0 /\ k = "SELECT" -> Show(w, "delete")
      [] OTHER -> w

ApproveKey(w, k) ==
    IF k \in {"SELECT", "BACK"} THEN [w EXCEPT !.done = TRUE, !.approved = k = "SELECT"] ELSE w

DashSettingKey(w, k) ==
    CASE k \in {"UP", "DOWN"} -> [w EXCEPT !.cursor = 1 - @]
      [] k \in {"SELECT", "BACK"} -> ReturnTo(w, "dashsetting")
      [] OTHER -> w

\* The key handler of each scene.
SceneKey(w, k) ==
    CASE w.screen = "home" -> HomeKey(w, k)
      [] w.screen = "dashboard" -> DashboardKey(w, k)
      [] w.screen = "settings" -> SettingsKey(w, k)
      [] w.screen = "method" -> MethodKey(w, k)
      [] w.screen \in {"secret", "confirm"} -> CredentialKey(w, k)
      [] w.screen = "stack" -> StackKey(w, k)
      [] w.screen = "options" -> OptionsKey(w, k)
      [] w.screen = "review" -> Confirmation(w, k, Submit(w, Saves(w.flow)), GoHome(w))
      [] w.screen = "erase" -> Confirmation(w, k, Submit(w, "erase"), ReturnTo(w, "erase"))
      [] w.screen = "reset" -> Confirmation(w, k, Submit(w, "reset"), ReturnTo(w, "reset"))
      [] w.screen = "delete" -> Confirmation(w, k, Submit(w, "delete"), Show(w, "passkeys"))
      [] w.screen = "verification" ->
            (CASE k = "BACK" -> ReturnTo(w, "verification") [] k = "SELECT" -> Submit(w, "verification") [] OTHER -> w)
      [] w.screen = "passkeys" -> PasskeysKey(w, k)
      [] w.screen = "approve" -> ApproveKey(w, k)
      [] w.screen = "dashsetting" -> DashSettingKey(w, k)
      [] w.screen = "error" -> IF k \in {"SELECT", "BACK"} THEN Submit(w, "status") ELSE w

\* fv_ui_keypress.
Keypress(w, k) ==
    IF w.screen = "wait" \/ w.done THEN w
    ELSE IF w.modal /\ k = "BACK" THEN [w EXCEPT !.done = TRUE, !.approved = FALSE]
    ELSE SceneKey(w, k)

-----------------------------------------------------------------------------
(* The adapter, the worker and the buttons *)

UInit == /\ disk \in Disks
         /\ access = "locked" /\ serving = Idle
         /\ maintenance = FALSE /\ refresh = FALSE
         /\ fido = [busy |-> FALSE, state |-> 0, secret |-> FALSE, abort |-> FALSE, ok |-> FALSE,
                    owned |-> FALSE, asked |-> 0]
         /\ btn = [cand |-> FALSE, prev |-> FALSE, armed |-> TRUE, old |-> FALSE]
         /\ u = Submit([screen |-> "wait", cursor |-> 0, flow |-> "setup", job |-> NoJob, confirmation |-> <<>>,
                        entry |-> NoEntry, pending |-> FALSE, dev |-> Device(NoDisk, "locked", NoPasskey),
                        modal |-> FALSE, done |-> FALSE, approved |-> FALSE, bump |-> FALSE], "status")

\* A screen that must not take a key pressed before it was shown.  `old`
\* records that the button now down was down before that.
Guarded(w) == w.modal \/ w.screen \in {"secret", "confirm", "passkeys", "delete"}
Aged(w) == [btn EXCEPT !.old = @ \/ (btn.cand /\ Guarded(w) /\ (w.screen # u.screen \/ w.modal # u.modal))]

\* A bus event, and the fv_device_ui_poll that takes its flag first of all.
Disconnected ==
    /\ refresh' = TRUE
    /\ u' = IF u.modal THEN u ELSE Cancelled(u)
    /\ UNCHANGED <<disk, access, serving, maintenance, fido, btn>>

\* fv_device_ui_poll, a refresh that was asked for.
RefreshDue == refresh /\ ~u.modal /\ ~fido.busy /\ u.screen # "wait"
Refresh ==
    /\ RefreshDue
    /\ u' = Cancelled(u) /\ refresh' = FALSE
    /\ UNCHANGED <<disk, access, serving, maintenance, fido, btn>>

\* A mutant of Emptied: the old credential of a change stays behind.
EmptiedSecret(w) == [w EXCEPT !.pending = FALSE, !.job.secret = <<>>, !.entry = NoEntry]

Emptied(w) == [w EXCEPT !.pending = FALSE, !.job.secret = <<>>, !.job.current = <<>>, !.entry = NoEntry]

\* fv_device_ui_poll hands the job to the worker, unless its queue is full.
HandOver ==
    /\ u.pending /\ ~fido.busy
    /\ serving' = [Idle EXCEPT !.op = u.job.op, !.mode = u.job.mode, !.profile = u.job.profile, !.policy = u.job.policy]
    /\ u' = Emptied(u) /\ maintenance' = TRUE
    /\ UNCHANGED <<disk, access, refresh, fido, btn>>

QueueFull ==
    /\ u.pending /\ ~fido.busy /\ ~maintenance
    /\ maintenance' = TRUE
    /\ UNCHANGED <<u, disk, access, serving, refresh, fido, btn>>

\* What fv_device_ui_execute leaves on the device when it succeeds.  Of
\* the policies in force only those the screens treat alike are told apart.
Stored(p) == Policy(p.action, IF p.action = "none" THEN 0 ELSE 1, 0, 0)
Written(j) ==
    CASE j.op = "create" -> [status |-> "active", profile |-> j.profile, policy |-> Stored(j.policy)]
      [] j.op = "policy" -> [disk EXCEPT !.policy = Stored(j.policy)]
      [] j.op = "change" -> [disk EXCEPT !.profile = j.profile]
      [] j.op = "erase" -> NoDisk
      [] OTHER -> disk

\* fv_device_ui_execute and the answer fv_device_ui_poll takes: an error
\* reports no profile, and every job that uses the credential locks first.
AtWorker == serving.op # "idle"
Answer(d, m, ok, pk) ==
    /\ disk' = d /\ access' = m
    /\ u' = Completed(u, ok, Device(IF ok THEN d ELSE [d EXCEPT !.profile = 0], m, pk))
    /\ btn' = Aged(u') /\ maintenance' = FALSE /\ serving' = Idle
    /\ UNCHANGED <<refresh, fido>>

JobServed ==
    /\ AtWorker
    /\ \/ serving.op = "status" /\ Answer(disk, access, TRUE, NoPasskey)
       \/ serving.op = "lock" /\ Answer(disk, "locked", TRUE, NoPasskey)
       \/ /\ serving.op = "unlock" /\ access = "locked"
          /\ Answer(disk, serving.mode, TRUE, NoPasskey)
       \/ /\ serving.op \in {"erase", "policy", "change"} /\ Admin(access)
          /\ Answer(Written(serving), "locked", TRUE, NoPasskey)
       \/ serving.op = "create" /\ disk.status = "empty" /\ Answer(Written(serving), "locked", TRUE, NoPasskey)
       \/ serving.op \in {"reset", "verification"} /\ Fido(access) /\ Answer(disk, access, TRUE, NoPasskey)
       \/ /\ serving.op \in {"list", "delete"} /\ Fido(access)
          /\ \E pk \in Passkeys : Answer(disk, access, TRUE, pk)

\* A job that fails, or finds the session gone: it may have been locked, and
\* a wrong credential may have used up the attempts.
JobFailed ==
    /\ AtWorker
    /\ \E m \in {access, "locked"}, d \in {disk, [disk EXCEPT !.status = "denied"]} :
          /\ d = disk \/ (serving.op \in {"unlock", "policy", "change"} /\ disk.policy.action # "none" /\ m = "locked")
          /\ Answer(d, m, FALSE, NoPasskey)

\* The session ends without the interface: its timer or the host ends it.
SessionEnds ==
    /\ access # "locked" /\ ~fido.busy
    /\ access' = "locked"
    /\ refresh' = TRUE
    /\ UNCHANGED <<u, disk, serving, maintenance, fido, btn>>

\* fv_device_ui_fido_available.
Available == ~u.pending /\ ~u.modal /\ ~maintenance /\ u.screen \in {"home", "dashboard"}

\* fv_fido_poll gives the worker a request, and ask on the worker publishes a
\* prompt of it.  A request that asks nothing only delays the interface.
PromptRequest ==
    /\ ~fido.busy /\ ~maintenance /\ Available
    /\ fido' = [fido EXCEPT !.busy = TRUE, !.state = 1, !.asked = 1]
    /\ UNCHANGED <<u, disk, access, serving, maintenance, refresh, btn>>

PromptAsk ==
    /\ fido.busy /\ fido.state = 0 /\ fido.asked < MaxPrompts
    /\ fido' = [fido EXCEPT !.state = 1, !.asked = @ + 1]
    /\ UNCHANGED <<u, disk, access, serving, maintenance, refresh, btn>>

\* fv_fido_ui_poll shows a prompt for the credential or for an approval, or
\* refuses one that would disturb the user, which takes nothing down.
Prompts(secret) ==
    IF secret THEN disk.status = "active" /\ disk.profile \in 2 .. 4 /\ access # "readonly" ELSE Fido(access)
PromptShow(secret) ==
    /\ fido.state = 1 /\ (fido.owned \/ Available) /\ Prompts(secret)
    /\ u' = FidoBegin(u, secret, IF secret THEN disk.profile ELSE 0)
    /\ fido' = [fido EXCEPT !.state = 2, !.owned = TRUE, !.secret = secret] /\ btn' = Aged(u')
    /\ UNCHANGED <<disk, access, serving, maintenance, refresh>>

PromptRefused ==
    /\ fido.state = 1 /\ (fido.owned \/ Available => \A secret \in BOOLEAN : ~Prompts(secret))
    /\ fido' = [fido EXCEPT !.state = 0]
    /\ UNCHANGED <<u, disk, access, serving, maintenance, refresh, btn>>

\* ask gives up: the request was cancelled or a minute has passed.
PromptAbort ==
    /\ fido.state = 2 /\ ~fido.abort
    /\ fido' = [fido EXCEPT !.abort = TRUE]
    /\ UNCHANGED <<u, disk, access, serving, maintenance, refresh, btn>>

\* fv_fido_ui_poll takes the user's answer, leaving only zeros of its length.
PromptAnswer ==
    /\ fido.state = 2 /\ (u.done \/ fido.abort)
    /\ fido' = [fido EXCEPT !.state = 3, !.abort = FALSE, !.secret = FALSE, !.ok = fido.secret /\ u.approved /\ ~fido.abort]
    /\ u' = [u EXCEPT !.job.secret = [i \in DOMAIN @ |-> 0], !.entry = NoEntry]
    /\ UNCHANGED <<disk, access, serving, maintenance, refresh, btn>>

\* The worker reads the answer, and the prompt is taken down.
PromptEnd ==
    /\ fido.state = 3
    /\ fido' = [fido EXCEPT !.state = 0]
    /\ u' = IF u.modal THEN FidoEnd(u) ELSE u
    /\ UNCHANGED <<disk, access, serving, maintenance, refresh, btn>>

\* execute_request ends and fv_fido_poll takes the answer: a credential that
\* was accepted opens a passkeys session, a cancelled request may lock.
PromptsOver ==
    /\ fido.busy /\ fido.state = 0
    /\ \E m \in {access, "locked"} \cup (IF fido.ok /\ access = "locked" THEN {"passkeys"} ELSE {}) :
          /\ access' = m
          /\ refresh' = (refresh \/ Unlocked(u.dev) # (m # "locked"))
    /\ fido' = [fido EXCEPT !.busy = FALSE, !.owned = FALSE, !.ok = FALSE, !.asked = 0]
    /\ UNCHANGED <<u, disk, serving, maintenance, btn>>

\* fv_pico_buttons_poll and fv_button_input_sample: `down` is what the pins
\* show, `elapsed` that they have shown it for the debounce time.  A change
\* and a new prompt restart that time.
Required(b, bump) == IF bump THEN [b EXCEPT !.armed = FALSE] ELSE b
Rearmed(b, down, elapsed) == IF ~down /\ ~b.cand /\ elapsed THEN [b EXCEPT !.armed = TRUE] ELSE b
Changed(b, down) == IF down # b.cand THEN [b EXCEPT !.cand = down, !.old = FALSE] ELSE b
Sampled(b, bump, down, elapsed) == Changed(Rearmed(Required(b, bump), down, elapsed), down)
Edge(b, down, elapsed) == elapsed /\ down # b.prev
KeyDue(b, bump, down, elapsed) == Edge(b, down, elapsed) /\ down /\ Sampled(b, bump, down, elapsed).armed

\* fv_device_ui_poll reads the buttons, once it has dealt with the host's
\* events and a refresh.  A dark screen takes the key itself.
Tries == IF u.screen \in {"secret", "confirm"} THEN EntryKeys ELSE Keys
After(w) == {w} \cup {Keypress(w, k) : k \in Tries}
Sample(down, elapsed) ==
    LET b == Sampled(btn, u.bump, down, elapsed)
        w == [u EXCEPT !.bump = FALSE]
    IN /\ ~RefreshDue
       /\ u.bump \/ down # btn.cand => ~elapsed
       /\ u' \in IF KeyDue(btn, u.bump, down, elapsed) THEN After(w) ELSE {w}
       /\ btn' = [b EXCEPT !.prev = IF Edge(btn, down, elapsed) THEN down ELSE @, !.old = Aged(u').old /\ b.cand]
       /\ UNCHANGED <<disk, access, serving, maintenance, refresh, fido>>

UNext == \/ Disconnected \/ Refresh \/ HandOver \/ QueueFull \/ JobServed \/ JobFailed \/ SessionEnds
         \/ PromptRequest \/ PromptAsk \/ (\E secret \in BOOLEAN : PromptShow(secret)) \/ PromptRefused
         \/ PromptAbort \/ PromptAnswer
         \/ PromptEnd \/ PromptsOver
         \/ (\E down, elapsed \in BOOLEAN : Sample(down, elapsed))

USpec == UInit /\ [][UNext]_uvars

\* Both cores keep polling, and a prompt ends after a minute.
UFairness == /\ WF_uvars(HandOver) /\ WF_uvars(JobServed \/ JobFailed)
             /\ WF_uvars(PromptAbort) /\ WF_uvars(\E secret \in BOOLEAN : PromptShow(secret))
             /\ WF_uvars(PromptRefused) /\ WF_uvars(PromptAnswer)
             /\ WF_uvars(PromptEnd) /\ WF_uvars(PromptsOver)

UFairSpec == USpec /\ UFairness

-----------------------------------------------------------------------------
(* Properties *)

\* The checks fv_device_ui_execute makes of a job's own contents.
ValidSecret(j) ==
    /\ Len(j.secret) \in 1 .. MaxLength /\ j.profile \in 2 .. 4
    /\ j.profile # 2 => Len(j.secret) = Entries
    /\ \A i \in DOMAIN j.secret :
          j.secret[i] \in (CASE j.profile = 2 -> 1 .. 4 [] j.profile = 3 -> 0 .. Codes - 1 [] OTHER -> 0 .. WordCount[WordSteps] - 1)
ValidPolicy(p) ==
    /\ \/ p.action = "none" /\ p.attempts = 0
       \/ p.action = "destroy" /\ p.attempts \in 1 .. MaxAttempts
    /\ {p.lock, p.sleep} \subseteq 0 .. Durations - 1
Accepts(j) ==
    /\ j.op \in {"create", "unlock", "policy", "change"} => ValidSecret(j)
    /\ j.op \in {"create", "policy"} => ValidPolicy(j.policy)
    /\ j.op \in {"create", "change"} /\ j.profile = 2 => Len(j.secret) >= MinLength
    /\ j.op = "change" => Len(j.current) \in 1 .. MaxLength
    /\ j.op = "create" => Len(j.stack) \in 1 .. MaxStack /\ \A i \in DOMAIN j.stack : j.stack[i] \in 1 .. Algorithms
    /\ j.op = "unlock" => j.mode \in {"full", "passkeys", "readonly"}

\* Whatever the user does, and whatever host events and prompts interrupt him,
\* the job the screens build is one the worker does not refuse as invalid, a
\* passkey it deletes is the one on the screen, and the one mailbox is not
\* filled again while the worker reads it.
JobsAccepted ==
    u.pending => /\ Accepts(u.job)
                 /\ u.job.op = "delete" => u.dev.pk.count > 0 /\ u.job.id = u.dev.pk.id
                 /\ ~fido.busy => ~AtWorker

\* Credential input exists only while a screen of its flow is shown or a job
\* that needs it waits for the worker: every other way out wipes it.
Typed(s) == \E i \in DOMAIN s : s[i] # 0
NoSecretLeft ==
    Typed(u.job.secret) \/ Typed(u.job.current) \/ Typed(u.confirmation) \/ Typed(u.entry.values) =>
        u.pending \/ u.screen \in {"secret", "confirm", "method", "stack", "options", "review"}

\* A key is never taken by a prompt, a credential screen or a passkey screen
\* that appeared after its button went down.
FreshInput == KeyDue(btn, u.bump, btn.cand, ~u.bump) => ~btn.old

\* The interface never stays busy: a busy screen gives way to another.
WaitEnds == u.screen = "wait" ~> u.screen # "wait"
=============================================================================
