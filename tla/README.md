# Fuse Vault: a TLA+ verification project

Fuse Vault is the firmware of a two-core RP2354 USB device that keeps an encrypted volume
on an SD card, unlocks it with a credential typed on the device, counts wrong credentials
in flash under a key that lives in one-time fuses, and destroys that key when the limit is
reached or the owner asks. The same session also serves passkeys over FIDO HID. The
repository holds two generations of it: `src/src` (`shared` and `pico`), the present one,
and `src/v1`, the first one. This directory models both, checks the models with TLC and
proves with TLAPS the safety properties of the present generation and of six parts of the
first one.

## Inventory

Two actors share the present device. Core 0 runs USB, the display and the buttons. Core 1,
the worker (`security_worker` in `pico/device/commands.c`), runs every operation on
secrets, one at a time, taking commands from queues. Interrupts on core 0 only set flags.
Below both of them are media that lose power at any moment: OTP fuses, whose bits are only
ever set; flash, which is programmed in pages and erased in banks; and the SD card, which
is not trusted at all. The first generation runs everything in one main loop on one core.

| Component | State it keeps | Hard behaviour | What makes it correct | Module |
|---|---|---|---|---|
| Journal, `security/journal.c` | two flash banks of records, each a body page and a commit page | power lost in an erase or a program; full banks; stale predecessors | an acknowledged record is never lost, no older one returns, an undecidable journal denies | `Journal`, `DurableState` |
| Enrollment, `security/enrollment.c`, `platform/authority.c` | mask and secret rows in fuses, the journal, `fv_enrollment_device` | irreversible writes cut anywhere, retried after restarts | every cut can be decided and finished; one live secret; destruction is final | `Enrollment` |
| Vault, `security/vault.c`, `policy.c` | the anchored record, two header copies, the session | charge and evaluation as separate steps; two copies and an anchor; a rolled-back card | guesses are paid for before they are evaluated; the limit is final; a header copy stays usable | `Vault` |
| Session timer and access modes, `session_timer.c`, `session_timeout.c`, `session_access.c` | deadline, generation, a mailbox of two atomics | two cores; expiry racing activity; saturation | an event extends only its own session; every deadline is enforced, none early | `SessionTimeout` |
| Authenticated store, `storage/auth_store.c` | tags and bitmap on the card, two caches | data, tags and bitmap are separate writes; caches changed before the writes | a read is right or an integrity error; an interrupted write hurts only its own sectors and those a torn sector describes | `AuthStore` |
| USB storage, FIDO adapter and dispatch, `usb_storage.c`, `usb_storage_bridge.c`, `fido_adapter.c`, `commands.c` | session generation, invalidation flag, queues, a shared buffer, the prompt mailbox | interrupts; results of an earlier session; buffer ownership; CANCEL after done; both cores waiting | nothing of an ended session leaves; one owner of the buffer; nobody waits for good | `DeviceSession` |
| FIDO store, `fido/store.c` | redo records, two control sectors, home sectors; the older image banks | cut inside a transaction, replay, migration; one shared cache | a commit is atomic, reset and migration included | `FidoStore` |
| FIDO HID, `fido/hid.c` | four channels, one assembly, one reply | fragments of several programs, time-outs, cancel, reclaimed channels | whole requests, replies to their author, the layer comes to rest | `FidoHid` |
| FIDO verification, `fido/verification.c` | time, started, bound party | a 32-bit clock | a strict verification ends with its window | `FidoVerification` |
| User interface, `shared/ui`, `device_ui_adapter.c`, buttons | screen, flow, entry, job, prompt, debounced buttons | host events and prompts at any point of a flow; presses meant for another screen | jobs the worker accepts; no secret left behind; no stale press taken as consent; the wait screen ends | `DeviceUi` |
| Connector switch, `usb_mux.c` | selected and candidate port, two timers | cables that move while it waits | the device ends on the preferred connector | `UsbMux` |
| SD driver, `sd_native.c`, and its callers | initialised and present flags, the card in the slot | a card swapped unnoticed while a session is open | a session reaches only its own card | `CardDriver` |
| First generation, `v1/firmware/src` | application state, pending commands, fuses, journal, superblocks, header slots, session keys, USB | one main loop over two journals, a card and a host, cut anywhere | charged guesses, a kept header, nothing served while locked | `LegacyApp`, `LegacyDevice`, `LegacyStore`, `LegacySd`, `LegacyUsb` |
| Its journal, passkey store, CTAPHID transport, buttons, secret pickers | flash pages; image banks; a report queue and channels; debounced pins; entries | torn pages; an anchored image; reports that overtake the queue; held buttons | no acknowledged record or image is lost; own requests; no carried press | `LegacyJournal`, `LegacyBlock`, `LegacyProbe`, `LegacyInput`, `LegacyEntry` |

The calls go downwards: the worker calls the vault, the vault calls the authority (load,
commit, binding, destroy), which is the enrollment, which owns the journal. USB storage,
the timer and FIDO depend on the vault's session and on a generation number that changes
whenever the session does. `PROJECT.json` lists every component with its status, and maps
every definition to the lines it stands for.

## Modules

### `DurableState` and `Journal`

`DurableState` is the contract `vault.c` relies on: one record that a commit replaces. A
commit without acknowledgement leaves the old record or the new one, or makes the store
deny everything; no load returns an older record.

`Journal` is `journal.c`. `flash` maps the cells of the two banks to a body page, a commit
page (blank, torn or written) and the contents. `op` is the commit in progress, `view` what
the caller last loaded, `result` what the last call returned. `CommitBegin` is
`fv_journal_commit` up to its first flash operation (its checks and the choice of the
cell); `EraseBank`, `ProgramBody` and `ProgramMarker` are its flash operations, and each
has an interrupted form that leaves the page or the bank old, new or torn and either
returns `FV_JOURNAL_IO` or loses power. `Ambiguous`, `Conflict`, `ScanStatus` and `Latest`
are `scan()`. The HMACs become "a completely programmed page decodes, any other non-blank
page does not". The refinement maps the abstract record to the latest committed cell.

### `Enrollment`

`mask` and `token` are the fuse rows of each slot, `journal` the flash as module `Journal`
is proved to behave, `ram` the `fv_enrollment_device`, `pc` and `cur` the position and slot
variable of the running call. Each irreversible write of opening, flash preparation,
provisioning, committing, requesting destruction, revoking and burning is an action with a
failing form whose outcome is any state the hardware can leave. The sixteen rows of a
secret are one value that tells blank, partly written, written, partly filled and filled
apart; `foreign` marks rows older firmware used.

### `Vault`

`anchor` is the `fv_device_state` the authority holds, `media` the two header copies,
`sealed` all headers sealed so far (a header is its number, which stands for its SHA-256),
`session` the header the unlocked vault was opened with, and `call`, `pc`, `slot`,
`header`, `failed` the locals of the running call. One action is one durable write or one
evaluation of a credential. A commit may fail with the old record, the new one or an
unreadable journal behind it; a header write may fail with old, new or garbage. `guesses`
is a history variable: wrong credentials evaluated since the last right one. `altered`,
chosen at the start and never changed, says which card the behaviour is about: one that may
at any time be replaced by any combination of headers ever sealed, or one that only the
code writes. What the module promises about the header holds only for the second.

### `SessionTimeout`

`timer`, `timerGen`, `consumed` and `remaining` are the statics of `session_timeout.c`;
`unlocked` and `gen` the worker's `usb_access`, `published` the generation core 0 reads;
`seq` and `event` the two atomics of the mailbox, accessed one at a time on both sides.
The clock is sampled when a poll begins and used to its end. `last`, `presses` and
`renewals` are history variables.

### `AuthStore`

`auth_store.c` under `io()` of `vault.c`, in both layouts (`lazy` is the one with a bitmap
of initialised metadata blocks). Each card operation of a write (data, metadata, sync,
bitmap, sync, final sync) is an action. A sector that was written and not yet synced may
come back from a power cut old, new or torn, independently of every other; a failing
operation leaves each of its sectors old, new or torn and closes the vault. A torn data
sector fails its check. The written flags and the bitmap are not authenticated, so a torn
metadata sector can say anything of each of its entries (the tag before, the tag written,
never written, or one that matches nothing), and a torn bitmap sector can have any bits. A
tag is identified with the ciphertext it authenticates. A sector the card refuses to read
is `ReadFails`, possible at any time: the properties speak of the reads it answers.

`may` and `hurt` are history variables: the values a sector may rightly read as, and the
sectors whose last write was not acknowledged or whose entry or bit a torn sector holds
neither as before nor as written. Only under such a tear may a sector read as zeros in
place of data, and one torn bitmap sector can do that to every block it describes. The
repository accepts this loss (`docs/FileStorage.md` lines 82 and 88,
`docs/AI/v2-lazy-metadata.md` lines 80 to 86); the properties add that nothing else is lost
and nothing untrue is read.

### `FidoStore`

`store.c`: the redo journal with its record slots, two control sectors, home sectors,
overlay and cache, its opening and replay, reset, and the migration from the older image
format, whose two banks share the region. A call is a list of steps, each writing some
sectors and then syncing. A failed card operation faults the driver and the card is
identified again before the store is opened, so a failure is modelled as the restart it
leads to. A cut between the two CLEAN control writes that end a migration leaves the
migration marker in the older sector, which every scan passes over for the newer one until
the next control write replaces it; `Atomic` covers it.

### `DeviceSession`

One session seen by both cores at once: mass storage callbacks, the batch pipeline and its
blocking requests, the FIDO transport's requests, prompts, CANCEL and fragmented answers,
the user interface's jobs, the worker that executes one command at a time and pumps storage
commands while a prompt waits, and a bus event as an interrupt at any point. What core 0
still has to do in its current callback is `todo`; the parts between two waits or shared
accesses are atomic, and so is `usb_lock`, which only the worker runs. `change` stands for
every administrative job: they differ in what they do to the vault, not in the protocol.
One prompt per request is followed, keepalives are left out, and values nobody reads again
are reset. A session that expires while a prompt is being dismissed may come up again as a
passkeys-only session, because the credential was right; the model contains that.

### `FidoHid`, `FidoVerification`

`FidoHid` is `hid.c` with the half of `fido_adapter.c` that hands requests to the worker,
driven by several host programs. The programs follow CTAP: after an error or after giving
up they resynchronise or ask for a new channel; one that ended never sends again, none
survives a bus reset, and no report is accepted between a bus event and the next
`fv_fido_poll`. Messages are cut into pieces; a piece is its author, number and position.

`FidoVerification` keeps the 32-bit millisecond clock of the code and, beside it, the true
age. Its run expects a violation: `fv_fido_verification_use_policy` computes the age
modulo 2^32 ms, and nothing clears a verification that is never used, so after 49.7 days
in one session it is fresh again. `docs/FIDO2.md` line 30 states the opposite.

### `DeviceUi`

Every screen's keys, the entry methods, the job mailbox, prompts, bus events and the
debounced buttons. What is only drawn is left out (the dashboard's layout, texts,
progress). Whether a sample has been steady for the debounce time is a choice; one button
is pressed at a time. A bus event's flag is set and taken in one action. FIDO requests
without a prompt only delay the interface. A policy the card holds is none, one the
screens can show, or one they cannot. A request changes the access at its end, whereas
`fv_fido_verify_secret` opens a passkeys session between two prompts of one request: a
credential prompt followed by an approval on a device that was locked is not in the model.
Sessions of credential profile 1, which no screen creates, and the debug `KEY` command are
left out.

### `UsbMux`, `CardDriver`

`UsbMux` keeps instants as elapsed time, which is all the code compares. Switching also
ends the host session; that is the bus event of `DeviceSession`. TinyUSB's connection
before the first switch is unspecified and either value is tried.

`CardDriver` follows which physical card the driver, the session and the slot belong to. A
card answers only after it was identified in the slot; builds with and without a detect pin
are both tried. `pending` events and `fv_rp2354_sd_poll` have no caller in this firmware,
so a swap shows only in `is_present` or in a failing transfer.

### The first generation

`LegacyDevice` composes `LegacyApp` (the application's and the settings' states and keys),
`LegacyStore` (roots in fuses, superblocks, header slots and their journal anchor),
`LegacySd` and `LegacyUsb` with the runtime and the main loop. The application answers an
event with a set of commands; the runtime carries them out in the code's order, one durable
write per action, feeding outcomes back as events. A sector is blank, garbage or a record;
the journal is its latest record, which `LegacyJournal` justifies (a program that failed
never leaves a valid record); a header's tag is identified with its content; vault ids are
fresh numbers of a small set; a secret is its method and a value. An append to
the journal may fail with its record stored: reading it back failed, or the answer was
lost. `disowned` is a history variable: setup was told to fail, and its record is stored.
Time and the passkey engine are choices. The build with FIDO is modelled; headless and bench builds and the
alternative `rp2354_sd_native.c` are not.

`LegacyJournal`, `LegacyBlock`, `LegacyProbe`, `LegacyInput` and `LegacyEntry` share no
state with it and have specifications of their own. `LegacyProbe` has the report queue, its
overflow and the path that bypasses it while a request runs; channels are never reclaimed.
`LegacyEntry` keeps the code's four pickers with their sizes as parameters.

`MCLegacy` and `MCBoard` follow one of their parts in each behaviour (`part`), the others
resting, so that one run covers modules that do not interact.

## Runs

| Run | Configuration | States, time | What it shows |
|---|---|---|---|
| `journal` | 2 records per bank, 2 values and a refused one, sequence bound 5 | seconds | refines `DurableState`; only a cut erase or marker denies |
| `enrollment` | 4 slots, slot 1 possibly used by older firmware, 6 faults, fair | 26 k, 15 s | READY owns its journal, never bricked, destruction is final and completes |
| `vault` | 2 credentials, one policy of each kind, 3 seals, generation bound 2, 2 faults, both kinds of card, fair | 660 k, 145 s | paid guesses, backed sessions, header stays, results tell the truth, the limit is final and enforced |
| `board` | 6 clock values, intervals of 0 and 2 seconds, 3 generations, 2 presses; debounce and delay 2, 4 cable moves; 2 cards, 4 moves, fair | 310 k, 130 s | own presses renew, deadlines are enforced and never early, the preferred connector wins, a session keeps its card |
| `auth_store` | 3 metadata blocks of 2 tags, 2 bitmap sectors, batches of 2, 3 writes, failures and cuts together | 860 k, 125 s | honest reads, also against the caches; readable neighbours |
| `fido_store` | 2 sectors, 3 record slots, 1 cache slot, 4 calls, 2 faults | 260 k, 25 s | atomic transactions; reads see own writes |
| `device_session` | 1 bus event, 3 inputs, 1 FIDO request of 2 reports, commands of 2 batches, fair | 1.4 M, 150 s | ended sessions are silent, acknowledged is written, a cancelled session is over, one buffer owner, the cores settle |
| `fido_hid` | 2 programs, 2 channel slots, messages of up to 3 pieces, 6 reports, 1 reset, fair | 540 k, 45 s | whole requests, own replies, comes to rest |
| `fido_verification` | clock of 8 values | violated | an unused verification returns after the wrap |
| `device_ui` | 2 entries of 2 codes, 2 algorithms, stacks of 2, 2 prompts, fair | 610 k, 95 s | accepted jobs (and the passkey shown is the one deleted), no secret left, fresh input, waits end |
| `legacy` | attempt limit 2, 3 vault ids, 2 faults; two-page blocks, 7 records; 2 sectors; 2 programs, 7 reports; 2 buttons | 1.8 M, 80 s | guesses, header, locked device; journal, image, requests, buttons, words |
| `legacy_setup` | the device part alone, 1 fault | violated | a setup cut off in its header write cannot be retried on that card |

`legacy_setup` refutes `src/v1/docs/otp-provisioning-manifest-v1.md` line 82: "An SD or
journal failure does not revoke factory roots. The user may explicitly reinitialize media
and retry." `fv_vault_header_store_update` refuses a card whose header slots hold anything
that is neither blank nor a header of the new vault, and reinitialising clears only the
superblocks.

Two more observations, without a run. `fv_setup_provision` can store the first record and
then fail to verify it (`provisioning_coordinator.c` line 200;
`provisioning_coordinator_tests.c` lines 28 to 31 name the case). The application asks for
setup again, initialising the card blanks the superblocks of the vault that is on record,
the retry is refused because there is a record, and the next start finds no vault and
faults. This too is at odds with line 82 above. `HeaderKept` therefore leaves out a record
whose setup was told to fail until a start asks for its secret: the user was never told of
that vault, and nothing can be in it.

The other: in the first generation a torn write of an encrypted sector leaves a slot that does not authenticate, and later writes of that sector fail
(`encrypted_block.c` lines 125 and 164), so later commits to that bank fail too. The
anchored image stays readable, which is what `AnchoredImageKept` says; the roadmap
(`implementation-roadmap.md` line 108) asks for more.

Why the bounds are enough. Two records per bank and five sequence numbers make the journal
change banks in both directions, erase a bank with committed and abandoned records, and
reach the last sequence number. Four slots let a provisioning meet a legacy slot, an
interrupted one and a burned one before it finds a free one. Three seals are one creation
and two changes, and with generation bound 2 the second change meets the end of the
numbering; a third header is sealed only on a card that is left alone. Attempt limits of
two and one reach the limit after a wrong guess and at once. Two faults put a failure and a
restart, or two failures, at any pair of steps. Three generations are two sessions with a
lock or a failed attempt between them; two presses put one event behind another; the clock
ends inside an interval, so that deadlines saturate. Three metadata blocks in two bitmap
sectors give a batch that crosses a block and a bitmap sector, and three events two writes and what
cuts off the second. Three record slots just hold a
transaction of both sectors with their tag block, so that each one writes over the records
of those before, and one cache slot is always contended. A command of two batches and an answer of two reports
have a point in the middle for an event to arrive at; three inputs are a lock, an unlock and a host command
in any order. Two programs with two channel slots reclaim a channel of a program that still
believes in it. Seven journal records fill the first generation's two blocks and erase each.

Symmetry is used for the values of `Journal`, `AuthStore` and `FidoStore` only, in runs
without liveness. Deadlock is not checked where the system really stops when its bounded
inputs are used up (`enrollment`, `fido_store`, `device_session`, `fido_hid`, `legacy`).

Fairness. `Enrollment` and `Vault` assume that a call runs to its end, which the worker
does without waiting for anyone, and that a powered device runs `fv_enrollment_open` and
`fv_vault_recover`, which `security_worker` does first at every boot. Faults are bounded,
so they cease. `SessionTimeout` assumes that time passes and that the worker polls, which
its loop does at least every millisecond. `UsbMux` assumes that core 0 polls and time
passes. `DeviceSession` assumes that each core keeps running its loop; `FidoHid` that the
device polls, the worker finishes and time passes; `DeviceUi` that both cores poll and that
a prompt ends after its minute. Nothing is assumed of users, hosts, cables or cards.

Each property of each passing run has a mutant in `PROJECT.json`: a plausible slip in a
mapped definition (a dropped guard, a swapped order, a missing reset) that makes TLC find
the property violated under the same configuration.

## Theorems

The proofs hold for every value of the constants that satisfies the named assumptions.

`JournalProofs` assumes a positive number of records and sequence bound and that
`NoValue` is not a value (`RecordsAssumption`, `SequenceAssumption`, `ValuesAssumption`).
`SequencesUnique` is not inductive: a commit could duplicate a number if its own number
were not the successor of the latest one, or if the latest record could vanish during an
erase. `CommitInv` adds that a latest record exists, that readable bodies are real
records, that the running commit holds the successor of the latest record on a journal
without ambiguous pages, and that each flash operation finds what the previous one
prepared; in particular the bank being erased is never the latest record's. Given it, each
step maps to a step of `DurableState` or a stutter (`JournalRefinement`). The action
property `OnlyEraseOrMarkerDenies` follows from the same invariant.

`EnrollmentProofs` assumes at least one slot and that the legacy slots are slots
(`SlotAssumption`, `LegacyAssumption`, `FaultAssumption`). `EnrollInv` orders the slots:
free ones lie above all used ones, at most one is live, all below it are burned. It also
records what each mask state says of the secret and of the journal, and what the running
call has established. The invariants `ReadyOwnsJournal`, `NeverBricked`, `MaskDecidable`
and `LastRevokedCoversAll` and the action properties `LegacyUntouched`, `RevokeBeforeBurn`
and `DestructionIsFinal` follow.

`VaultProofs` assumes that policies are well formed and the bounds are numbers
(`PolicyAssumption`, `VaultBounds`). `VaultInv` says that the record agrees with the
header it names, that guesses are paid for, whose session is open at each point of a call,
what the call has established of the record and of the header it sealed, and which copies
of an unaltered card hold which header. `GuessBound` needs the whole of it: the evaluation
must know that its charge is still in the record, the charge that the limit was not
reached, and a change of policy that the counter is zero. `LimitIsFinal` is an action
property proved from the same invariant; it holds for every behaviour of the card. For
`ResultTells`, `TellInv` adds which call can be at which step, that the record still names
the header the call began with until its anchor is committed, and that the header sealed
last is that of the new credential.

`BoardProofs` has the card driver, the session timer and the user interface.

- The card driver assumes a positive number of chunks of a transfer and a number of moves
  of the cards (`CardAssumption`). `CardInv` says that a job waiting for `Identify`, the
  only step that binds the driver to another card, has closed the session before;
  `SessionKeepsCard` follows.
- The timer assumes that times, intervals and bounds are numbers (`TimeAssumption`,
  `SecondsAssumption`, `SessionBounds`). `RenewedByOwnPresses` counts renewals against
  presses of the same session, so its invariant has to count the presses that have not
  renewed it yet: one that core 0 is writing (`Coming`) and one in the mailbox (`Waiting`).
  `RenewalInv` says that renewals, coming and waiting together are at most the presses of
  the session; it needs `MailboxInv` (the sequence is odd exactly while an event is
  written, and grows by two with each press), `ReadInv` (an event the worker accepts is the
  one that belongs to the sequence it read twice) and `GenerationInv` (which of the two
  cores knows which generation at each point). `NotEarly`, the safety half of
  `DeadlineEnforced`, follows from `DeadlineInv`: the deadline is never less than an
  interval after the last activity, and a poll that passed the expiry test still does when
  it renews. Proving the type invariant showed that the range stated for `remaining` had
  been too small when the clock is at its end; it is corrected.
- The user interface assumes positive sizes, that a pattern may be as long as a code or a
  passphrase, that the proposed limit is one the screen can show, that keys are keys, and
  that a vault that can be opened has a credential profile (`UiSizes`, `UiLimits`, `UiKeys`,
  `UiDisks`). `UiInv` has six parts. `ScreensSound` says what each screen relies on: which
  job it builds, how far, and that input which a later step will check was typed and
  confirmed under the same method. `Agrees` ties what the screens know of the vault to the
  vault; `WorkerSound` says that the screen waits, with an empty mailbox, while a job is
  served, and which jobs can be; `PromptSound` that a prompt is on the screen exactly while
  its request waits for the answer; `DiskSound` that a session is open only on a vault with
  a profile; `ButtonsSound` that a press older than a guarded screen cannot arm its button.
  `JobsAccepted` needs all of the first five: an unlock is accepted because the method shown
  is still the vault's, which no job changes while the screen is shown. `NoSecretLeft` and
  `FreshInput` follow from the first and the last. Most of the proof shows, screen by screen
  and key by key, that `ScreensSound` is kept.

`AuthStoreProofs` assumes a geometry without zeros, three markers that are not values, and
bounds that are numbers (`StoreGeometry`, `StoreValues`, `StoreBounds`). A read goes through
the metadata cache, so `ReadsHonest` needs to know what the cache can hold. `StoreInv` says
that a cached block equals what a fresh load would see unless it is in the window being
written (`CacheInv`), that the cached bitmap sector is the one on the card (`BitmapInv`),
what the running write has put into the cache, the metadata and the bitmap at each of its
steps (`WriteInv`), and, for every content, old or new, that unsynced sectors may have after
a cut, that the tag of a sector names only values it may have, and fits its data unless the
sector is `hurt` (`SafeInv`). A power cut at any step falls back on this last part: an entry
or a bit that comes back old or new is one it speaks of, and any other makes its sectors
`hurt`. Both properties follow.

`FidoProofs` has the transports of both generations, and the credential storage. The first
transport assumes positive sizes (`HidBounds`). `HidInv` relates the transport to the
programs: channels are given to one program each, and the message in reception, the one
that is executed and the answer in transmission belong to the program that holds their
channel, which waits for it or gave it up. `OwnReplies` needs all three, because an answer
is made from the message being executed, and that from the message received; and it needs
that no program has a channel while a reset of the bus is not dealt with. A step of a
program changes its own state and hands a report to the device; the two halves are proved
apart. The transport of the first generation (`ProbeBounds`) keeps no owners, so its
invariant says that there are some: an owner for every channel handed out, such that what
waits in the queue, the message in reception and the answer in progress are of the owner's
last message on that channel, or the owner has given it up (`ProbeInv`).
`ServesOwnRequests` follows.

The storage assumes positive sizes of the region and of the cache, that the blank sector and
the policy record are neither each other nor values of a client, and that what fails its
check is no content (`RegionGeometry`, `RegionValues`, `RegionAuthentic`). `StoreInv` covers
the journal, the older image store and the step from one to the other:

- `SafeInv`: every card that a cut may leave, whichever of the unsynced sectors survive,
  recovers to an image the caller may find. It speaks of all such cards (`MayRemain`), not
  of those that `Outcomes` computes from the unsettled sectors by a fold, so nothing about
  the fold is needed to conclude `Atomic`;
- `SettledInv`: while no sync is pending, at most the record slots and the migration copy
  are unsettled, and then the newest control sector says CLEAN, so a restart ignores them;
- `StepInv`: what the newest control sector promises the step under way. READY means that
  the records and the home sectors together are the image that was wanted, however much of
  the replay reached the card; RESET and MIGRATE that the image does not depend on the home
  sectors; a second CLEAN is only written over home sectors that are the image already. For
  the older store: until its manifest is written, the bank in work has none that counts;
- `OpenInv`: in a transaction the records, the home sectors without a record and the cache
  are the image that was written, from which `ReadsOwnWrites` follows;
- `EraInv`: which steps and sectors each of the two formats uses.

The two control sectors alternate, so a write never touches the newest one: a cut leaves the
old promise or the new one, and both recover to an allowed image (`MarkerStep`). All other
steps write sectors that a restart, by the newest control sector, does not read or writes
again (`RewriteStep`, `BankStep`).

`DeviceSessionProofs` assumes numbers, at least one batch and one report, and that the user
chooses one of the three modes (`SessionBounds`, `SessionSizes`, `SessionChoices`).
`DeadStaysSilent`, `AckedWritten` and `CancelledSessionOver` are about what happened at the
step that sent something, so the invariant describes everything that may still be sent:

- `PlanInv`: what core 0 has left to do in its callback, in particular that each command
  sent is followed by the wait for its answer;
- `TokenInv`, `BusyInv`: there is one storage command or answer under way at most, where it
  is and who waits for it; and whether the display, a FIDO request or neither has the worker;
- `BatchInv`: what is in the buffer belongs to the command in progress and to the session
  of the answer, and the batches stored and the batches left add up, unless the buffer is
  still to be cleared;
- `AnswersInv`: an answer of the present generation tells the truth about the session;
- `DeadInv`: a session that a bus event ended is locked, or its flag is still set, or its
  lock is on the way; an event may also end the session that is only just being opened;
- `OutputInv`: a private reply is sent under the session it was made in;
- `CancelInv`: a cancelled request that may lock has locked or its lock comes before the
  reply.

No part is inductive alone: the answer to a lock sent by core 0 may meet a FIDO request
that the worker took before, a bus event may come between the two, and the reply is made
after both. `BufferOwned` is an action property proved from the same invariant.

`LegacyProofs` has five parts of the first generation, each with its own specification.

- Buttons (`InputAssumption`): a button that is held and not blocked went down on the
  screen that is shown (`InputInv`).
- Journal (`PagesAssumption`, `AppendBounds`): numbers are distinct; the number an append
  has read is the newest, it erases the block without that record and programs an erased
  page (`LegacyJournalInv`).
- Passkey store (`SectorAssumption`, `ImageAssumption`): a commit that goes on fills the
  bank that is not in force, and what it has filled so far reads back (`BlockInv`).
- Pickers of a secret (`WheelAssumption`, `LengthAssumption`, `WordAssumption`): each kind
  of entry stays within its arrays, and the words are complete where the entry says so
  (`EntryInv`).
- The device as a whole (`AttemptsAssumption`; `TransitionsAssumption`: at least six rounds,
  the code allows 16; `CardAssumption`: nothing on a card authenticates that this device
  has not written). The lemma about the application, `HandleOutcome`, says which states
  and commands may follow a state for any event: the proofs about the runtime use it and
  not the definition of `Handle`. `GuessInv` says that the commands go round by round, that
  the record in the journal bounds the wrong secrets evaluated, that the application counts
  at least as many, and one more while an attempt is charged or looked at; `GuessBound`
  follows. `ServingInv` says that keys, bus and route are there for an unlocked session, or
  a command that takes them away is pending in this round or the next. For that, the rounds
  must stay below the limit, at which the runtime drops what is pending: a wipe begins anew
  only when a destruction or the last flush of the card failed, and each can do so once
  (`Bounded`). `NothingServedLocked` follows. `HeaderInv` says that only a device without a
  record that counts is in its setup (`EarlyInv`; a `disowned` one does not count, and its
  superblocks may be blank again), that until the record is made the headers on the card
  are first headers, and that afterwards both superblocks name the vault of the record and
  the header in force, the first one or the anchored one, is in a slot, the staged one going
  to the other (`CardInv`); so whatever `fv_credential_change` or the power leaves behind,
  `load_vault_header` finds it (`HeaderKept`).

What is proved for all constants and therefore not repeated in a run: the type invariants
and inductive invariants of the eight proof modules, `SequencesUnique`, `MaskDecidable`,
`LastRevokedCoversAll`, `LegacyUntouched`, `RevokeBeforeBurn`, `AnchorValid`, `NotEarly` and
`EntryInBounds`.

Only model-checked is liveness (`DestructionCompletes`, `LimitEnforced`, `DeadlineEnforced`,
`Settles`, `ComesToRest`, `WaitEnds`, `EndsOnPreferred`), which needs fairness and `ENABLED`
and is outside the prover's reach.

## Not modelled

- Cryptography, the volume descriptor and the FAT layout: transformations without state. A
  header opens exactly for the credential and slot secret it was sealed with, MACs are
  never forged, random salts never repeat.
- The succession of enrollments in `Vault` (it is in `Enrollment`); an exhausted journal
  sequence is one more failing commit there.
- The modes of failure of a read, which are folded into the failing form of the step that
  needs it.
- `image_upgrade.c`, a relocation of the links inside an image: `FidoStore` copies the
  image in its place.
- The text console of the worker (provisioning commands, self tests, diagnostics), device
  start-up, USB descriptors, drawing, register-level drivers, benchmarks, bring-up
  programs, host simulators, factory tools and the hardware design files.

## Plan

Every safety invariant and action property that a run checks is a theorem, for all values
of the constants. What is left is liveness, which stays with TLC, and the parts listed above
as not modelled.
