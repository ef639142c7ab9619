--------------------------- MODULE DeviceSession ---------------------------
(***************************************************************************)
(* One vault session seen by both cores.  Core 0 runs the USB callbacks,   *)
(* the mass-storage pipeline, the FIDO transport and the user interface    *)
(* (usb_storage.c, usb_storage_bridge.c, fido_adapter.c,                   *)
(* device_ui_adapter.c).  The worker on core 1 owns the vault and executes *)
(* one command at a time, except that a FIDO request waiting for the user  *)
(* pumps storage commands (commands.c).  A bus event is an interrupt.      *)
(* They share one-place queues, one batch buffer and atomic flags.         *)
(*                                                                         *)
(* Core 0 blocks in two places only: until an outstanding batch returns,   *)
(* and until the worker answers a synchronous request.  What it still has  *)
(* to do in the current callback is the sequence todo; a new callback or   *)
(* poll starts when todo is empty.  Values that nobody reads again are     *)
(* reset, to keep the state space small.                                   *)
(***************************************************************************)
EXTENDS Integers, Sequences

CONSTANTS MaxEvents,     \* bound on bus events and expiries of the session timer
          MaxInputs,     \* bound on storage commands, ejects, FIDO requests and the user's jobs
          MaxRequests,   \* bound on the FIDO requests among them
          Choices,       \* access modes the user asks for
          Batches,       \* batches of one mass-storage command
          Reports        \* HID reports of one FIDO response

ASSUME SessionBounds == {MaxEvents, MaxInputs, MaxRequests} \subseteq Nat
ASSUME SessionSizes == Batches \in Nat \ {0} /\ Reports \in Nat \ {0}
ASSUME SessionChoices == Choices \subseteq {"full", "passkeys", "readonly"}

VARIABLES
    inval, pub, maint, busy, cancel, done,  \* atomics shared by the cores
    prompt, abort, approved,                \* the prompt mailbox
    cmdq, stq, uiq,                         \* queues of one place
    scratch,                                \* the shared batch buffer
    todo, answer, cached, pending, msc,     \* core 0: storage
    hid, ui,                                \* core 0: FIDO transport, user interface
    wpc, ses, job, fido,                    \* the worker
    count, dead, breach, stored             \* bounds and history

mailbox == <<prompt, abort, approved>>
queues == <<cmdq, stq, uiq>>
storage == <<todo, answer, cached, pending, msc>>
worker == <<wpc, ses, job, fido>>
history == <<count, dead, breach, stored>>
vars == <<inval, pub, maint, busy, cancel, done, mailbox, queues, scratch, storage, hid, ui, worker, history>>

\* access_mode.h: what a session of each mode may do.
Files(m) == m \in {"full", "readonly"}
Writable(m) == m = "full"
Fido(m) == m \in {"full", "passkeys"}
Admin(m) == m = "full"

\* Contents of the buffer: nothing, the host's data, or a session's plaintext.
Wiped == [of |-> "nothing", gen |-> 0]
HostData == [of |-> "host", gen |-> 0]
Plain(g) == [of |-> "vault", gen |-> g]

Response(ok, s) == [ok |-> ok, gen |-> s.gen, mode |-> s.mode]
Locked == [gen |-> 0, mode |-> "locked"]
NotReady == Response(FALSE, Locked)
NoCommand == [active |-> FALSE, write |-> FALSE, gen |-> 0, left |-> 0, batch |-> "none"]
NoReply == [scoped |-> FALSE, private |-> FALSE, gen |-> 0, from |-> 0, left |-> 0]
QuietHid == [st |-> "idle", private |-> FALSE, cancelled |-> FALSE, discard |-> FALSE, lost |-> FALSE, tx |-> NoReply]
NoJob == [op |-> "none", gen |-> 0, mode |-> "locked"]
NoFido == [at |-> "none", secret |-> FALSE, ok |-> FALSE, locks |-> FALSE, cut |-> FALSE,
           output |-> FALSE, from |-> 0, gen |-> 0, unlocked |-> FALSE]

Init ==
    /\ inval = FALSE /\ pub = 0 /\ maint = FALSE /\ busy = FALSE /\ cancel = FALSE /\ done = FALSE
    /\ prompt = 0 /\ abort = FALSE /\ approved = FALSE
    /\ cmdq = <<>> /\ stq = <<>> /\ uiq = <<>> /\ scratch = Wiped
    /\ todo = <<>> /\ answer = NotReady /\ cached = NotReady /\ pending = FALSE /\ msc = NoCommand
    /\ hid = QuietHid /\ ui = [st |-> "idle", op |-> "none", mode |-> "locked", refresh |-> FALSE]
    /\ wpc = "idle" /\ ses = Locked /\ job = NoJob /\ fido = NoFido
    /\ count = [events |-> 0, inputs |-> 0, requests |-> 0]
    /\ dead = {} /\ breach = {} /\ stored = 0

\* The session of generation g is open and no bus event has ended it.
Live(g) == ses.gen = g /\ ses.mode # "locked" /\ g \notin dead

\* What a bus event ends: the open session, and one that is being derived.
Ended == (IF ses.mode # "locked" THEN {ses.gen} ELSE {})
         \cup (IF wpc = "derive" \/ fido.at = "verify" THEN {ses.gen + 1} ELSE {})

-----------------------------------------------------------------------------
(* Bus events, in interrupt context *)

BusEvent ==
    /\ count.events < MaxEvents
    /\ count' = [count EXCEPT !.events = @ + 1]
    /\ inval' = TRUE /\ cancel' = TRUE
    /\ hid' = [hid EXCEPT !.lost = TRUE]
    /\ ui' = [ui EXCEPT !.refresh = TRUE]
    /\ dead' = Ended
    /\ UNCHANGED <<pub, maint, busy, done, mailbox, queues, scratch, storage, worker, breach, stored>>

-----------------------------------------------------------------------------
(* Core 0: synchronous requests to the worker (usb_storage_bridge.c) *)

\* suppress_invalidated.
Suppressed(r) == IF inval \/ r.gen # pub THEN [NotReady EXCEPT !.gen = r.gen] ELSE r

\* A mutant of PipelineFree: the outstanding batch is not waited for.
PipelineAny == TRUE

\* fv_usb_async_wait and the wait at the head of transact.
PipelineFree == ~pending

WaitBatch ==
    /\ todo # <<>> /\ Head(todo).do \in {"clear", "send"}
    /\ pending /\ stq # <<>>
    /\ pending' = FALSE
    /\ stq' = <<>>
    /\ UNCHANGED <<inval, pub, maint, busy, cancel, done, mailbox, cmdq, uiq, scratch, todo, answer, cached, msc, hid, ui,
                   worker, history>>

\* fv_usb_storage_poll: what it leaves to do when it finds the bus was lost.
Do(do, op) == [do |-> do, op |-> op]
Poll == IF inval /\ ~busy /\ ~maint
        THEN <<Do("send", "lock"), Do("await", "poll"), Do("clear", "poll")>>
        ELSE <<>>
PollTakes == inval' = (inval /\ (busy \/ maint))

\* fv_usb_rpc: a maintenance job refuses it; during a FIDO request a status
\* comes from the cache and a lock is left to the end of the request.
Rpc ==
    /\ todo # <<>> /\ Head(todo).do = "rpc"
    /\ LET op == Head(todo).op IN
       \/ /\ maint \/ (busy /\ op = "lock")
          /\ answer' = NotReady
          /\ todo' = Tail(todo)
          /\ IF maint THEN UNCHANGED <<inval, cancel, hid, dead>>
             ELSE inval' = TRUE /\ cancel' = TRUE /\ hid' = [hid EXCEPT !.lost = TRUE] /\ dead' = Ended
       \/ /\ ~maint /\ busy /\ op = "status"
          /\ answer' = Suppressed(cached)
          /\ todo' = Tail(todo)
          /\ UNCHANGED <<inval, cancel, hid, dead>>
       \/ /\ ~maint /\ ~busy
          /\ todo' = Poll \o <<Do("send", op), Do("await", op)>> \o Tail(todo)
          /\ PollTakes
          /\ UNCHANGED <<answer, cancel, hid, dead>>
    /\ UNCHANGED <<pub, maint, busy, done, mailbox, queues, scratch, cached, pending, msc, ui, worker, count, breach, stored>>

\* clear_pipeline: the batch is waited for, then the buffer is wiped.
Clear ==
    /\ todo # <<>> /\ Head(todo).do = "clear" /\ PipelineFree
    /\ scratch' = Wiped
    /\ msc' = NoCommand
    /\ cached' = IF Head(todo).op = "none" THEN cached ELSE NotReady
    /\ ui' = IF Head(todo).op = "poll" THEN [ui EXCEPT !.refresh = TRUE] ELSE ui
    /\ todo' = Tail(todo)
    /\ UNCHANGED <<inval, pub, maint, busy, cancel, done, mailbox, queues, answer, pending, hid, worker, history>>

\* transact puts the request in the queue.
Send ==
    /\ todo # <<>> /\ Head(todo).do = "send" /\ PipelineFree /\ cmdq = <<>>
    /\ cmdq' = <<[NoJob EXCEPT !.op = Head(todo).op]>>
    /\ todo' = Tail(todo)
    /\ UNCHANGED <<inval, pub, maint, busy, cancel, done, mailbox, stq, uiq, scratch, answer, cached, pending, msc, hid, ui,
                   worker, history>>

\* transact takes the answer; fv_usb_rpc does not publish one that crossed a
\* bus event, and then polls again.
Await ==
    /\ todo # <<>> /\ Head(todo).do = "await" /\ stq # <<>>
    /\ stq' = <<>>
    /\ IF Head(todo).op = "poll"
       THEN todo' = Tail(todo) /\ UNCHANGED <<inval, answer, cached>>
       ELSE /\ answer' = Suppressed(Head(stq)) /\ cached' = answer'
            /\ todo' = Poll \o Tail(todo) /\ PollTakes
    /\ UNCHANGED <<pub, maint, busy, cancel, done, mailbox, cmdq, uiq, scratch, pending, msc, hid, ui, worker, history>>

StoragePoll ==
    /\ todo = <<>> /\ Poll # <<>>
    /\ todo' = Poll /\ PollTakes
    /\ UNCHANGED <<pub, maint, busy, cancel, done, mailbox, queues, scratch, answer, cached, pending, msc, hid, ui,
                   worker, history>>

-----------------------------------------------------------------------------
(* Core 0: mass storage (usb_storage.c) *)

\* fv_usb_storage_begin wipes the pipeline before it asks for the status.
Begin(op) ==
    /\ todo = <<>> /\ count.inputs < MaxInputs
    /\ count' = [count EXCEPT !.inputs = @ + 1]
    /\ todo' = <<Do("clear", "none"), Do("rpc", "status"), Do("begun", op)>>
    /\ UNCHANGED <<inval, pub, maint, busy, cancel, done, mailbox, queues, scratch, answer, cached, pending, msc, hid, ui,
                   worker, dead, breach, stored>>

\* The rest of fv_usb_storage_begin: the command is accepted for this session.
Begun ==
    /\ todo # <<>> /\ Head(todo).do = "begun"
    /\ LET write == Head(todo).op = "write" IN
       msc' = IF Files(answer.mode) /\ (write => Writable(answer.mode))
              THEN [active |-> TRUE, write |-> write, gen |-> answer.gen, left |-> Batches, batch |-> "none"]
              ELSE msc
    /\ answer' = NotReady
    /\ stored' = 0
    /\ todo' = <<>>
    /\ UNCHANGED <<inval, pub, maint, busy, cancel, done, mailbox, queues, scratch, cached, pending, hid, ui,
                   worker, count, dead, breach>>

\* tud_msc_start_stop_cb.
Eject ==
    /\ todo = <<>> /\ count.inputs < MaxInputs
    /\ count' = [count EXCEPT !.inputs = @ + 1]
    /\ todo' = <<Do("rpc", "lock"), Do("clear", "forget")>>
    /\ UNCHANGED <<inval, pub, maint, busy, cancel, done, mailbox, queues, scratch, answer, cached, pending, msc, hid, ui,
                   worker, dead, breach, stored>>

\* fv_usb_async_submit through start_batch, then the record of the batch.
Submits == /\ busy => prompt \in {1, 2}
           /\ ~maint /\ ~inval /\ ~pending /\ cmdq = <<>> /\ msc.gen = pub
Submitted == /\ cmdq' = <<[op |-> IF msc.write THEN "write" ELSE "read", gen |-> msc.gen, mode |-> "locked"]>>
             /\ pending' = TRUE

\* transfer has polled and the command is the one it belongs to.
Transferring == todo = <<>> /\ msc.active /\ Poll = <<>>
Outdated == inval \/ msc.gen # pub

\* harvest: the answer of the batch, suppressed if it outlived its session.
\* (fv_usb_worker_idle only moves it from the queue to async_response, which
\* nothing else can fill before it is harvested: it stays in stq here.)
Harvest ==
    /\ Transferring /\ msc.batch = "pending" /\ stq # <<>>
    /\ answer' = Suppressed(Head(stq))
    /\ msc' = [msc EXCEPT !.batch = "ready"]
    /\ stq' = <<>> /\ pending' = FALSE
    /\ UNCHANGED <<inval, pub, maint, busy, cancel, done, mailbox, cmdq, uiq, scratch, todo, cached, hid, ui, worker, history>>

Good == answer.ok /\ answer.gen = msc.gen /\ Files(answer.mode) /\ (msc.write => Writable(answer.mode))

\* A command that outlived its session and a failed batch end in a wipe.
TransferError ==
    /\ Transferring /\ msc.batch # "pending"
    /\ Outdated \/ (msc.batch = "ready" /\ ~Good)
    /\ todo' = <<Do("clear", "none")>>
    /\ UNCHANGED <<inval, pub, maint, busy, cancel, done, mailbox, queues, scratch, answer, cached, pending, msc, hid, ui,
                   worker, history>>

StartBatch ==
    /\ Transferring /\ ~Outdated /\ Submits
    /\ msc.batch = "none" \/ (msc.batch = "ready" /\ msc.write /\ Good /\ msc.left > 0)
    /\ Submitted
    /\ scratch' = IF msc.write THEN HostData ELSE scratch
    /\ msc' = [msc EXCEPT !.batch = "pending", !.left = IF msc.write THEN @ - 1 ELSE @]
    /\ UNCHANGED <<inval, pub, maint, busy, cancel, done, mailbox, stq, uiq, todo, answer, cached, hid, ui, worker, history>>

\* A batch of plaintext goes to the host and the next one is prefetched.
Deliver ==
    /\ Transferring /\ ~msc.write /\ ~Outdated /\ msc.batch = "ready" /\ Good
    /\ breach' = breach \cup (IF scratch = Plain(msc.gen) /\ Live(msc.gen) THEN {} ELSE {"plaintext"})
    /\ scratch' = Wiped
    /\ IF msc.left > 1 /\ Submits
       THEN Submitted /\ msc' = [msc EXCEPT !.batch = "pending", !.left = @ - 1]
       ELSE /\ msc' = IF msc.left = 1 THEN NoCommand ELSE [msc EXCEPT !.batch = "none", !.left = @ - 1]
            /\ UNCHANGED <<cmdq, pending>>
    /\ UNCHANGED <<inval, pub, maint, busy, cancel, done, mailbox, stq, uiq, todo, answer, cached, hid, ui, worker,
                   count, dead, stored>>

\* A mutant of Finished: the last batch is acknowledged once it is queued.
FinishedEarly == msc.left = 0

\* The last batch of a write has come back from the worker.
Finished == msc.left = 0 /\ msc.batch = "ready" /\ Good

\* The host is told that its write succeeded.
Acknowledge ==
    /\ Transferring /\ msc.write /\ ~Outdated /\ Finished
    /\ breach' = breach \cup (IF stored = Batches THEN {} ELSE {"acknowledgement"})
    /\ scratch' = Wiped
    /\ msc' = NoCommand
    /\ UNCHANGED <<inval, pub, maint, busy, cancel, done, mailbox, queues, todo, answer, cached, pending, hid, ui, worker,
                   count, dead, stored>>
-----------------------------------------------------------------------------
(* Core 0: the FIDO transport (fido_adapter.c; hid.c abstracted to requests) *)

HostRequest(private) ==
    /\ todo = <<>> /\ hid.st = "idle" /\ hid.tx.left = 0 /\ ~hid.discard
    /\ count.inputs < MaxInputs /\ count.requests < MaxRequests
    /\ count' = [count EXCEPT !.inputs = @ + 1, !.requests = @ + 1]
    /\ hid' = [hid EXCEPT !.st = "pending", !.private = private, !.cancelled = FALSE]
    /\ UNCHANGED <<inval, pub, maint, busy, cancel, done, mailbox, queues, scratch, storage, ui, worker, dead, breach, stored>>

\* tud_hid_set_report_cb with CANCEL for the request in progress.
HostCancel ==
    /\ todo = <<>> /\ hid.st # "idle" /\ ~hid.discard /\ ~hid.cancelled
    /\ hid' = [hid EXCEPT !.cancelled = TRUE]
    /\ cancel' = TRUE
    /\ UNCHANGED <<inval, pub, maint, busy, done, mailbox, queues, scratch, storage, ui, worker, history>>

\* fv_fido_poll after fv_fido_disconnect: a request in flight is discarded later.
Lost ==
    /\ todo = <<>> /\ hid.lost
    /\ hid' = IF busy THEN [hid EXCEPT !.lost = FALSE, !.discard = TRUE] ELSE QuietHid
    /\ UNCHANGED <<inval, pub, maint, busy, cancel, done, mailbox, queues, scratch, storage, ui, worker, history>>

\* A mutant of CancelLocks: only the worker's own check locks.
CancelNeverLocks == FALSE

\* A CANCEL that came after the worker published its answer still ends the session.
CancelLocks == cancel /\ fido.locks /\ fido.gen = pub

\* fv_fido_poll acquires the worker's answer.
Done ==
    /\ todo = <<>> /\ done
    /\ done' = FALSE
    /\ hid' = [hid EXCEPT !.cancelled = @ \/ cancel \/ inval \/ fido.gen # pub]
    /\ busy' = ~cancel
    /\ todo' = (IF CancelLocks THEN <<Do("rpc", "lock")>> ELSE <<>>)
               \o (IF fido.unlocked /\ fido.gen = pub /\ ~inval /\ ~CancelLocks THEN <<>> ELSE <<Do("clear", "forget")>>)
               \o <<Do("reply", "none")>>
    /\ UNCHANGED <<inval, pub, maint, cancel, mailbox, queues, scratch, answer, cached, pending, msc, ui, worker, history>>

\* The end of that block: the reply goes to the channel, or is discarded.
Reply ==
    /\ todo # <<>> /\ Head(todo).do = "reply"
    /\ hid' = IF hid.discard THEN [QuietHid EXCEPT !.lost = hid.lost]
              ELSE [hid EXCEPT !.st = "idle", !.cancelled = FALSE,
                               !.tx = IF hid.cancelled THEN [NoReply EXCEPT !.left = 1]
                                      ELSE [scoped |-> TRUE, private |-> fido.output, gen |-> fido.gen, from |-> fido.from,
                                            left |-> IF fido.output THEN Reports ELSE 1]]
    /\ breach' = breach \cup (IF hid.cancelled /\ fido.locks /\ Live(fido.gen) THEN {"cancel"} ELSE {})
    /\ busy' = FALSE
    /\ fido' = NoFido
    /\ todo' = <<>>
    /\ UNCHANGED <<inval, pub, maint, cancel, done, mailbox, queues, scratch, answer, cached, pending, msc, ui, wpc, ses, job,
                   count, dead, stored>>

\* A request goes to the worker, or is denied because the screen is in use.
Start ==
    /\ todo = <<>> /\ ~hid.discard /\ hid.st = "pending"
    /\ ~busy /\ ~maint /\ (pending => stq # <<>>) /\ cmdq = <<>>
    /\ \/ /\ hid.private
          /\ hid' = [hid EXCEPT !.st = "idle", !.cancelled = FALSE, !.tx = [NoReply EXCEPT !.left = 1]]
          /\ UNCHANGED <<busy, cancel, cmdq>>
       \/ /\ hid.private => ui.st = "idle"
          /\ hid' = [hid EXCEPT !.st = "processing"]
          /\ cancel' = hid.cancelled
          /\ busy' = TRUE
          /\ cmdq' = <<[NoJob EXCEPT !.op = "fido"]>>
    /\ UNCHANGED <<inval, pub, maint, done, mailbox, stq, uiq, scratch, storage, ui, worker, history>>

\* A mutant of Revoked: only a bus event withdraws a reply.
RevokedByBus == hid.tx.scoped /\ inval

\* The session of a reply ended before its last fragment was sent.
Revoked == hid.tx.scoped /\ (hid.tx.gen # pub \/ inval)

SendReport ==
    /\ todo = <<>> /\ hid.tx.left > 0 /\ ~hid.discard
    /\ IF Revoked
       THEN hid' = [hid EXCEPT !.tx = NoReply] /\ UNCHANGED breach
       ELSE /\ hid' = IF hid.tx.left = 1 THEN [hid EXCEPT !.tx = NoReply] ELSE [hid EXCEPT !.tx.left = @ - 1]
            /\ breach' = breach \cup (IF hid.tx.private /\ ~Live(hid.tx.from) THEN {"fragment"} ELSE {})
    /\ UNCHANGED <<inval, pub, maint, busy, cancel, done, mailbox, queues, scratch, storage, ui, worker, count, dead, stored>>

-----------------------------------------------------------------------------
(* Core 0: prompts and jobs of the user interface *)

\* fv_fido_ui_poll, state 1: shown, or refused when the screen is in use.
PromptShow(show) ==
    /\ todo = <<>> /\ prompt = 1
    /\ show => ui.st = "idle"
    /\ ui' = IF show THEN [ui EXCEPT !.st = "modal"] ELSE ui
    /\ prompt' = IF show THEN 2 ELSE 3
    /\ approved' = FALSE
    /\ UNCHANGED <<inval, pub, maint, busy, cancel, done, abort, queues, scratch, storage, hid, worker, history>>

\* State 2: the user answers, or the worker has asked for an end.
UserAnswers(ok) ==
    /\ todo = <<>> /\ prompt = 2
    /\ prompt' = 3 /\ approved' = (ok /\ ~abort)
    /\ UNCHANGED <<inval, pub, maint, busy, cancel, done, abort, queues, scratch, storage, hid, ui, worker, history>>

PromptAborted ==
    /\ todo = <<>> /\ prompt = 2 /\ abort
    /\ prompt' = 3 /\ approved' = FALSE
    /\ UNCHANGED <<inval, pub, maint, busy, cancel, done, abort, queues, scratch, storage, hid, ui, worker, history>>

\* State 4: the modal is closed, which submits a status job.
PromptDismiss ==
    /\ todo = <<>> /\ prompt = 4
    /\ prompt' = 0 /\ abort' = FALSE /\ approved' = FALSE
    /\ ui' = IF ui.st = "modal" THEN [ui EXCEPT !.st = "pending", !.op = "uistatus", !.mode = "locked"] ELSE ui
    /\ UNCHANGED <<inval, pub, maint, busy, cancel, done, queues, scratch, storage, hid, worker, history>>

UiChoose(op, mode) ==
    /\ todo = <<>> /\ ui.st = "idle" /\ count.inputs < MaxInputs
    /\ count' = [count EXCEPT !.inputs = @ + 1]
    /\ ui' = [ui EXCEPT !.st = "pending", !.op = op, !.mode = mode]
    /\ UNCHANGED <<inval, pub, maint, busy, cancel, done, mailbox, queues, scratch, storage, hid, worker, dead, breach, stored>>

\* fv_ui_cancel: a job not yet handed over is replaced by a status query.
UiRefresh ==
    /\ todo = <<>> /\ ui.refresh /\ ui.st \in {"idle", "pending"}
    /\ ui' = [st |-> "pending", op |-> "uistatus", mode |-> "locked", refresh |-> FALSE]
    /\ UNCHANGED <<inval, pub, maint, busy, cancel, done, mailbox, queues, scratch, storage, hid, worker, history>>

\* fv_device_ui_poll hands a job over; every job but a status query first
\* stops the transport.
UiStart ==
    /\ todo = <<>> /\ ui.st = "pending" /\ ~busy
    /\ todo' = (IF ui.op = "uistatus" THEN <<>> ELSE <<Do("clear", "forget")>>) \o <<Do("post", "none")>>
    /\ UNCHANGED <<inval, pub, maint, busy, cancel, done, mailbox, queues, scratch, answer, cached, pending, msc, hid, ui,
                   worker, history>>

Post ==
    /\ todo # <<>> /\ Head(todo).do = "post"
    /\ maint' = TRUE
    /\ IF cmdq = <<>>
       THEN cmdq' = <<[op |-> ui.op, gen |-> 0, mode |-> ui.mode]>> /\ ui' = [ui EXCEPT !.st = "waiting"]
       ELSE UNCHANGED <<cmdq, ui>>
    /\ todo' = <<>>
    /\ UNCHANGED <<inval, pub, busy, cancel, done, mailbox, stq, uiq, scratch, answer, cached, pending, msc, hid, worker, history>>

UiResult ==
    /\ todo = <<>> /\ uiq # <<>>
    /\ uiq' = <<>>
    /\ todo' = (IF Head(uiq) = "locked" THEN <<Do("clear", "forget")>> ELSE <<>>) \o <<Do("completed", "none")>>
    /\ UNCHANGED <<inval, pub, maint, busy, cancel, done, mailbox, cmdq, stq, scratch, answer, cached, pending, msc, hid, ui,
                   worker, history>>

Completed ==
    /\ todo # <<>> /\ Head(todo).do = "completed"
    /\ maint' = FALSE
    /\ ui' = [ui EXCEPT !.st = "idle", !.op = "none", !.mode = "locked"]
    /\ todo' = <<>>
    /\ UNCHANGED <<inval, pub, busy, cancel, done, mailbox, queues, scratch, answer, cached, pending, msc, hid, worker, history>>
-----------------------------------------------------------------------------
(* The worker: locking *)

\* usb_lock, n times: each publishes the next generation, and a FIDO request
\* in execution learns that its session is gone.
Executing == fido.at \notin {"none", "captured"}
LockTimes(n) ==
    /\ ses' = IF n = 0 THEN ses ELSE [gen |-> ses.gen + n, mode |-> "locked"]
    /\ pub' = IF n = 0 THEN pub ELSE ses.gen + n
Cut(n) == IF n > 0 /\ Executing THEN [fido EXCEPT !.cut = TRUE] ELSE fido

\* A mutant of Free: a prompt does not pump storage commands.
FreeIdle == wpc = "idle" /\ fido.at = "none"

\* The worker takes a command when idle, and a FIDO prompt pumps storage commands.
Free == wpc = "idle" /\ fido.at \in {"none", "ask", "dismiss"}

\* The session timer expires at one of the worker's polls.
Expire ==
    /\ wpc = "idle" /\ ses.mode # "locked" /\ count.events < MaxEvents
    /\ count' = [count EXCEPT !.events = @ + 1]
    /\ LockTimes(1)
    /\ fido' = Cut(1)
    /\ ui' = [ui EXCEPT !.refresh = TRUE]
    /\ UNCHANGED <<inval, maint, busy, cancel, done, mailbox, queues, scratch, storage, hid, wpc, job, dead, breach, stored>>

-----------------------------------------------------------------------------
(* The worker: storage commands (fv_usb_storage_execute, fv_usb_vault_io) *)

Serves(c) == Files(ses.mode) /\ c.gen = ses.gen /\ (c.op = "write" => Writable(ses.mode))

StorageTake ==
    /\ Free /\ cmdq # <<>> /\ Head(cmdq).op \in {"lock", "status", "read", "write"} /\ stq = <<>>
    /\ cmdq' = <<>>
    /\ LET c == Head(cmdq)
           n == (IF inval THEN 1 ELSE 0) + (IF c.op = "lock" THEN 1 ELSE 0)
           serve == c.op \in {"read", "write"} /\ ~inval /\ Serves(c)
       IN /\ LockTimes(n) /\ fido' = Cut(n)
          /\ wpc' = IF serve THEN "io" ELSE "idle"
          /\ job' = IF serve THEN c ELSE NoJob
          /\ stq' = IF serve THEN <<>> ELSE <<Response(c.op \in {"lock", "status"}, ses')>>
    /\ UNCHANGED <<inval, maint, busy, cancel, done, mailbox, uiq, scratch, storage, hid, ui, history>>

\* The batch is transferred.  A failed one stops the medium; an expiry found
\* afterwards wipes the plaintext and fails the batch too.
Transfer(outcome) ==
    /\ wpc = "io"
    /\ outcome # "ok" => count.events < MaxEvents
    /\ count' = [count EXCEPT !.events = IF outcome = "ok" THEN @ ELSE @ + 1]
    /\ scratch' = CASE outcome = "expired" -> Wiped
                    [] outcome = "ok" /\ job.op = "read" -> Plain(ses.gen)
                    [] OTHER -> scratch
    /\ stored' = IF outcome # "fault" /\ job.op = "write" /\ scratch = HostData THEN stored + 1 ELSE stored
    /\ LockTimes(IF outcome = "ok" THEN 0 ELSE 1) /\ fido' = Cut(IF outcome = "ok" THEN 0 ELSE 1)
    /\ ui' = IF outcome = "expired" THEN [ui EXCEPT !.refresh = TRUE] ELSE ui
    /\ stq' = <<Response(outcome = "ok", ses')>>
    /\ wpc' = "idle" /\ job' = NoJob
    /\ UNCHANGED <<inval, maint, busy, cancel, done, mailbox, cmdq, uiq, storage, hid, dead, breach>>

-----------------------------------------------------------------------------
(* The worker: jobs of the user interface (fv_device_ui_execute) *)

UiOps == {"uistatus", "uilock", "unlock", "change"}

\* The checks before any work, and the jobs that end there.  "change" stands
\* for the administrative jobs, which all lock the session first.
UiTake ==
    /\ wpc = "idle" /\ fido.at = "none" /\ cmdq # <<>> /\ Head(cmdq).op \in UiOps /\ uiq = <<>>
    /\ cmdq' = <<>>
    /\ LET c == Head(cmdq)
           mode == IF inval THEN "locked" ELSE ses.mode
           denied == \/ inval /\ c.op \in {"unlock", "change"}
                     \/ c.op = "change" /\ ~Admin(mode)
                     \/ c.op = "unlock" /\ mode # "locked"
           n == (IF inval THEN 1 ELSE 0) + (IF ~denied /\ c.op # "uistatus" THEN 1 ELSE 0)
           derives == c.op = "unlock" /\ ~denied
       IN /\ LockTimes(n)
          /\ wpc' = IF derives THEN "derive" ELSE "idle"
          /\ job' = IF derives THEN c ELSE NoJob
          /\ uiq' = IF derives THEN <<>> ELSE <<ses'.mode>>
    /\ UNCHANGED <<inval, maint, busy, cancel, done, mailbox, stq, scratch, storage, hid, ui, fido, history>>

\* fv_session_unlock, then the new generation is published.
Derive(ok) ==
    /\ wpc = "derive"
    /\ ses' = [gen |-> ses.gen + 1, mode |-> IF ok THEN job.mode ELSE "locked"]
    /\ pub' = ses.gen + 1
    /\ wpc' = IF ok THEN "opened" ELSE "idle"
    /\ job' = NoJob
    /\ uiq' = IF ok THEN <<>> ELSE <<"locked">>
    /\ UNCHANGED <<inval, maint, busy, cancel, done, mailbox, cmdq, stq, scratch, storage, hid, ui, fido, history>>

\* The bus event that came during the derivation locks the new session.
Survives == ~inval

Opened ==
    /\ wpc = "opened"
    /\ LockTimes(IF Survives THEN 0 ELSE 1)
    /\ uiq' = <<ses'.mode>>
    /\ wpc' = "idle"
    /\ UNCHANGED <<inval, maint, busy, cancel, done, mailbox, cmdq, stq, scratch, storage, hid, ui, job, fido, history>>

-----------------------------------------------------------------------------
(* The worker: a FIDO request (fv_fido_execute, verify, ask) *)

Cancelled == cancel \/ fido.cut \/ inval
FidoSame == UNCHANGED <<inval, maint, busy, queues, scratch, storage, hid, ui, wpc, job, history>>

\* The checks before any prompt; a request that needs no prompt goes on.
FidoTake ==
    /\ wpc = "idle" /\ fido.at = "none" /\ cmdq # <<>> /\ Head(cmdq).op = "fido"
    /\ cmdq' = <<>>
    /\ LET owns == hid.private /\ ~inval /\ (ses.mode = "locked" \/ Fido(ses.mode))
           goes == owns /\ ~cancel
       IN \E at \in {"ask", "engine", "finish"}, secret \in BOOLEAN :
          /\ ~goes => at = "finish"
          /\ at = "engine" => ses.mode # "locked"
          /\ at = "ask" /\ ses.mode = "locked" => secret
          /\ at # "ask" => ~secret
          /\ fido' = [NoFido EXCEPT !.at = at, !.secret = secret, !.locks = owns]
          /\ IF at = "ask" THEN prompt' = 1 /\ abort' = FALSE ELSE UNCHANGED <<prompt, abort>>
    /\ UNCHANGED <<inval, pub, maint, busy, cancel, done, approved, stq, uiq, scratch, storage, hid, ui, wpc, ses, job, history>>

\* ask: a cancelled request and one minute without an answer end the prompt.
AskAbort ==
    /\ wpc = "idle" /\ fido.at = "ask" /\ prompt # 3 /\ ~abort
    /\ abort' = TRUE
    /\ UNCHANGED <<pub, cancel, done, prompt, approved, ses, fido>> /\ FidoSame

\* The answer is read once the last command queued before it has been pumped.
AskAnswered ==
    /\ wpc = "idle" /\ fido.at = "ask" /\ prompt = 3 /\ cmdq = <<>>
    /\ fido' = [fido EXCEPT !.at = "dismiss", !.ok = approved /\ ~Cancelled]
    /\ prompt' = 4
    /\ UNCHANGED <<pub, cancel, done, abort, approved, ses>> /\ FidoSame

AskDismissed ==
    /\ wpc = "idle" /\ fido.at = "dismiss" /\ prompt = 0
    /\ fido' = [fido EXCEPT !.at = IF ~fido.ok THEN "finish" ELSE IF fido.secret THEN "verify" ELSE "engine"]
    /\ UNCHANGED <<pub, cancel, done, mailbox, ses>> /\ FidoSame

\* fv_fido_verify_secret: a locked vault is opened for passkeys only, an open
\* one checks the secret; a wrong secret locks.
Verify(ok) ==
    /\ wpc = "idle" /\ fido.at = "verify"
    /\ IF inval \/ (ses.mode # "locked" /\ ~Fido(ses.mode))
       THEN LockTimes(IF inval THEN 1 ELSE 0) /\ fido' = [Cut(IF inval THEN 1 ELSE 0) EXCEPT !.at = "finish"]
       ELSE IF ok
       THEN /\ ses' = IF ses.mode = "locked" THEN [gen |-> ses.gen + 1, mode |-> "passkeys"] ELSE ses
            /\ pub' = ses'.gen
            /\ fido' = [fido EXCEPT !.at = "verified"]
       ELSE LockTimes(2) /\ fido' = [Cut(2) EXCEPT !.at = "finish"]
    /\ UNCHANGED <<cancel, done, mailbox>> /\ FidoSame

Verified ==
    /\ wpc = "idle" /\ fido.at = "verified"
    /\ LockTimes(IF Survives THEN 0 ELSE 1)
    /\ fido' = [Cut(IF Survives THEN 0 ELSE 1) EXCEPT !.at = IF Cancelled THEN "finish" ELSE "engine"]
    /\ UNCHANGED <<cancel, done, mailbox>> /\ FidoSame

\* The engine, which produces private output only in an authorised session.
Engine(output) ==
    /\ wpc = "idle" /\ fido.at = "engine"
    /\ output => ~inval /\ Fido(ses.mode)
    /\ fido' = [fido EXCEPT !.at = "finish", !.output = output, !.from = ses.gen]
    /\ UNCHANGED <<pub, cancel, done, mailbox, ses>> /\ FidoSame

\* finish: the output of a cancelled request is wiped, then the generation is
\* captured.
Finish ==
    /\ wpc = "idle" /\ fido.at = "finish"
    /\ fido' = [fido EXCEPT !.at = "captured", !.output = @ /\ ~Cancelled, !.gen = pub]
    /\ UNCHANGED <<pub, cancel, done, mailbox, ses>> /\ FidoSame

\* A cancelled request ends the session it used; then the answer is published.
Publish ==
    /\ wpc = "idle" /\ fido.at = "captured"
    /\ LockTimes(IF inval \/ (cancel /\ fido.locks) THEN 1 ELSE 0)
    /\ fido' = [fido EXCEPT !.at = "none", !.unlocked = ses'.mode # "locked"]
    /\ done' = TRUE
    /\ UNCHANGED <<cancel, mailbox>> /\ FidoSame

-----------------------------------------------------------------------------
(* The two cores, the host and the user *)

Core0 ==
    \/ WaitBatch \/ Rpc \/ Clear \/ Send \/ Await \/ StoragePoll \/ Begun
    \/ Harvest \/ TransferError \/ StartBatch \/ Deliver \/ Acknowledge
    \/ Lost \/ Done \/ Reply \/ Start \/ SendReport
    \/ \E show \in BOOLEAN : PromptShow(show)
    \/ PromptAborted \/ PromptDismiss
    \/ UiRefresh \/ UiStart \/ Post \/ UiResult \/ Completed

Worker ==
    \/ StorageTake \/ UiTake \/ FidoTake
    \/ \E outcome \in {"ok", "fault", "expired"} : Transfer(outcome)
    \/ \E ok \in BOOLEAN : Derive(ok) \/ Verify(ok) \/ Engine(ok)
    \/ Opened \/ AskAbort \/ AskAnswered \/ AskDismissed \/ Verified \/ Finish \/ Publish

Environment ==
    \/ BusEvent \/ Expire \/ Eject \/ HostCancel
    \/ \E op \in {"read", "write"} : Begin(op)
    \/ \E private \in BOOLEAN : HostRequest(private)
    \/ \E ok \in BOOLEAN : UserAnswers(ok)
    \/ \E mode \in Choices : UiChoose("unlock", mode)
    \/ \E op \in {"uilock", "change"} : UiChoose(op, "locked")

Next == Core0 \/ Worker \/ Environment

\* Each core keeps running its loop; hosts, users and timers promise nothing.
Spec == Init /\ [][Next]_vars /\ WF_vars(Core0) /\ WF_vars(Worker)

-----------------------------------------------------------------------------
(* Properties *)

\* Nothing of an ended session reaches the host: neither a batch of plaintext
\* nor a fragment of a FIDO reply is sent once a bus event, an expiry or a lock
\* has ended the session it came from (transfer, fv_fido_poll).
DeadStaysSilent == breach \cap {"plaintext", "fragment"} = {}

\* A write the host was told succeeded is in the vault, every batch of it, even
\* when sessions, FIDO requests and bus events come between its batches (the
\* comment at final_write in transfer).
AckedWritten == "acknowledgement" \notin breach

\* When the host reads that its request was cancelled, the session that the
\* request used is over, also when CANCEL raced the end of the request
\* (fv_fido_execute, fv_fido_poll).
CancelledSessionOver == "cancel" \notin breach

\* Core 0 never changes the batch buffer between the moment it queues a batch
\* and the worker's answer (clear_pipeline, transfer).
BufferOwned == [][pending /\ stq = <<>> /\ scratch' # scratch => wpc = "io" /\ wpc' = "idle"]_vars

\* Core 0 always gets back to its loop, in particular it does not wait for a
\* worker that waits for core 0 to answer a prompt (transact, ask,
\* fv_fido_pump), and a session that a bus event ended is always locked in the
\* end, whatever either core was doing (fv_usb_storage_poll, Opened, Publish).
Settles == []<>(todo = <<>> /\ ~(ses.mode # "locked" /\ ses.gen \in dead))
=============================================================================
