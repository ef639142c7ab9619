----------------------------- MODULE LegacyProbe -----------------------------
(***************************************************************************)
(* The CTAPHID transport of the first-generation firmware (fido_probe.c    *)
(* under rp2354_usb_msc.c).  Unlike its successor (FidoHid) it keeps the   *)
(* reports that arrive between two passes of the main loop in a queue,     *)
(* runs a request inside the pass that completed it, takes the reports     *)
(* that arrive meanwhile past the queue, and never gives a channel to      *)
(* another program.                                                        *)
(*                                                                         *)
(* A message is its author and number, cut into pieces, one per report.    *)
(* Programs on the host follow CTAP, as in FidoHid.  Time is not followed. *)
(***************************************************************************)
EXTENDS Integers, Sequences, FiniteSets

CONSTANTS Programs,       \* programs on the host
          ProbeChannels,  \* channels the probe can give away (4)
          QueueSize,      \* reports the queue takes (8)
          Pieces,         \* bound: reports of a message
          MaxReports,     \* bound: reports sent by the host
          MaxDetaches     \* bound: the interface goes away and comes back

ASSUME ProbeBounds == {ProbeChannels, QueueSize, Pieces, MaxReports, MaxDetaches} \subseteq Nat

VARIABLES probe,      \* fv_fido_probe_t
          queue,      \* reports[], report_head, report_count
          overflow,   \* report_overflow
          programs,   \* the programs on the host
          counts,     \* [sent, detaches]
          mistaken    \* a program took an answer that was not its own

pvars == <<probe, queue, overflow, programs, counts, mistaken>>

Nobody == [by |-> "nobody", n |-> 0]
ToAll == -1
NoReply == [cid |-> 0, cmd |-> "none", of |-> Nobody, gives |-> 0, left |-> 0]

\* fv_fido_probe_reset
ProbeReset ==
  [channels |-> {}, active |-> 0, cmd |-> "none", size |-> 0, rx |-> <<>>, seq |-> 0,
   receiving |-> FALSE, reply |-> NoReply, processing |-> FALSE, cancelled |-> FALSE,
   resync |-> Nobody, control |-> 0]
NewProgram == [st |-> "new", cid |-> 0, n |-> 0, size |-> 0, sent |-> 0, failed |-> FALSE]

PInit ==
  /\ probe = ProbeReset /\ queue = <<>> /\ overflow = FALSE
  /\ programs = [c \in Programs |-> NewProgram]
  /\ counts = [sent |-> 0, detaches |-> 0] /\ mistaken = FALSE
----------------------------------------------------------------------------
Replying(p) == p.reply.left > 0
ReplyWith(p, cid, cmd, of, n) ==
  [p EXCEPT !.reply = [cid |-> cid, cmd |-> cmd, of |-> of, gives |-> 0, left |-> n]]
ErrorTo(p, cid) == ReplyWith(p, cid, "error", Nobody, 1)
Drop(p) == [p EXCEPT !.receiving = FALSE, !.rx = <<>>]
Sender(p) == p.rx[1].of

\* complete, up to the dispatch of a request
CompleteRequest(p) ==
  IF p.cmd = "ping" THEN ReplyWith(Drop(p), p.active, "ping", Sender(p), p.size)
  ELSE [p EXCEPT !.receiving = FALSE, !.processing = TRUE, !.cancelled = FALSE,
                 !.resync = Nobody]

\* complete, once the engine has answered with n reports
Dispatched(p, n) ==
  LET q == [Drop(p) EXCEPT !.processing = FALSE]
  IN IF p.resync # Nobody
     THEN [ReplyWith(q, p.active, "init", p.resync, 1) EXCEPT !.reply.gives = p.active]
     ELSE ReplyWith(q, p.active, "cbor", Sender(p), IF p.cancelled THEN 1 ELSE n)

\* fv_fido_probe_receive while a request is processed
WhileProcessing(p, r) ==
  CASE r.cmd = "cancel" -> [p EXCEPT !.cancelled = @ \/ r.cid = p.active]
    [] r.cmd = "init" /\ r.cid = p.active ->
         [p EXCEPT !.cancelled = TRUE, !.resync = r.of]
    [] r.cmd \notin {"cancel", "cont"} /\ ~(r.cmd = "init" /\ r.cid = p.active) ->
         [p EXCEPT !.control = IF @ = 0 THEN r.cid ELSE @]
    [] OTHER -> p

\* INIT: a new channel while there is one left
OpenChannel(p, r) ==
  LET new == r.cid = ToAll
      cid == IF new THEN Cardinality(p.channels) + 1 ELSE r.cid
  IN IF (p.receiving /\ r.cid # p.active) \/ (new /\ cid > ProbeChannels)
     THEN ErrorTo(p, r.cid)
     ELSE [ReplyWith(Drop([p EXCEPT !.channels = @ \cup {cid}]), r.cid, "init", r.of, 1)
             EXCEPT !.reply.gives = cid]

TakePiece(p, r) ==
  LET q == [p EXCEPT !.rx = Append(@, [of |-> r.of, at |-> r.at])]
  IN IF Len(q.rx) = q.size THEN CompleteRequest(q) ELSE q

FirstPiece(p, r) ==
  IF p.receiving \/ r.cmd = "bad" THEN ErrorTo(p, r.cid)
  ELSE TakePiece([p EXCEPT !.active = r.cid, !.cmd = r.cmd, !.size = r.size, !.rx = <<>>,
                           !.seq = 0, !.receiving = TRUE], r)

NextPiece(p, r) ==
  IF ~p.receiving THEN p
  ELSE IF r.seq # p.seq THEN ErrorTo(Drop(p), r.cid)
  ELSE TakePiece([p EXCEPT !.seq = @ + 1], r)

\* Mutant: the channel of a continuation is not looked at.
IntruderFirst(p, r) == p.receiving /\ r.cmd # "cont" /\ r.cid # p.active

\* A report of another channel than that of the message in reception.
Intruder(p, r) == p.receiving /\ r.cid # p.active

\* fv_fido_probe_receive
ProbeReceive(p, r) ==
  CASE p.processing -> WhileProcessing(p, r)
    [] ~p.processing /\ Replying(p) -> p
    [] OTHER ->
         IF r.cid = 0 \/ (r.cid = ToAll /\ r.cmd # "init")
              \/ (r.cid # ToAll /\ r.cid \notin p.channels) THEN ErrorTo(p, r.cid)
         ELSE IF r.cmd = "init" THEN OpenChannel(p, r)
         ELSE IF r.cmd = "cancel" THEN (IF r.cid = p.active THEN Drop(p) ELSE p)
         ELSE IF Intruder(p, r) THEN ErrorTo(p, r.cid)
         ELSE IF r.cmd = "cont" THEN NextPiece(p, r) ELSE FirstPiece(p, r)

\* fv_fido_probe_tick, when three seconds have passed since the last piece
ProbeTick(p) == IF p.receiving /\ ~Replying(p) THEN ErrorTo(Drop(p), p.active) ELSE p
----------------------------------------------------------------------------
(* The interface: fv_rp2354_usb_task_at, fv_rp2354_usb_fido_poll.          *)

\* One report of the queue, or none while an answer is not sent; late: the
\* message in reception had already timed out when the report came.
DrainReport ==
  /\ ~overflow /\ ~probe.processing /\ ~Replying(probe) /\ queue # <<>>
  /\ \E late \in BOOLEAN :
       LET p == IF late THEN ProbeTick(probe) ELSE probe
       IN /\ late => p # probe
          /\ IF Replying(p) THEN probe' = p /\ UNCHANGED queue
             ELSE probe' = ProbeReceive(p, Head(queue)) /\ queue' = Tail(queue)
  /\ UNCHANGED <<overflow, programs, counts, mistaken>>

TimeOut ==
  /\ ~overflow /\ ~probe.processing /\ queue = <<>>
  /\ probe' = ProbeTick(probe) /\ probe' # probe
  /\ UNCHANGED <<queue, overflow, programs, counts, mistaken>>

\* The engine returns; the interface polled the bus meanwhile.
EngineAnswers ==
  /\ probe.processing /\ probe' = Dispatched(probe, 2)
  /\ UNCHANGED <<queue, overflow, programs, counts, mistaken>>

\* What a program makes of a report of the device.
Hears(c, r) ==
  LET k == programs[c]
  IN CASE r.cmd = "init" /\ k.st = "opening" /\ r.of = [by |-> c, n |-> k.n] ->
            [k EXCEPT !.st = "ready", !.cid = r.gives]
       [] r.cmd = "error" /\ k.cid = r.cid /\ k.st = "waiting" -> [k EXCEPT !.st = "opening"]
       [] r.cmd = "error" /\ k.cid = r.cid /\ k.st = "sending" -> [k EXCEPT !.failed = TRUE]
       [] r.cmd \in {"ping", "cbor"} /\ k.cid = r.cid /\ k.st = "waiting" /\ r.left = 1 ->
            [k EXCEPT !.st = "ready"]
       [] OTHER -> k
Mistakes(c, r) ==
  LET k == programs[c]
  IN /\ r.cmd \in {"ping", "cbor"} /\ r.cid = k.cid
     /\ \/ k.st \in {"ready", "sending"}
        \/ k.st = "waiting" /\ r.of # [by |-> c, n |-> k.n]

\* The control report of fv_fido_probe_receive, sent before any answer.
HasControl(p) == p.control # 0

\* fv_fido_probe_peek and fv_fido_probe_sent
SendToHost ==
  /\ ~overflow /\ (HasControl(probe) \/ Replying(probe))
  /\ LET r == IF HasControl(probe)
              THEN [NoReply EXCEPT !.cid = probe.control, !.cmd = "error", !.left = 1]
              ELSE probe.reply
     IN /\ probe' = IF HasControl(probe) THEN [probe EXCEPT !.control = 0]
                    ELSE IF r.left = 1 THEN [probe EXCEPT !.reply = NoReply]
                    ELSE [probe EXCEPT !.reply.left = @ - 1]
        /\ programs' = [c \in Programs |-> Hears(c, r)]
        /\ mistaken' = (mistaken \/ \E c \in Programs : Mistakes(c, r))
  /\ UNCHANGED <<queue, overflow, counts>>

\* tud_hid_set_report_cb: past the queue while a request is processed
FromHost(r) ==
  /\ ~overflow /\ counts.sent < MaxReports
  /\ counts' = [counts EXCEPT !.sent = @ + 1]
  /\ IF probe.processing THEN probe' = ProbeReceive(probe, r) /\ UNCHANGED <<queue, overflow>>
     ELSE IF Len(queue) = QueueSize THEN overflow' = TRUE /\ UNCHANGED <<queue, probe>>
     ELSE queue' = Append(queue, r) /\ UNCHANGED <<overflow, probe>>
  /\ UNCHANGED mistaken

\* fv_rp2354_usb_msc_detach, of its own accord or after an overflow, and the
\* next fv_rp2354_usb_fido_attach; no program survives it
Reattach ==
  /\ ~probe.processing /\ counts.detaches < MaxDetaches
  /\ counts' = [counts EXCEPT !.detaches = @ + 1]
  /\ probe' = ProbeReset /\ queue' = <<>> /\ overflow' = FALSE
  /\ programs' = [c \in Programs |-> [NewProgram EXCEPT !.n = programs[c].n]]
  /\ UNCHANGED mistaken
----------------------------------------------------------------------------
ReportOf(c, n, cid, cmd) ==
  [cid |-> cid, cmd |-> cmd, of |-> [by |-> c, n |-> n], at |-> 1, size |-> 1, seq |-> 0]

\* INIT with a new nonce, for a channel or to resynchronise one.
AskChannel(c) ==
  LET n == programs[c].n + 1
  IN /\ programs[c].st \in {"new", "opening", "sending", "waiting"}
     /\ \E cid \in {ToAll, programs[c].cid} \ {0} :
          /\ programs' = [programs EXCEPT ![c] =
                [NewProgram EXCEPT !.st = "opening", !.n = n,
                                   !.cid = IF cid = ToAll THEN 0 ELSE cid]]
          /\ FromHost(ReportOf(c, n, cid, "init"))
SendRequest(c) ==
  LET n == programs[c].n + 1
  IN /\ programs[c].st = "ready"
     /\ \E cmd \in {"ping", "cbor"}, size \in 1..Pieces :
          /\ programs' = [programs EXCEPT ![c].n = n, ![c].size = size, ![c].sent = 1,
                            ![c].failed = FALSE,
                            ![c].st = IF size = 1 THEN "waiting" ELSE "sending"]
          /\ FromHost([ReportOf(c, n, programs[c].cid, cmd) EXCEPT !.size = size])
SendRest(c) ==
  LET k == programs[c]
  IN /\ k.st = "sending"
     /\ programs' = [programs EXCEPT ![c].sent = @ + 1,
                       ![c].st = IF k.sent + 1 < k.size THEN @
                                 ELSE IF k.failed THEN "opening" ELSE "waiting"]
     /\ FromHost([ReportOf(c, k.n, k.cid, "cont") EXCEPT !.at = k.sent + 1, !.seq = k.sent - 1])
Cancels(c) ==
  /\ programs[c].st = "waiting" /\ UNCHANGED programs
  /\ FromHost(ReportOf(c, programs[c].n, programs[c].cid, "cancel"))
SendUnknown(c) ==
  /\ programs[c].st = "ready" /\ programs' = [programs EXCEPT ![c].st = "opening"]
  /\ FromHost(ReportOf(c, programs[c].n, programs[c].cid, "bad"))

PNext ==
  \/ DrainReport \/ TimeOut \/ EngineAnswers \/ SendToHost \/ Reattach
  \/ \E c \in Programs : AskChannel(c) \/ SendRequest(c) \/ SendRest(c) \/ Cancels(c)
                           \/ SendUnknown(c)
PSpec == PInit /\ [][PNext]_pvars

\* The engine is given whole messages of one program, and no program takes the
\* answer to another message for its own, although reports that arrive during
\* a request overtake the ones that wait in the queue (tud_hid_set_report_cb).
ServesOwnRequests ==
  /\ probe.processing =>
       /\ Len(probe.rx) = probe.size
       /\ \A i \in 1..probe.size : probe.rx[i].at = i /\ probe.rx[i].of = Sender(probe)
  /\ ~mistaken
=============================================================================
