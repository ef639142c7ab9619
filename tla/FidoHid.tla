------------------------------ MODULE FidoHid ------------------------------
(***************************************************************************)
(* The CTAPHID transport: hid.c and the half of fido_adapter.c that hands  *)
(* requests to the worker.  Several programs on the host share one HID     *)
(* interface; their reports interleave, and the device drops every report  *)
(* that arrives while it transmits.                                        *)
(*                                                                         *)
(* A message is cut into pieces, one per report; its bytes are abstracted  *)
(* to the pair of its author and number.  The programs follow CTAP: one    *)
(* that gives a message up resynchronises its channel with INIT, or asks   *)
(* for a new channel; a program that ends never sends again, and none      *)
(* survives a reset of the bus.                                            *)
(***************************************************************************)
EXTENDS Integers, Sequences

CONSTANTS Clients,        \* programs on the host
          Slots,          \* channels the device remembers
          MaxPieces,      \* reports of the longest message
          Reports,        \* reports of an answer
          MaxSent,        \* bound on the reports sent by the host
          MaxResets       \* bound on resets of the bus

ASSUME HidBounds == {Slots, MaxPieces, Reports} \subseteq Nat \ {0} /\ {MaxSent, MaxResets} \subseteq Nat

VARIABLES
    d,          \* fv_fido_hid_t
    lost,       \* the bus was reset and fv_fido_poll has not seen it
    discard,    \* the answer in progress belongs to a lost bus
    work,       \* the message the worker executes
    scoped,     \* the reply in transmission ends with the session
    cl,         \* the programs
    count, wrong

vars == <<d, lost, discard, work, scoped, cl, count, wrong>>

Nothing == [by |-> "nobody", n |-> 0]
Broadcast == -1
Idle == [cid |-> 0, cmd |-> "none", of |-> Nothing, at |-> 0, left |-> 0]
NoControl == 0

\* fv_fido_hid_reset.
Fresh == [channels |-> [i \in 0 .. Slots - 1 |-> 0], next |-> 1, active |-> 0, cmd |-> "none", size |-> 0,
          rx |-> <<>>, seq |-> 0, receiving |-> FALSE, tx |-> Idle, processing |-> FALSE, pending |-> FALSE,
          cancelled |-> FALSE, resync |-> Nothing, control |-> NoControl]

NoClient == [st |-> "new", cid |-> 0, n |-> 0, size |-> 0, sent |-> 0, failed |-> FALSE]

Init ==
    /\ d = Fresh /\ lost = FALSE /\ discard = FALSE /\ work = Nothing /\ scoped = FALSE
    /\ cl = [c \in Clients |-> NoClient]
    /\ count = [sent |-> 0, resets |-> 0] /\ wrong = FALSE

-----------------------------------------------------------------------------
(* hid.c *)

Transmitting(h) == h.tx.left > 0

\* reply, error.
Replied(h, cid, cmd, of, n) == [h EXCEPT !.tx = [cid |-> cid, cmd |-> cmd, of |-> of, at |-> 0, left |-> n]]
Refused(h, cid) == Replied(h, cid, "error", Nothing, 1)

Known(h, cid) == cid \notin {0, Broadcast} /\ \E i \in 0 .. Slots - 1 : h.channels[i] = cid

\* Whose message is in rx.
Author(h) == [by |-> h.rx[1].by, n |-> h.rx[1].n]

Forgotten(h) == [h EXCEPT !.receiving = FALSE, !.rx = <<>>]

\* complete: a ping is echoed at once, a request waits for the worker.
Completed(h) ==
    IF h.cmd = "ping"
    THEN Replied(Forgotten(h), h.active, "ping", Author(h), h.size)
    ELSE [h EXCEPT !.receiving = FALSE, !.processing = TRUE, !.cancelled = FALSE, !.resync = Nothing,
                   !.pending = TRUE]

\* A report that arrives while a request is being processed.
Interrupted(h, r) ==
    IF r.cmd = "cancel" THEN [h EXCEPT !.cancelled = @ \/ r.cid = h.active]
    ELSE IF r.cid = h.active /\ r.cmd = "init" THEN [h EXCEPT !.cancelled = TRUE, !.resync = r.of]
    ELSE IF r.cmd # "cont" /\ h.control = NoControl THEN [h EXCEPT !.control = r.cid]
    ELSE h

\* INIT: a new channel takes a free slot or the oldest one.
FreeSlots(h) == {i \in 0 .. Slots - 1 : h.channels[i] = 0}
SlotFor(h) == IF FreeSlots(h) # {} THEN CHOOSE i \in FreeSlots(h) : \A j \in FreeSlots(h) : i <= j
              ELSE (h.next - 1) % Slots

Assigned(h) == h.next

Opened(h, r) ==
    IF h.receiving /\ r.cid # h.active THEN Refused(h, r.cid)
    ELSE LET new == r.cid = Broadcast
             cid == IF new THEN Assigned(h) ELSE r.cid
             g == IF new THEN [h EXCEPT !.channels[SlotFor(h)] = cid, !.next = @ + 1] ELSE h
         IN [Replied(Forgotten(g), r.cid, "init", r.of, 1) EXCEPT !.tx.at = cid]

\* One more piece of the message being received.
Taken(h, r) ==
    LET g == [h EXCEPT !.rx = Append(@, [by |-> r.of.by, n |-> r.of.n, at |-> r.at])]
    IN IF Len(g.rx) = g.size THEN Completed(g) ELSE g

Continued(h, r) ==
    IF ~h.receiving THEN h
    ELSE IF r.seq # h.seq THEN Refused(Forgotten(h), r.cid)
    ELSE Taken([h EXCEPT !.seq = @ + 1], r)

\* A report of the kind "bad" has a wrong length or an unknown command.
Begun(h, r) ==
    IF h.receiving \/ r.cmd = "bad" THEN Refused(h, r.cid)
    ELSE Taken([h EXCEPT !.active = r.cid, !.cmd = r.cmd, !.size = r.size, !.rx = <<>>, !.seq = 0,
                         !.receiving = TRUE], r)

\* A mutant of Foreign: only the first report of a message is checked.
ForeignFirst(h, r) == h.receiving /\ r.cid # h.active /\ r.cmd # "cont"

\* Another channel is in the middle of its message.
Foreign(h, r) == h.receiving /\ r.cid # h.active

\* fv_fido_hid_receive.
Receive(h, r) ==
    CASE h.processing -> Interrupted(h, r)
      [] ~h.processing /\ Transmitting(h) -> h
      [] OTHER ->
            IF ~(IF r.cid = Broadcast THEN r.cmd = "init" ELSE Known(h, r.cid)) THEN Refused(h, r.cid)
            ELSE IF r.cmd = "init" THEN Opened(h, r)
            ELSE IF r.cmd = "cancel" THEN (IF r.cid = h.active THEN Forgotten(h) ELSE h)
            ELSE IF Foreign(h, r) THEN Refused(h, r.cid)
            ELSE IF r.cmd = "cont" THEN Continued(h, r)
            ELSE Begun(h, r)

\* fv_fido_hid_complete.  A cancelled request is answered without its result.
Finished(h, n) ==
    LET g == [Forgotten(h) EXCEPT !.processing = FALSE, !.pending = FALSE]
    IN IF ~h.processing THEN h
       ELSE IF h.resync # Nothing THEN [Replied(g, h.active, "init", h.resync, 1) EXCEPT !.tx.at = h.active]
       ELSE Replied(g, h.active, "cbor", Author(h), IF h.cancelled THEN 1 ELSE n)

-----------------------------------------------------------------------------
(* fv_fido_poll *)

\* The bus is reset: every program on the host loses its handle.
BusReset ==
    /\ count.resets < MaxResets /\ ~lost
    /\ count' = [count EXCEPT !.resets = @ + 1]
    /\ lost' = TRUE
    /\ cl' = [c \in Clients |-> [NoClient EXCEPT !.n = cl[c].n]]
    /\ UNCHANGED <<d, discard, work, scoped, wrong>>

\* A mutant of Quiet: the reset does not wait for the worker.
QuietAlways == TRUE

Quiet == work = Nothing

\* fv_fido_poll sees the reset; a request in execution is discarded later.
Lost ==
    /\ lost
    /\ lost' = FALSE
    /\ IF Quiet THEN d' = Fresh /\ UNCHANGED discard ELSE discard' = TRUE /\ UNCHANGED d
    /\ UNCHANGED <<work, scoped, cl, count, wrong>>

\* The worker takes the message in rx.
Start ==
    /\ ~lost /\ ~discard /\ d.pending /\ work = Nothing
    /\ work' = Author(d)
    /\ d' = [d EXCEPT !.pending = FALSE]
    /\ UNCHANGED <<lost, discard, scoped, cl, count, wrong>>

\* Another modal owns the screen: the request is answered at once.
Denied ==
    /\ ~lost /\ ~discard /\ d.pending /\ work = Nothing
    /\ d' = Finished(d, 1)
    /\ UNCHANGED <<lost, discard, work, scoped, cl, count, wrong>>

\* The worker has answered.
Done ==
    /\ ~lost /\ work # Nothing
    /\ work' = Nothing /\ discard' = FALSE
    /\ d' = IF discard THEN Fresh
            ELSE IF d.processing THEN [Finished(d, Reports) EXCEPT !.tx.of = IF d.resync = Nothing THEN work ELSE @]
            ELSE d
    /\ scoped' = IF discard THEN scoped ELSE ~d.cancelled
    /\ UNCHANGED <<lost, cl, count, wrong>>

\* A mutant of TimedOut: a message is never given up.
TimedOutNever(h) == FALSE

\* fv_fido_hid_tick, three seconds after the last piece.
TimedOut(h) == h.receiving /\ ~Transmitting(h)

Tick ==
    /\ ~lost /\ ~discard /\ TimedOut(d)
    /\ d' = Refused(Forgotten(d), d.active)
    /\ UNCHANGED <<lost, discard, work, scoped, cl, count, wrong>>

\* The session ended: the rest of its reply is not sent.
Revoke ==
    /\ ~lost /\ ~discard /\ scoped
    /\ d' = [d EXCEPT !.tx = Idle]
    /\ scoped' = FALSE
    /\ UNCHANGED <<lost, discard, work, cl, count, wrong>>

\* What a program makes of a report.
Heard(c, p) ==
    LET k == cl[c]
    IN IF p.cmd = "init" /\ k.st \in {"new", "resync"} /\ p.of = [by |-> c, n |-> k.n]
       THEN [k EXCEPT !.st = "ready", !.cid = p.at]
       ELSE IF p.cid = 0 \/ p.cid # k.cid THEN k
       ELSE IF p.cmd = "error" /\ k.st = "waiting" THEN [k EXCEPT !.st = "resync"]
       ELSE IF p.cmd = "error" /\ k.st = "sending" THEN [k EXCEPT !.failed = TRUE]
       ELSE IF p.cmd \in {"ping", "cbor"} /\ k.st = "waiting" /\ p.left = 1 THEN [k EXCEPT !.st = "ready"]
       ELSE k

\* An answer that its receiver cannot tell from the one it waits for.
Mistaken(c, p) ==
    /\ p.cmd \in {"ping", "cbor"} /\ p.cid = cl[c].cid
    /\ cl[c].st \in {"ready", "sending"} \/ (cl[c].st = "waiting" /\ p.of # [by |-> c, n |-> cl[c].n])

\* fv_fido_hid_peek and fv_fido_hid_sent; a control report goes first.
SendReport ==
    /\ ~lost /\ ~discard
    /\ LET control == d.control # NoControl
           p == IF control THEN [Idle EXCEPT !.cid = d.control, !.cmd = "error", !.left = 1] ELSE d.tx
       IN /\ control \/ Transmitting(d)
          /\ d' = IF control THEN [d EXCEPT !.control = NoControl]
                  ELSE IF d.tx.left = 1 THEN [d EXCEPT !.tx = Idle] ELSE [d EXCEPT !.tx.left = @ - 1]
          /\ scoped' = (scoped /\ (control \/ d.tx.left > 1))
          /\ cl' = [c \in Clients |-> Heard(c, p)]
          /\ wrong' = (wrong \/ \E c \in Clients : Mistaken(c, p))
    /\ UNCHANGED <<lost, discard, work, count>>

-----------------------------------------------------------------------------
(* The programs on the host *)

\* tud_hid_set_report_cb.
Sends(r) ==
    /\ ~lost /\ count.sent < MaxSent
    /\ count' = [count EXCEPT !.sent = @ + 1]
    /\ d' = IF discard THEN d ELSE Receive(d, r)
    /\ UNCHANGED <<lost, discard, work, scoped, wrong>>

Report(c, cid, cmd) == [cid |-> cid, cmd |-> cmd, of |-> [by |-> c, n |-> cl[c].n], at |-> 1, size |-> 1, seq |-> 0]

\* INIT on the broadcast channel, with a new nonce.
Hello(c) ==
    /\ cl[c].st \in {"new", "resync"}
    /\ cl' = [cl EXCEPT ![c] = [NoClient EXCEPT !.n = cl[c].n + 1]]
    /\ Sends([Report(c, Broadcast, "init") EXCEPT !.of.n = @ + 1])

\* INIT on the program's own channel.
Resync(c) ==
    /\ cl[c].st \in {"sending", "waiting", "resync"}
    /\ cl' = [cl EXCEPT ![c].st = "resync", ![c].n = @ + 1, ![c].failed = FALSE]
    /\ Sends([Report(c, cl[c].cid, "init") EXCEPT !.of.n = @ + 1])

\* The first report of a message.
SendFirst(c, cmd, size) ==
    /\ cl[c].st = "ready"
    /\ cl' = [cl EXCEPT ![c].st = IF size = 1 THEN "waiting" ELSE "sending", ![c].n = @ + 1, ![c].size = size,
                        ![c].sent = 1, ![c].failed = FALSE]
    /\ Sends([Report(c, cl[c].cid, cmd) EXCEPT !.of.n = @ + 1, !.size = size])

\* The next one, whether or not an error has come back meanwhile.
SendNext(c) ==
    /\ cl[c].st = "sending"
    /\ cl' = [cl EXCEPT ![c].sent = @ + 1,
                        ![c].st = IF cl[c].sent + 1 < cl[c].size THEN @
                                  ELSE IF cl[c].failed THEN "resync" ELSE "waiting"]
    /\ Sends([Report(c, cl[c].cid, "cont") EXCEPT !.at = cl[c].sent + 1, !.seq = cl[c].sent - 1])

SendCancel(c) ==
    /\ cl[c].st = "waiting"
    /\ Sends(Report(c, cl[c].cid, "cancel"))
    /\ UNCHANGED cl

\* A report the device must refuse.
SendBad(c) ==
    /\ cl[c].st = "ready"
    /\ Sends(Report(c, cl[c].cid, "bad"))
    /\ cl' = [cl EXCEPT ![c].st = "resync"]

\* A program ends.
Exit(c) ==
    /\ cl[c].st # "new"
    /\ cl' = [cl EXCEPT ![c] = [NoClient EXCEPT !.n = cl[c].n]]
    /\ UNCHANGED <<d, lost, discard, work, scoped, count, wrong>>

-----------------------------------------------------------------------------

Device == Lost \/ Start \/ Denied \/ Done \/ Tick \/ Revoke \/ SendReport

Host ==
    \/ BusReset
    \/ \E c \in Clients :
        \/ Hello(c) \/ Resync(c) \/ SendNext(c) \/ SendCancel(c) \/ SendBad(c) \/ Exit(c)
        \/ \E cmd \in {"ping", "cbor"}, size \in 1 .. MaxPieces : SendFirst(c, cmd, size)

Next == Device \/ Host

\* The device keeps polling, the worker finishes and time passes; the host
\* promises nothing but to read.
Spec == Init /\ [][Next]_vars /\ WF_vars(Device)

-----------------------------------------------------------------------------
(* Properties *)

\* The request the worker is given is one whole message of one program, all
\* its pieces in order, whatever was dropped, refused, cancelled or timed out
\* before it (fv_fido_hid_receive).
WholeRequests ==
    d.processing =>
        /\ Len(d.rx) = d.size
        /\ \A i \in 1 .. d.size : d.rx[i].at = i /\ d.rx[i].by = d.rx[1].by /\ d.rx[i].n = d.rx[1].n

\* No program takes the answer to another message for its own: not one of
\* another program, of a message it gave up, or of a bus that was reset while
\* the worker was busy (channel allocation, resynchronisation, discard).
OwnReplies == ~wrong

\* A program that falls silent in the middle of a message never blocks the
\* others: the device gets back to rest (fv_fido_hid_tick).
ComesToRest == []<>(~d.receiving /\ ~d.processing /\ ~Transmitting(d) /\ ~discard)
=============================================================================
