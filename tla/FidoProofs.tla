----------------------------- MODULE FidoProofs -----------------------------
(***************************************************************************)
(* Proofs about the passkeys' way in and out: the CTAPHID transports of    *)
(* both generations and the storage of credentials.                        *)
(*                                                                         *)
(* The transports, for every number of programs, channels, pieces and      *)
(* reports: the worker is given whole messages, and no program takes the   *)
(* answer to another message for its own.  The invariant relates the       *)
(* transport h to the programs k.  A step of a program changes its own     *)
(* state and hands a report to the device: both halves keep the invariant, *)
(* so the two are proved apart.                                            *)
(*                                                                         *)
(* The storage, for every size of the region, number of records and of     *)
(* cuts: a call takes effect as a whole or not at all.  The invariant says *)
(* what the newest control sector promises the step under way (Facts), and *)
(* that whatever a cut leaves recovers to an image that is allowed         *)
(* (SafeInv).                                                              *)
(***************************************************************************)
EXTENDS FidoHid, LegacyProbe, FidoStore, FiniteSetTheorems, SequenceTheorems, TLAPS

-----------------------------------------------------------------------------
(* The inductive invariant *)

Message == [by : Clients \cup {"nobody"}, n : Nat]
Piece == [by : Clients, n : Nat, at : Nat]
Answer == [cid : Int, cmd : {"none", "init", "ping", "cbor", "error"}, of : Message, at : Nat, left : Nat]
Transport ==
    [channels : [0 .. Slots - 1 -> Nat], next : Nat, active : Nat, cmd : {"none", "ping", "cbor"},
     size : Nat, rx : Seq(Piece), seq : Nat, receiving : BOOLEAN, tx : Answer, processing : BOOLEAN,
     pending : BOOLEAN, cancelled : BOOLEAN, resync : Message, control : Int]
Program ==
    [st : {"new", "ready", "sending", "waiting", "resync"}, cid : Nat, n : Nat, size : Nat, sent : Nat,
     failed : BOOLEAN]

\* A program has a channel once it was given one, and no two have the same.
ProgramsInv(h, k) ==
    /\ k \in [Clients -> Program]
    /\ \A c \in Clients : /\ k[c].cid < h.next /\ (k[c].cid = 0 <=> k[c].st = "new")
                          /\ k[c].st = "sending" => k[c].sent >= 1 /\ k[c].sent < k[c].size
    /\ \A b, c \in Clients : k[b].cid = k[c].cid /\ k[b].cid # 0 => b = c

\* The pieces in rx are the first ones of one message.
Prefix(h) ==
    /\ Len(h.rx) >= 1 /\ Len(h.rx) <= h.size /\ h.active # 0
    /\ \A i \in 1 .. Len(h.rx) : /\ h.rx[i].at = i /\ h.rx[i].by = h.rx[1].by
                                 /\ h.rx[i].n = h.rx[1].n /\ h.rx[i].n >= 1

\* The message in reception is the one its program is sending, or gave up.
ReceivingInv(h, k) ==
    h.receiving =>
        /\ Prefix(h) /\ Len(h.rx) < h.size /\ h.seq = Len(h.rx) - 1 /\ ~h.processing
        /\ h.cmd \in {"ping", "cbor"}
        /\ \A c \in Clients : k[c].cid = h.active =>
             /\ h.rx[1].by = c /\ k[c].st # "ready"
             /\ k[c].st \in {"sending", "waiting"} => h.rx[1].n = k[c].n /\ h.size = k[c].size

\* So is the one that is executed.
ProcessingInv(h, k) ==
    /\ h.pending => h.processing
    /\ h.processing =>
        /\ Prefix(h) /\ Len(h.rx) = h.size
        /\ \A c \in Clients : k[c].cid = h.active =>
             /\ h.rx[1].by = c /\ (h.resync # Nothing => h.resync.by = c)
             /\ k[c].st = "resync" \/ (k[c].st = "waiting" /\ h.rx[1].n = k[c].n)

\* The program that holds the channel of an answer waits for it, or gave it up.
AnswerInv(h, k) ==
    h.tx.left > 0 /\ h.tx.cmd # "error" =>
        /\ ~h.receiving /\ ~h.processing /\ h.tx.cmd # "none"
        /\ h.tx.cmd = "init" =>
             /\ h.tx.left = 1 /\ h.tx.at >= 1 /\ h.tx.at < h.next
             /\ \A c \in Clients : k[c].cid = h.tx.at => c = h.tx.of.by
        /\ h.tx.cmd \in {"ping", "cbor"} =>
             /\ h.tx.cid # 0
             /\ \A c \in Clients : k[c].cid = h.tx.cid =>
                  k[c].st = "resync" \/ (k[c].st = "waiting" /\ h.tx.of = [by |-> c, n |-> k[c].n])

Linked(h, k) ==
    /\ h \in Transport /\ h.active < h.next /\ h.next >= 1
    /\ ProgramsInv(h, k) /\ ReceivingInv(h, k) /\ ProcessingInv(h, k) /\ AnswerInv(h, k)

\* While a reset of the bus is not dealt with no program has a channel; what
\* the worker executes is the message in rx unless it is to be discarded.
HidInv ==
    /\ Linked(d, cl)
    /\ lost \in BOOLEAN /\ discard \in BOOLEAN /\ wrong = FALSE
    /\ lost \/ discard => \A c \in Clients : cl[c].st = "new"
    /\ work \in Message
    /\ discard => work # Nothing
    /\ work # Nothing /\ ~discard => d.processing /\ ~d.pending /\ work = Author(d)

-----------------------------------------------------------------------------
(* The programs *)

\* A program that has no channel takes no part in what the transport does.
LEMMA ProgramLeaves ==
    ASSUME NEW h, NEW k, Linked(h, k), NEW c \in Clients, NEW p \in Program, p.cid = 0, p.st = "new"
    PROVE  Linked(h, [k EXCEPT ![c] = p])
<1> DEFINE q == [k EXCEPT ![c] = p]
<1>1. /\ q \in [Clients -> Program] /\ q[c] = p
      /\ \A b \in Clients : b # c => q[b] = k[b]
    BY DEF Linked, ProgramsInv
<1> HIDE DEF q
<1>2. /\ h \in Transport /\ h.active < h.next /\ h.next >= 1 /\ h.active \in Nat /\ h.next \in Nat
    BY DEF Linked, Transport
<1>3. ProgramsInv(h, q)
    BY <1>1, <1>2 DEF Linked, ProgramsInv
<1>4. ReceivingInv(h, q)
  <2>1. h.receiving => h.active # 0
      BY DEF Linked, ReceivingInv, Prefix
  <2>2. h.receiving => \A b \in Clients : q[b].cid = h.active => q[b] = k[b]
      BY <1>1, <2>1
  <2>3. QED
      BY <2>2 DEF Linked, ReceivingInv
<1>5. ProcessingInv(h, q)
  <2>1. h.processing => h.active # 0
      BY DEF Linked, ProcessingInv, Prefix
  <2>2. h.processing => \A b \in Clients : q[b].cid = h.active => q[b] = k[b]
      BY <1>1, <2>1
  <2>3. QED
      BY <2>2 DEF Linked, ProcessingInv
<1>6. AnswerInv(h, q)
  <2>1. \A b \in Clients : q[b].cid # 0 => q[b] = k[b]
      BY <1>1
  <2>2. h.tx \in Answer
      BY <1>2 DEF Transport
  <2>3. QED
      BY <2>1, <2>2 DEF Linked, AnswerInv, Answer
<1>7. QED
    BY <1>2, <1>3, <1>4, <1>5, <1>6 DEF Linked, q

\* A program sends on, gives up, or begins a message when it rests.
LEMMA ProgramMoves ==
    ASSUME NEW h, NEW k, Linked(h, k), NEW c \in Clients, NEW p \in Program,
           p.cid = k[c].cid, p.cid # 0, p.st \in {"sending", "waiting", "resync"},
           p.st = "sending" => p.sent >= 1 /\ p.sent < p.size,
           \/ p.st = "resync"
           \/ k[c].st = "ready"
           \/ k[c].st = "sending" /\ p.n = k[c].n /\ p.size = k[c].size
    PROVE  Linked(h, [k EXCEPT ![c] = p])
<1> DEFINE q == [k EXCEPT ![c] = p]
<1>1. /\ q \in [Clients -> Program] /\ q[c] = p
      /\ \A b \in Clients : b # c => q[b] = k[b]
    BY DEF Linked, ProgramsInv
<1>2. \A b \in Clients : q[b].cid = k[b].cid
    BY <1>1
<1> HIDE DEF q
<1>3. /\ h \in Transport /\ h.active < h.next /\ h.next >= 1
    BY DEF Linked
<1>4. ProgramsInv(h, q)
  <2>1. k[c].cid < h.next
      BY DEF Linked, ProgramsInv
  <2>2. \A b \in Clients : /\ q[b].cid < h.next /\ (q[b].cid = 0 <=> q[b].st = "new")
                           /\ q[b].st = "sending" => q[b].sent >= 1 /\ q[b].sent < q[b].size
      BY <1>1, <2>1 DEF Linked, ProgramsInv
  <2>3. \A a, b \in Clients : q[a].cid = q[b].cid /\ q[a].cid # 0 => a = b
      BY <1>2 DEF Linked, ProgramsInv
  <2>4. QED
      BY <1>1, <2>2, <2>3 DEF ProgramsInv
<1>5. ReceivingInv(h, q)
  <2>1. SUFFICES ASSUME h.receiving, NEW b \in Clients, q[b].cid = h.active
                 PROVE  /\ h.rx[1].by = b /\ q[b].st # "ready"
                        /\ q[b].st \in {"sending", "waiting"} => h.rx[1].n = q[b].n /\ h.size = q[b].size
      BY DEF Linked, ReceivingInv
  <2>2. /\ h.rx[1].by = b /\ k[b].st # "ready"
        /\ k[b].st \in {"sending", "waiting"} => h.rx[1].n = k[b].n /\ h.size = k[b].size
      BY <1>2, <2>1 DEF Linked, ReceivingInv
  <2>3. QED
      BY <1>1, <2>2
<1>6. ProcessingInv(h, q)
  <2>1. SUFFICES ASSUME h.processing, NEW b \in Clients, q[b].cid = h.active
                 PROVE  /\ h.rx[1].by = b /\ (h.resync # Nothing => h.resync.by = b)
                        /\ q[b].st = "resync" \/ (q[b].st = "waiting" /\ h.rx[1].n = q[b].n)
      BY DEF Linked, ProcessingInv
  <2>2. /\ h.rx[1].by = b /\ (h.resync # Nothing => h.resync.by = b)
        /\ k[b].st = "resync" \/ (k[b].st = "waiting" /\ h.rx[1].n = k[b].n)
      BY <1>2, <2>1 DEF Linked, ProcessingInv
  <2>3. QED
      BY <1>1, <2>2
<1>7. AnswerInv(h, q)
  <2>1. SUFFICES ASSUME h.tx.left > 0, h.tx.cmd \in {"ping", "cbor"}, NEW b \in Clients,
                        q[b].cid = h.tx.cid
                 PROVE  q[b].st = "resync" \/ (q[b].st = "waiting" /\ h.tx.of = [by |-> b, n |-> q[b].n])
      BY <1>2 DEF Linked, AnswerInv
  <2>2. k[b].st = "resync" \/ (k[b].st = "waiting" /\ h.tx.of = [by |-> b, n |-> k[b].n])
      BY <1>2, <2>1 DEF Linked, AnswerInv
  <2>3. QED
      BY <1>1, <2>2
<1>8. QED
    BY <1>3, <1>4, <1>5, <1>6, <1>7 DEF Linked, q

-----------------------------------------------------------------------------
(* What a report does to the transport, piece by piece *)

Request == [cid : Int, cmd : {"init", "ping", "cbor", "cont", "cancel", "bad"},
            of : [by : Clients, n : Nat], at : Nat, size : Nat, seq : Nat]

\* A report as a program that follows CTAP sends it.
Valid(h, k, r) ==
    LET p == k[r.of.by]
    IN /\ r \in Request
       /\ (r.cid = p.cid /\ r.cid # 0) \/ (r.cid = Broadcast /\ r.cmd = "init")
       /\ r.cmd \in {"ping", "cbor"} =>
            /\ r.at = 1 /\ r.size >= 1 /\ r.of.n >= 1 /\ p.n = r.of.n /\ p.size = r.size
            /\ p.st = IF r.size = 1 THEN "waiting" ELSE "sending"
       /\ r.cmd = "cont" =>
            /\ r.at = r.seq + 2
            /\ h.receiving /\ r.cid = h.active =>
                 /\ h.rx[1].n = r.of.n /\ h.size = p.size /\ p.n = r.of.n
                 /\ p.st \in {"sending", "waiting", "resync"}
                 /\ r.at = h.size => p.st # "sending"

\* An error replaces no answer of consequence.
LEMMA RefusedFacts ==
    ASSUME NEW h, NEW k, Linked(h, k), NEW cid \in Int
    PROVE  Linked(Refused(h, cid), k)
<1> DEFINE g == Refused(h, cid)
           t == [cid |-> cid, cmd |-> "error", of |-> Nothing, at |-> 0, left |-> 1]
<1>1. g = [h EXCEPT !.tx = t]
    BY DEF Refused, Replied
<1>2. t \in Answer /\ t.cmd = "error"
    BY DEF Answer, Message, Nothing
<1>3. h \in Transport
    BY DEF Linked
<1> HIDE DEF g, t
<1>4. /\ g \in Transport /\ g.tx = t
      /\ g.active = h.active /\ g.next = h.next /\ g.cmd = h.cmd /\ g.size = h.size /\ g.rx = h.rx
      /\ g.seq = h.seq /\ g.receiving = h.receiving /\ g.processing = h.processing
      /\ g.pending = h.pending /\ g.resync = h.resync
    BY <1>1, <1>2, <1>3 DEF Transport
<1>5. AnswerInv(g, k)
    BY <1>2, <1>4 DEF AnswerInv
<1>6. ProgramsInv(g, k) /\ ReceivingInv(g, k) /\ ProcessingInv(g, k)
    BY <1>4 DEF Linked, ProgramsInv, ReceivingInv, ProcessingInv, Prefix
<1>7. QED
    BY <1>4, <1>5, <1>6 DEF Linked, g

\* A message that is dropped before it was complete.
LEMMA ForgottenFacts ==
    ASSUME NEW h, NEW k, Linked(h, k), ~h.processing
    PROVE  Linked(Forgotten(h), k)
<1> DEFINE g == Forgotten(h)
<1>1. h \in Transport /\ <<>> \in Seq(Piece)
    BY DEF Linked
<1>2. /\ g \in Transport /\ g.tx = h.tx
      /\ g.active = h.active /\ g.next = h.next
      /\ g.receiving = FALSE /\ g.processing = h.processing
      /\ g.pending = h.pending /\ g.resync = h.resync
    BY <1>1 DEF Transport, Forgotten
<1> HIDE DEF g
<1>3. ProgramsInv(g, k) /\ ReceivingInv(g, k) /\ ProcessingInv(g, k) /\ AnswerInv(g, k)
    BY <1>2 DEF Linked, ProgramsInv, ReceivingInv, ProcessingInv, AnswerInv
<1>4. QED
    BY <1>2, <1>3 DEF Linked, g

\* A report during the execution of a request never touches its message.
LEMMA InterruptedFacts ==
    ASSUME NEW h, NEW k, Linked(h, k), h.processing, NEW r, Valid(h, k, r)
    PROVE  Linked(Interrupted(h, r), k)
<1>1. h \in Transport /\ r \in Request /\ r.of \in Message /\ r.of.by \in Clients
    BY DEF Linked, Valid, Request, Message
<1>2. ASSUME NEW g \in Transport, g.tx = h.tx, g.active = h.active, g.next = h.next,
             g.receiving = h.receiving, g.processing = h.processing, g.pending = h.pending,
             g.rx = h.rx, g.size = h.size, g.cmd = h.cmd, g.seq = h.seq,
             g.resync = h.resync \/ (g.resync = r.of /\ r.cid = h.active /\ r.cmd = "init")
      PROVE  Linked(g, k)
  <2>1. ProgramsInv(g, k) /\ ReceivingInv(g, k) /\ AnswerInv(g, k)
      BY <1>2 DEF Linked, ProgramsInv, ReceivingInv, AnswerInv, Prefix
  <2>2. ASSUME NEW c \in Clients, k[c].cid = h.active, g.resync # Nothing
        PROVE  g.resync.by = c
    <3>1. CASE g.resync = h.resync
        BY <2>2, <3>1 DEF Linked, ProcessingInv
    <3>2. CASE g.resync = r.of /\ r.cid = h.active
      <4>1. h.active # 0 /\ h.active \in Nat
          BY <1>1 DEF Linked, ProcessingInv, Prefix, Transport
      <4>2. r.cid = k[r.of.by].cid
          BY <3>2, <4>1 DEF Valid, Broadcast
      <4>3. QED
          BY <1>1, <2>2, <3>2, <4>1, <4>2 DEF Linked, ProgramsInv
    <3>3. QED
        BY <1>2, <3>1, <3>2
  <2>3. ProcessingInv(g, k)
      BY <1>2, <2>2 DEF Linked, ProcessingInv, Prefix
  <2>4. QED
      BY <1>2, <2>1, <2>3 DEF Linked
<1>3. \A v \in BOOLEAN : Linked([h EXCEPT !.cancelled = v], k)
  <2>1. SUFFICES ASSUME NEW v \in BOOLEAN
                 PROVE  Linked([h EXCEPT !.cancelled = v], k)
      OBVIOUS
  <2> DEFINE g == [h EXCEPT !.cancelled = v]
  <2>2. /\ g \in Transport /\ g.tx = h.tx /\ g.active = h.active /\ g.next = h.next
        /\ g.receiving = h.receiving /\ g.processing = h.processing /\ g.pending = h.pending
        /\ g.rx = h.rx /\ g.size = h.size /\ g.cmd = h.cmd /\ g.seq = h.seq /\ g.resync = h.resync
      BY <1>1 DEF Transport
  <2> HIDE DEF g
  <2>3. QED
      BY <1>2, <2>2 DEF g
<1>4. CASE r.cmd = "cancel"
  <2>1. Interrupted(h, r) = [h EXCEPT !.cancelled = h.cancelled \/ r.cid = h.active]
      BY <1>4, Zenon DEF Interrupted
  <2>2. (h.cancelled \/ r.cid = h.active) \in BOOLEAN
      BY Zenon
  <2>3. QED
      BY <1>3, <2>1, <2>2, Zenon
<1>5. CASE r.cmd # "cancel" /\ r.cid = h.active /\ r.cmd = "init"
  <2> DEFINE g == [h EXCEPT !.cancelled = TRUE, !.resync = r.of]
  <2>1. Interrupted(h, r) = g
      BY <1>5 DEF Interrupted
  <2>2. /\ g \in Transport /\ g.tx = h.tx /\ g.active = h.active /\ g.next = h.next
        /\ g.receiving = h.receiving /\ g.processing = h.processing /\ g.pending = h.pending
        /\ g.rx = h.rx /\ g.size = h.size /\ g.cmd = h.cmd /\ g.seq = h.seq /\ g.resync = r.of
      BY <1>1 DEF Transport
  <2> HIDE DEF g
  <2>3. QED
      BY <1>2, <1>5, <2>1, <2>2
<1>6. CASE r.cmd # "cancel" /\ ~(r.cid = h.active /\ r.cmd = "init")
  <2> DEFINE g == [h EXCEPT !.control = r.cid]
  <2>1. Interrupted(h, r) \in {g, h}
      BY <1>6 DEF Interrupted
  <2>2. /\ g \in Transport /\ g.tx = h.tx /\ g.active = h.active /\ g.next = h.next
        /\ g.receiving = h.receiving /\ g.processing = h.processing /\ g.pending = h.pending
        /\ g.rx = h.rx /\ g.size = h.size /\ g.cmd = h.cmd /\ g.seq = h.seq /\ g.resync = h.resync
      BY <1>1 DEF Transport, Request
  <2> HIDE DEF g
  <2>3. QED
      BY <1>2, <2>1, <2>2
<1>7. QED
    BY <1>4, <1>5, <1>6

\* INIT: the answer carries a channel that only its program can have.
LEMMA OpenedFacts ==
    ASSUME NEW h, NEW k, Linked(h, k), ~h.processing, NEW r, Valid(h, k, r), r.cmd = "init"
    PROVE  Linked(Opened(h, r), k)
<1>1. /\ h \in Transport /\ r \in Request /\ r.of \in Message /\ r.of.by \in Clients /\ r.cid \in Int
      /\ h.next \in Nat /\ h.next >= 1 /\ h.channels \in [0 .. Slots - 1 -> Nat]
    BY DEF Linked, Valid, Request, Message, Transport
<1>2. CASE h.receiving /\ r.cid # h.active
    BY <1>1, <1>2, RefusedFacts DEF Opened
<1>3. CASE ~(h.receiving /\ r.cid # h.active)
  <2> DEFINE new == r.cid = Broadcast
             cid == IF new THEN h.next ELSE r.cid
             ch == IF new THEN [h.channels EXCEPT ![SlotFor(h)] = cid] ELSE h.channels
             nx == IF new THEN h.next + 1 ELSE h.next
             t == [cid |-> r.cid, cmd |-> "init", of |-> r.of, at |-> cid, left |-> 1]
             g == [h EXCEPT !.channels = ch, !.next = nx, !.receiving = FALSE, !.rx = <<>>, !.tx = t]
  <2>1. Opened(h, r) = g
    <3> DEFINE m == [h EXCEPT !.channels = ch, !.next = nx]
    <3>1. m = IF new THEN [h EXCEPT !.channels[SlotFor(h)] = cid, !.next = @ + 1] ELSE h
        BY <1>1 DEF Transport
    <3>2. Opened(h, r) = [Replied(Forgotten(m), r.cid, "init", r.of, 1) EXCEPT !.tx.at = cid]
        BY <1>3, <3>1, Zenon DEF Opened, Assigned
    <3> DEFINE t0 == [cid |-> r.cid, cmd |-> "init", of |-> r.of, at |-> 0, left |-> 1]
               x == [h EXCEPT !.channels = ch, !.next = nx, !.receiving = FALSE, !.rx = <<>>, !.tx = t0]
    <3> HIDE DEF ch, nx, cid, new
    <3>3. Replied(Forgotten(m), r.cid, "init", r.of, 1) = x
        BY <1>1 DEF Replied, Forgotten, Transport
    <3>4. x.tx = t0
        BY <1>1 DEF Transport
    <3>5. [t0 EXCEPT !.at = cid] = t
        OBVIOUS
    <3> HIDE DEF t0, t
    <3>6. [x EXCEPT !.tx = t] = g
        BY <1>1 DEF Transport
    <3> HIDE DEF x, m, g
    <3>7. [x EXCEPT !.tx.at = cid] = [x EXCEPT !.tx = t]
        BY <3>4, <3>5
    <3>8. QED
        BY <3>2, <3>3, <3>6, <3>7
  <2>2. /\ cid \in Nat /\ cid >= 1 /\ cid < nx /\ nx \in Nat /\ nx >= h.next
        /\ \A c \in Clients : k[c].cid = cid => c = r.of.by
    <3>1. CASE new
      <4>1. \A c \in Clients : k[c].cid < h.next /\ k[c].cid \in Nat
          BY DEF Linked, ProgramsInv, Program
      <4>2. QED
          BY <1>1, <3>1, <4>1
    <3>2. CASE ~new
      <4>1. r.cid = k[r.of.by].cid /\ r.cid # 0
          BY <3>2 DEF Valid
      <4>2. r.cid \in Nat /\ r.cid < h.next
          BY <1>1, <4>1 DEF Linked, ProgramsInv, Program
      <4>3. \A c \in Clients : k[c].cid = r.cid => c = r.of.by
          BY <1>1, <4>1 DEF Linked, ProgramsInv
      <4>4. QED
          BY <1>1, <3>2, <4>1, <4>2, <4>3
    <3>3. QED
        BY <3>1, <3>2
  <2>3. ch \in [0 .. Slots - 1 -> Nat]
      BY <1>1, <2>2
  <2> HIDE DEF new, cid, ch, nx
  <2>4. t \in Answer /\ t.cmd = "init" /\ t.left = 1 /\ t.at = cid /\ t.of = r.of
      BY <1>1, <2>2 DEF Answer
  <2> HIDE DEF t
  <2>5. /\ g \in Transport /\ g.tx = t /\ g.next = nx /\ g.active = h.active /\ g.receiving = FALSE
        /\ g.processing = h.processing /\ g.pending = h.pending
    <3>1. <<>> \in Seq(Piece)
        OBVIOUS
    <3>2. QED
        BY <1>1, <2>2, <2>3, <2>4, <3>1 DEF Transport
  <2> HIDE DEF g
  <2>6. AnswerInv(g, k)
      BY <2>2, <2>4, <2>5 DEF AnswerInv
  <2>7. ProgramsInv(g, k)
    <3>1. \A c \in Clients : k[c].cid < h.next /\ k[c].cid \in Nat
        BY DEF Linked, ProgramsInv, Program
    <3>2. \A c \in Clients : k[c].cid < g.next
      <4>1. SUFFICES ASSUME NEW c \in Clients
                     PROVE  k[c].cid < g.next
          OBVIOUS
      <4>2. nx >= h.next /\ nx \in Nat /\ g.next = nx
          BY <2>2, <2>5
      <4>3. k[c].cid < h.next /\ k[c].cid \in Nat /\ h.next \in Nat
          BY <1>1, <3>1
      <4>4. QED
          BY <4>2, <4>3
    <3>3. QED
        BY <3>2 DEF Linked, ProgramsInv
  <2>8. ReceivingInv(g, k) /\ ProcessingInv(g, k)
      BY <2>5 DEF Linked, ReceivingInv, ProcessingInv
  <2>9. g.active < g.next /\ g.next >= 1
      BY <1>1, <2>2, <2>5 DEF Linked, Transport
  <2>10. QED
      BY <2>1, <2>5, <2>6, <2>7, <2>8, <2>9 DEF Linked
<1>4. QED
    BY <1>2, <1>3

\* A transport that may take the piece r carries next.
Takes(h, k, r) ==
    /\ h \in Transport /\ r \in Request
    /\ h.active # 0 /\ h.active < h.next /\ h.next >= 1 /\ ProgramsInv(h, k)
    /\ h.receiving /\ ~h.processing /\ ~h.pending /\ h.tx.left = 0 /\ h.cmd \in {"ping", "cbor"}
    /\ Len(h.rx) < h.size /\ h.seq = Len(h.rx) /\ r.at = Len(h.rx) + 1 /\ r.of.n >= 1
    /\ \A i \in 1 .. Len(h.rx) : h.rx[i].at = i /\ h.rx[i].by = r.of.by /\ h.rx[i].n = r.of.n
    /\ \A c \in Clients : k[c].cid = h.active =>
         /\ c = r.of.by /\ k[c].st \in {"sending", "waiting", "resync"}
         /\ k[c].st \in {"sending", "waiting"} => k[c].n = r.of.n /\ h.size = k[c].size
         /\ Len(h.rx) + 1 = h.size => k[c].st # "sending"

\* The next piece of a message extends it, and the last one completes it.
LEMMA TakenFacts ==
    ASSUME NEW h, NEW k, NEW r, Takes(h, k, r)
    PROVE  Linked(Taken(h, r), k)
<1> DEFINE piece == [by |-> r.of.by, n |-> r.of.n, at |-> r.at]
           rx == Append(h.rx, piece)
           g == [h EXCEPT !.rx = rx]
<1>1. /\ h \in Transport /\ h.rx \in Seq(Piece) /\ piece \in Piece /\ h.tx \in Answer
      /\ h.size \in Nat /\ h.active \in Nat /\ h.next \in Nat /\ r.of = [by |-> r.of.by, n |-> r.of.n]
      /\ r.of \in Message /\ Len(h.rx) \in Nat
    BY SMTT(60) DEF Takes, Transport, Request, Piece, Message
<1>2. /\ rx \in Seq(Piece) /\ Len(rx) = Len(h.rx) + 1
      /\ \A i \in 1 .. Len(rx) : rx[i].at = i /\ rx[i].by = r.of.by /\ rx[i].n = r.of.n
  <2>1. rx \in Seq(Piece) /\ Len(rx) = Len(h.rx) + 1
      BY <1>1
  <2>2. \A i \in 1 .. Len(h.rx) : rx[i] = h.rx[i]
      BY <1>1
  <2>3. rx[Len(h.rx) + 1] = piece
      BY <1>1
  <2>4. piece.at = Len(h.rx) + 1 /\ piece.by = r.of.by /\ piece.n = r.of.n
      BY DEF Takes
  <2> HIDE DEF rx, piece
  <2>5. QED
      BY <1>1, <2>1, <2>2, <2>3, <2>4, SMTT(60) DEF Takes
<1> HIDE DEF rx, piece
<1>3. /\ g \in Transport /\ g.rx = rx /\ g.size = h.size /\ g.active = h.active /\ g.next = h.next
      /\ g.cmd = h.cmd /\ g.seq = h.seq /\ g.receiving = h.receiving /\ g.tx = h.tx
      /\ g.processing = h.processing /\ g.pending = h.pending /\ g.resync = h.resync
    BY <1>1, <1>2 DEF Transport
<1>4. rx[1].by = r.of.by /\ rx[1].n = r.of.n /\ 1 \in 1 .. Len(rx)
    BY <1>1, <1>2
<1>5. Taken(h, r) = IF Len(g.rx) = g.size THEN Completed(g) ELSE g
    BY Zenon DEF Taken, rx, piece
<1> HIDE DEF g
<1>6. CASE Len(rx) # h.size
  <2>1. Taken(h, r) = g
      BY <1>3, <1>5, <1>6
  <2>2. Prefix(g)
      BY <1>1, <1>2, <1>3, <1>4 DEF Prefix, Takes
  <2>3. ReceivingInv(g, k)
    <3>1. /\ Len(g.rx) < g.size /\ g.seq = Len(g.rx) - 1 /\ ~g.processing
        BY <1>1, <1>2, <1>3, <1>6 DEF Takes
    <3>2. \A c \in Clients : k[c].cid = g.active =>
             /\ g.rx[1].by = c /\ k[c].st # "ready"
             /\ k[c].st \in {"sending", "waiting"} => g.rx[1].n = k[c].n /\ g.size = k[c].size
        BY <1>3, <1>4 DEF Takes
    <3>3. QED
        BY <1>3, <2>2, <3>1, <3>2 DEF ReceivingInv, Takes
  <2>4. ProgramsInv(g, k) /\ ProcessingInv(g, k) /\ AnswerInv(g, k)
      BY <1>3 DEF Takes, ProgramsInv, ProcessingInv, AnswerInv
  <2>5. QED
      BY <1>3, <2>1, <2>3, <2>4 DEF Linked, Takes
<1>7. CASE Len(rx) = h.size /\ h.cmd = "ping"
  <2> DEFINE t == [cid |-> h.active, cmd |-> "ping", of |-> [by |-> r.of.by, n |-> r.of.n],
                   at |-> 0, left |-> h.size]
             f == [g EXCEPT !.receiving = FALSE, !.rx = <<>>, !.tx = t]
  <2>1. Taken(h, r) = f
    <3>1. Taken(h, r) = Replied(Forgotten(g), g.active, "ping", Author(g), g.size)
        BY <1>3, <1>5, <1>7 DEF Completed
    <3>2. Author(g) = [by |-> r.of.by, n |-> r.of.n]
        BY <1>3, <1>4 DEF Author
    <3>3. QED
        BY <1>3, <3>1, <3>2 DEF Replied, Forgotten, Transport
  <2>2. t \in Answer /\ t.cmd = "ping" /\ t.cid = h.active /\ t.of = r.of
      BY <1>1 DEF Answer
  <2> HIDE DEF t
  <2>3. /\ f \in Transport /\ f.tx = t /\ f.receiving = FALSE /\ f.active = h.active
        /\ f.next = h.next /\ f.processing = h.processing /\ f.pending = h.pending
    <3>1. <<>> \in Seq(Piece)
        OBVIOUS
    <3>2. QED
        BY <1>3, <2>2, <3>1 DEF Transport
  <2> HIDE DEF f
  <2>4. ASSUME NEW c \in Clients, k[c].cid = t.cid
        PROVE  k[c].st = "resync" \/ (k[c].st = "waiting" /\ t.of = [by |-> c, n |-> k[c].n])
      BY <1>1, <1>2, <1>7, <2>2, <2>4 DEF Takes
  <2>5. AnswerInv(f, k)
      BY <2>2, <2>3, <2>4 DEF AnswerInv, Takes
  <2>6. ProgramsInv(f, k) /\ ProcessingInv(f, k) /\ ReceivingInv(f, k)
      BY <2>3 DEF Takes, ProgramsInv, ProcessingInv, ReceivingInv
  <2>7. QED
      BY <2>1, <2>3, <2>5, <2>6 DEF Linked, Takes
<1>8. CASE Len(rx) = h.size /\ h.cmd # "ping"
  <2> DEFINE f == [g EXCEPT !.receiving = FALSE, !.processing = TRUE, !.cancelled = FALSE,
                            !.resync = Nothing, !.pending = TRUE]
  <2>1. Taken(h, r) = f
      BY <1>3, <1>5, <1>8 DEF Completed
  <2>2. /\ f \in Transport /\ f.tx = h.tx /\ f.receiving = FALSE /\ f.active = h.active
        /\ f.next = h.next /\ f.processing = TRUE /\ f.pending = TRUE /\ f.rx = rx
        /\ f.size = h.size /\ f.resync = Nothing
    <3>1. Nothing \in Message
        BY DEF Nothing, Message
    <3>2. QED
        BY <1>3, <3>1 DEF Transport
  <2> HIDE DEF f
  <2>3. Prefix(f)
      BY <1>1, <1>2, <1>4, <1>8, <2>2 DEF Prefix, Takes
  <2>4. \A c \in Clients : k[c].cid = f.active =>
             /\ f.rx[1].by = c
             /\ k[c].st = "resync" \/ (k[c].st = "waiting" /\ f.rx[1].n = k[c].n)
      BY <1>1, <1>2, <1>4, <1>8, <2>2 DEF Takes
  <2>5. ProcessingInv(f, k)
      BY <1>8, <2>2, <2>3, <2>4 DEF ProcessingInv
  <2>6. ProgramsInv(f, k) /\ AnswerInv(f, k) /\ ReceivingInv(f, k)
      BY <1>1, <2>2 DEF Takes, ProgramsInv, AnswerInv, ReceivingInv, Answer
  <2>7. QED
      BY <2>1, <2>2, <2>5, <2>6 DEF Linked, Takes
<1>9. QED
    BY <1>6, <1>7, <1>8

\* A first report begins a message where none is in reception.
LEMMA BegunFacts ==
    ASSUME NEW h, NEW k, Linked(h, k), ~h.processing, h.tx.left = 0, NEW r, Valid(h, k, r),
           r.cmd \in {"ping", "cbor", "bad"}
    PROVE  Linked(Begun(h, r), k)
<1>1. /\ h \in Transport /\ r \in Request /\ r.cid \in Int /\ r.of.by \in Clients /\ r.size \in Nat
      /\ r.cid = k[r.of.by].cid /\ r.cid # 0
    BY DEF Linked, Valid, Request
<1>2. CASE h.receiving \/ r.cmd = "bad"
    BY <1>1, <1>2, RefusedFacts DEF Begun
<1>3. CASE ~(h.receiving \/ r.cmd = "bad")
  <2> DEFINE g == [h EXCEPT !.active = r.cid, !.cmd = r.cmd, !.size = r.size, !.rx = <<>>, !.seq = 0,
                            !.receiving = TRUE]
  <2>1. Begun(h, r) = Taken(g, r)
      BY <1>3, Zenon DEF Begun
  <2>2. r.cid \in Nat /\ r.cid < h.next /\ \A c \in Clients : k[c].cid = r.cid => c = r.of.by
      BY <1>1 DEF Linked, ProgramsInv, Program
  <2>3. r.cmd \in {"ping", "cbor"}
      BY <1>3
  <2>4. /\ g \in Transport /\ g.active = r.cid /\ g.cmd = r.cmd /\ g.size = r.size /\ g.rx = <<>>
        /\ g.seq = 0 /\ g.receiving = TRUE /\ g.processing = h.processing /\ g.pending = h.pending
        /\ g.tx = h.tx /\ g.next = h.next
    <3>1. <<>> \in Seq(Piece)
        OBVIOUS
    <3>2. QED
        BY <1>1, <2>2, <2>3, <3>1 DEF Transport
  <2> HIDE DEF g
  <2>5. Len(g.rx) = 0
      BY <2>4
  <2>6. /\ r.at = 1 /\ r.size >= 1 /\ r.of.n >= 1 /\ k[r.of.by].n = r.of.n /\ k[r.of.by].size = r.size
        /\ k[r.of.by].st = IF r.size = 1 THEN "waiting" ELSE "sending"
      BY <2>3 DEF Valid
  <2>7. ProgramsInv(g, k) /\ ~h.pending /\ h.next >= 1
      BY <2>4 DEF Linked, ProgramsInv, ProcessingInv
  <2>8. \A c \in Clients : k[c].cid = g.active =>
         /\ c = r.of.by /\ k[c].st \in {"sending", "waiting", "resync"}
         /\ k[c].st \in {"sending", "waiting"} => k[c].n = r.of.n /\ g.size = k[c].size
         /\ Len(g.rx) + 1 = g.size => k[c].st # "sending"
      BY <2>2, <2>4, <2>5, <2>6
  <2>9. Takes(g, k, r)
      BY <1>1, <2>2, <2>3, <2>4, <2>5, <2>6, <2>7, <2>8 DEF Takes
  <2>10. QED
      BY <2>1, <2>9, TakenFacts
<1>4. QED
    BY <1>2, <1>3

\* A continuation is of the message in reception, and the one after its last.
LEMMA ContinuedFacts ==
    ASSUME NEW h, NEW k, Linked(h, k), ~h.processing, h.tx.left = 0, NEW r, Valid(h, k, r),
           r.cmd = "cont", h.receiving => r.cid = h.active
    PROVE  Linked(Continued(h, r), k)
<1>1. /\ h \in Transport /\ r \in Request /\ r.cid \in Int /\ r.of.by \in Clients /\ r.seq \in Nat
      /\ r.cid = k[r.of.by].cid /\ r.cid # 0
    BY DEF Linked, Valid, Request
<1>2. CASE ~h.receiving
    BY <1>2 DEF Continued
<1>3. CASE h.receiving /\ r.seq # h.seq
    BY <1>1, <1>3, ForgottenFacts, RefusedFacts DEF Continued
<1>4. CASE h.receiving /\ r.seq = h.seq
  <2> DEFINE g == [h EXCEPT !.seq = @ + 1]
  <2>1. Continued(h, r) = Taken(g, r)
      BY <1>4, Zenon DEF Continued
  <2>2. h.seq \in Nat /\ h.rx \in Seq(Piece)
      BY <1>1 DEF Transport
  <2>3. /\ g \in Transport /\ g.active = h.active /\ g.cmd = h.cmd /\ g.size = h.size /\ g.rx = h.rx
        /\ g.seq = h.seq + 1 /\ g.receiving = h.receiving /\ g.processing = h.processing
        /\ g.pending = h.pending /\ g.tx = h.tx /\ g.next = h.next
    <3> DEFINE s == h.seq + 1
    <3>1. s \in Nat
        BY <2>2
    <3>2. g = [h EXCEPT !.seq = s]
        BY <1>1 DEF Transport
    <3> HIDE DEF g
    <3>3. g.seq = s
        BY <1>1, <3>2 DEF Transport
    <3> HIDE DEF s
    <3>4. /\ g \in Transport /\ g.active = h.active /\ g.cmd = h.cmd /\ g.size = h.size /\ g.rx = h.rx
          /\ g.receiving = h.receiving /\ g.processing = h.processing
          /\ g.pending = h.pending /\ g.tx = h.tx /\ g.next = h.next
        BY <1>1, <3>1, <3>2 DEF Transport
    <3>5. QED
        BY <3>3, <3>4 DEF s
  <2> HIDE DEF g
  <2>4. /\ Prefix(h) /\ Len(h.rx) < h.size /\ h.seq = Len(h.rx) - 1 /\ h.cmd \in {"ping", "cbor"}
        /\ \A c \in Clients : k[c].cid = h.active => h.rx[1].by = c
      BY <1>4 DEF Linked, ReceivingInv
  <2>5. /\ r.at = r.seq + 2 /\ h.rx[1].n = r.of.n /\ h.size = k[r.of.by].size
        /\ k[r.of.by].n = r.of.n /\ k[r.of.by].st \in {"sending", "waiting", "resync"}
        /\ r.at = h.size => k[r.of.by].st # "sending"
      BY <1>4 DEF Valid
  <2>6. h.rx[1].by = r.of.by
      BY <1>1, <1>4, <2>4
  <2>7. \A c \in Clients : k[c].cid = h.active => c = r.of.by
      BY <2>4, <2>6
  <2>8. ProgramsInv(g, k) /\ ~h.pending /\ h.next >= 1 /\ h.active < h.next
      BY <2>3 DEF Linked, ProgramsInv, ProcessingInv
  <2>9. /\ g.seq = Len(g.rx) /\ r.at = Len(g.rx) + 1 /\ r.of.n >= 1 /\ Len(g.rx) \in Nat
        /\ \A i \in 1 .. Len(g.rx) : g.rx[i].at = i /\ g.rx[i].by = r.of.by /\ g.rx[i].n = r.of.n
      BY <1>4, <2>2, <2>3, <2>4, <2>5, <2>6 DEF Prefix
  <2>10. \A c \in Clients : k[c].cid = g.active =>
         /\ c = r.of.by /\ k[c].st \in {"sending", "waiting", "resync"}
         /\ k[c].st \in {"sending", "waiting"} => k[c].n = r.of.n /\ g.size = k[c].size
         /\ Len(g.rx) + 1 = g.size => k[c].st # "sending"
      BY <2>3, <2>5, <2>7, <2>9
  <2>11. Takes(g, k, r)
      BY <1>1, <1>4, <2>3, <2>4, <2>8, <2>9, <2>10 DEF Takes, Prefix
  <2>12. QED
      BY <2>1, <2>11, TakenFacts
<1>5. QED
    BY <1>2, <1>3, <1>4

\* fv_fido_hid_receive keeps the transport in step with the programs.
LEMMA ReceiveFacts ==
    ASSUME NEW h, NEW k, Linked(h, k), NEW r, Valid(h, k, r)
    PROVE  Linked(Receive(h, r), k)
<1>1. /\ r.cid \in Int /\ h.tx.left \in Nat
      /\ r.cmd \in {"init", "ping", "cbor", "cont", "cancel", "bad"}
    BY DEF Linked, Valid, Request, Transport, Answer
<1>2. CASE h.processing
  <2>1. Receive(h, r) = Interrupted(h, r)
      BY <1>2, Zenon DEF Receive
  <2>2. QED
      BY <1>2, <2>1, InterruptedFacts
<1>3. CASE ~h.processing /\ Transmitting(h)
  <2>1. Receive(h, r) = h
      BY <1>3, Zenon DEF Receive
  <2>2. QED
      BY <2>1
<1>4. CASE ~h.processing /\ ~Transmitting(h)
  <2>0. h.tx.left = 0
      BY <1>1, <1>4 DEF Transmitting
  <2>1. Receive(h, r) =
            IF ~(IF r.cid = Broadcast THEN r.cmd = "init" ELSE Known(h, r.cid)) THEN Refused(h, r.cid)
            ELSE IF r.cmd = "init" THEN Opened(h, r)
            ELSE IF r.cmd = "cancel" THEN (IF r.cid = h.active THEN Forgotten(h) ELSE h)
            ELSE IF Foreign(h, r) THEN Refused(h, r.cid)
            ELSE IF r.cmd = "cont" THEN Continued(h, r)
            ELSE Begun(h, r)
      BY <1>4, Zenon DEF Receive
  <2>2. Linked(Refused(h, r.cid), k)
      BY <1>1, RefusedFacts
  <2>3. r.cmd = "init" => Linked(Opened(h, r), k)
      BY <1>4, OpenedFacts
  <2>4. Linked(Forgotten(h), k)
      BY <1>4, ForgottenFacts
  <2>5. r.cmd = "cont" /\ ~Foreign(h, r) => Linked(Continued(h, r), k)
      BY <1>4, <2>0, ContinuedFacts DEF Foreign
  <2>6. r.cmd \in {"ping", "cbor", "bad"} => Linked(Begun(h, r), k)
      BY <1>4, <2>0, BegunFacts
  <2>7. r.cmd # "init" /\ r.cmd # "cancel" /\ r.cmd # "cont" => r.cmd \in {"ping", "cbor", "bad"}
      BY <1>1
  <2>8. QED
      BY <2>1, <2>2, <2>3, <2>4, <2>5, <2>6, <2>7, Zenon
<1>5. QED
    BY <1>2, <1>3, <1>4

-----------------------------------------------------------------------------
(* What the device does by itself *)

\* Programs that all lost their channels take no part in anything.
LEMMA AllLeave ==
    ASSUME NEW h, NEW k, Linked(h, k), NEW q \in [Clients -> Program],
           \A c \in Clients : q[c].cid = 0 /\ q[c].st = "new"
    PROVE  Linked(h, q)
<1>1. /\ h \in Transport /\ h.active < h.next /\ h.next >= 1 /\ h.active \in Nat /\ h.next \in Nat
      /\ h.tx \in Answer
    BY DEF Linked, Transport
<1>2. ProgramsInv(h, q)
    BY <1>1 DEF ProgramsInv
<1>3. (h.receiving => h.active # 0) /\ (h.processing => h.active # 0)
    BY DEF Linked, ReceivingInv, ProcessingInv, Prefix
<1>4. ReceivingInv(h, q) /\ ProcessingInv(h, q)
    BY <1>3 DEF Linked, ReceivingInv, ProcessingInv
<1>5. AnswerInv(h, q)
    BY <1>1 DEF Linked, AnswerInv, Answer
<1>6. QED
    BY <1>1, <1>2, <1>4, <1>5 DEF Linked

\* fv_fido_hid_reset, while no program has a channel.
LEMMA FreshFacts ==
    ASSUME NEW h, NEW k, Linked(h, k), \A c \in Clients : k[c].st = "new"
    PROVE  Linked(Fresh, k)
<1>1. /\ Idle \in Answer /\ Nothing \in Message /\ <<>> \in Seq(Piece)
      /\ [i \in 0 .. Slots - 1 |-> 0] \in [0 .. Slots - 1 -> Nat]
    BY DEF Idle, Answer, Nothing, Message
<1>2. /\ Fresh \in Transport /\ Fresh.active = 0 /\ Fresh.next = 1 /\ Fresh.receiving = FALSE
      /\ Fresh.processing = FALSE /\ Fresh.pending = FALSE /\ Fresh.tx = Idle
    BY <1>1 DEF Fresh, Transport, NoControl
<1>3. Idle.left = 0
    BY DEF Idle
<1>4. ProgramsInv(Fresh, k)
    BY <1>2 DEF Linked, ProgramsInv, Program
<1>5. ReceivingInv(Fresh, k) /\ ProcessingInv(Fresh, k) /\ AnswerInv(Fresh, k)
    BY <1>2, <1>3 DEF ReceivingInv, ProcessingInv, AnswerInv
<1>6. QED
    BY <1>2, <1>4, <1>5 DEF Linked

\* The answer to the request in execution goes to the program that sent it.
LEMMA AnsweredFacts ==
    ASSUME NEW h, NEW k, Linked(h, k), h.processing, NEW t \in Answer,
           \/ t.cmd = "cbor" /\ t.cid = h.active /\ t.of = Author(h)
           \/ t.cmd = "init" /\ t.left = 1 /\ t.at = h.active /\ t.of = h.resync /\ h.resync # Nothing
    PROVE  Linked([h EXCEPT !.receiving = FALSE, !.rx = <<>>, !.processing = FALSE, !.pending = FALSE,
                               !.tx = t], k)
<1> DEFINE g == [h EXCEPT !.receiving = FALSE, !.rx = <<>>, !.processing = FALSE, !.pending = FALSE, !.tx = t]
<1>1. /\ h \in Transport /\ h.active < h.next /\ h.next >= 1 /\ h.active \in Nat /\ h.next \in Nat
      /\ <<>> \in Seq(Piece)
    BY DEF Linked, Transport
<1>2. /\ g \in Transport /\ g.tx = t /\ g.receiving = FALSE /\ g.processing = FALSE /\ g.pending = FALSE
      /\ g.active = h.active /\ g.next = h.next
    BY <1>1 DEF Transport
<1> HIDE DEF g
<1>3. /\ h.active # 0
      /\ \A c \in Clients : k[c].cid = h.active =>
            /\ h.rx[1].by = c /\ (h.resync # Nothing => h.resync.by = c)
            /\ k[c].st = "resync" \/ (k[c].st = "waiting" /\ h.rx[1].n = k[c].n)
    BY DEF Linked, ProcessingInv, Prefix
<1>4. AnswerInv(g, k)
  <2>1. CASE t.cmd = "cbor" /\ t.cid = h.active /\ t.of = Author(h)
      BY <1>2, <1>3, <2>1 DEF AnswerInv, Author
  <2>2. CASE t.cmd = "init" /\ t.left = 1 /\ t.at = h.active /\ t.of = h.resync /\ h.resync # Nothing
      BY <1>1, <1>2, <1>3, <2>2 DEF AnswerInv
  <2>3. QED
      BY <2>1, <2>2
<1>5. ProgramsInv(g, k) /\ ReceivingInv(g, k) /\ ProcessingInv(g, k)
    BY <1>2 DEF Linked, ProgramsInv, ReceivingInv, ProcessingInv
<1>6. QED
    BY <1>1, <1>2, <1>4, <1>5 DEF Linked, g

\* fv_fido_hid_complete.
LEMMA FinishedFacts ==
    ASSUME NEW h, NEW k, Linked(h, k), h.processing, NEW n \in Nat
    PROVE  /\ Linked(Finished(h, n), k)
           /\ Finished(h, n) \in Transport
           /\ Finished(h, n).tx \in Answer
           /\ h.resync = Nothing => Finished(h, n).tx.of = Author(h)
           /\ Finished(h, n).processing = FALSE
<1> DEFINE At(t) == [h EXCEPT !.receiving = FALSE, !.rx = <<>>, !.processing = FALSE, !.pending = FALSE,
                              !.tx = t]
           m == [Forgotten(h) EXCEPT !.processing = FALSE, !.pending = FALSE]
<1>1. h \in Transport /\ h.active \in Nat /\ h.resync \in Message /\ h.rx \in Seq(Piece)
    BY DEF Linked, Transport
<1>2. \A t : At(t).tx = t /\ At(t).processing = FALSE
    BY <1>1 DEF Transport
<1>3. Author(h) \in Message
  <2>1. Len(h.rx) >= 1
      BY DEF Linked, ProcessingInv, Prefix
  <2>2. h.rx[1] \in Piece
      BY <1>1, <2>1
  <2>3. QED
      BY <2>2 DEF Author, Piece, Message
<1>4. Finished(h, n) =
        IF ~h.processing THEN h
        ELSE IF h.resync # Nothing THEN [Replied(m, h.active, "init", h.resync, 1) EXCEPT !.tx.at = h.active]
        ELSE Replied(m, h.active, "cbor", Author(h), IF h.cancelled THEN 1 ELSE n)
    BY Zenon DEF Finished
<1> HIDE DEF m
<1>5. CASE h.resync # Nothing
  <2> DEFINE t0 == [cid |-> h.active, cmd |-> "init", of |-> h.resync, at |-> 0, left |-> 1]
             t == [cid |-> h.active, cmd |-> "init", of |-> h.resync, at |-> h.active, left |-> 1]
  <2>1. Finished(h, n) = [At(t0) EXCEPT !.tx.at = h.active]
    <3>1. Finished(h, n) = [Replied(m, h.active, "init", h.resync, 1) EXCEPT !.tx.at = h.active]
        BY <1>4, <1>5
    <3>2. Replied(m, h.active, "init", h.resync, 1) = At(t0)
        BY <1>1 DEF Replied, Forgotten, Transport, m
    <3> HIDE DEF At, m, t0
    <3>3. QED
        BY <3>1, <3>2
  <2>2. [t0 EXCEPT !.at = h.active] = t
      OBVIOUS
  <2>3. /\ t \in Answer /\ t.cmd = "init" /\ t.left = 1 /\ t.at = h.active /\ t.of = h.resync
      BY <1>1 DEF Answer
  <2> HIDE DEF t0, t
  <2>4. At(t0).tx = t0
      BY <1>2
  <2>5. [At(t0) EXCEPT !.tx = t] = At(t)
      BY <1>1 DEF Transport
  <2>6. Linked(At(t), k)
      BY <1>5, <2>3, AnsweredFacts
  <2>7. At(t).tx = t /\ At(t).processing = FALSE
      BY <1>2
  <2> HIDE DEF At
  <2>8. Finished(h, n) = At(t)
      BY <2>1, <2>2, <2>4, <2>5
  <2>9. QED
      BY <1>5, <2>3, <2>6, <2>7, <2>8 DEF Linked
<1>6. CASE h.resync = Nothing
  <2> DEFINE j == IF h.cancelled THEN 1 ELSE n
             t == [cid |-> h.active, cmd |-> "cbor", of |-> Author(h), at |-> 0, left |-> j]
  <2>1. Finished(h, n) = At(t)
    <3>1. Finished(h, n) = Replied(m, h.active, "cbor", Author(h), j)
        BY <1>4, <1>6
    <3>2. Replied(m, h.active, "cbor", Author(h), j) = At(t)
        BY <1>1 DEF Replied, Forgotten, Transport, m
    <3> HIDE DEF At, m, t
    <3>3. QED
        BY <3>1, <3>2
  <2>2. j \in Nat
      OBVIOUS
  <2> HIDE DEF j
  <2>3. t \in Answer /\ t.cmd = "cbor" /\ t.cid = h.active /\ t.of = Author(h)
      BY <1>1, <1>3, <2>2 DEF Answer
  <2> HIDE DEF t
  <2>4. Linked(At(t), k)
      BY <2>3, AnsweredFacts
  <2>5. At(t).tx = t /\ At(t).processing = FALSE
      BY <1>2
  <2> HIDE DEF At
  <2>6. QED
      BY <2>1, <2>3, <2>4, <2>5 DEF Linked
<1>7. QED
    BY <1>5, <1>6

\* An answer that ends, or an error, leaves the transport in step.
LEMMA QuietFacts ==
    ASSUME NEW h, NEW k, Linked(h, k), NEW t \in Answer, t.left = 0 \/ t.cmd = "error" \/
           (t.cmd = h.tx.cmd /\ t.of = h.tx.of /\ t.cid = h.tx.cid /\ h.tx.left > 0 /\ h.tx.cmd # "init")
    PROVE  Linked([h EXCEPT !.tx = t], k)
<1> DEFINE g == [h EXCEPT !.tx = t]
<1>1. h \in Transport
    BY DEF Linked
<1>2. /\ g \in Transport /\ g.tx = t
      /\ g.active = h.active /\ g.next = h.next /\ g.cmd = h.cmd /\ g.size = h.size /\ g.rx = h.rx
      /\ g.seq = h.seq /\ g.receiving = h.receiving /\ g.processing = h.processing
      /\ g.pending = h.pending /\ g.resync = h.resync
    BY <1>1 DEF Transport
<1> HIDE DEF g
<1>3. AnswerInv(g, k)
  <2>1. CASE t.left = 0 \/ t.cmd = "error"
      BY <1>2, <2>1 DEF AnswerInv
  <2>2. CASE t.cmd = h.tx.cmd /\ t.of = h.tx.of /\ t.cid = h.tx.cid /\ h.tx.left > 0 /\ h.tx.cmd # "init"
    <3>1. CASE t.cmd = "error"
        BY <2>1, <3>1
    <3>2. CASE t.cmd # "error"
      <4>1. AnswerInv(h, k)
          BY DEF Linked
      <4>2. /\ ~h.receiving /\ ~h.processing /\ h.tx.cmd # "none"
            /\ h.tx.cmd \in {"ping", "cbor"} =>
                /\ h.tx.cid # 0
                /\ \A c \in Clients : k[c].cid = h.tx.cid =>
                    k[c].st = "resync" \/ (k[c].st = "waiting" /\ h.tx.of = [by |-> c, n |-> k[c].n])
          BY <2>2, <3>2, <4>1, Zenon DEF AnswerInv
      <4>3. QED
          BY <1>2, <2>2, <4>2 DEF AnswerInv
    <3>3. QED
        BY <3>1, <3>2
  <2>3. QED
      BY <2>1, <2>2
<1>4. ProgramsInv(g, k) /\ ReceivingInv(g, k) /\ ProcessingInv(g, k)
    BY <1>2 DEF Linked, ProgramsInv, ReceivingInv, ProcessingInv, Prefix
<1>5. QED
    BY <1>2, <1>3, <1>4 DEF Linked, g

\* An error makes the program that waits on its channel resynchronise.
LEMMA ErrorHeard ==
    ASSUME NEW h, NEW k, Linked(h, k), NEW q \in [Clients -> Program],
           \A c \in Clients :
             /\ q[c].cid = k[c].cid /\ q[c].n = k[c].n /\ q[c].size = k[c].size /\ q[c].sent = k[c].sent
             /\ q[c].st = k[c].st \/ (k[c].st = "waiting" /\ q[c].st = "resync")
    PROVE  Linked(h, q)
<1>1. /\ h \in Transport /\ h.active < h.next /\ h.next >= 1
    BY DEF Linked
<1>2. ProgramsInv(h, q)
  <2>1. \A c \in Clients : /\ q[c].cid < h.next /\ (q[c].cid = 0 <=> q[c].st = "new")
                           /\ q[c].st = "sending" => q[c].sent >= 1 /\ q[c].sent < q[c].size
    <3>1. SUFFICES ASSUME NEW c \in Clients
                   PROVE  /\ q[c].cid < h.next /\ (q[c].cid = 0 <=> q[c].st = "new")
                          /\ q[c].st = "sending" => q[c].sent >= 1 /\ q[c].sent < q[c].size
        OBVIOUS
    <3>2. /\ k[c].cid < h.next /\ (k[c].cid = 0 <=> k[c].st = "new")
          /\ k[c].st = "sending" => k[c].sent >= 1 /\ k[c].sent < k[c].size
        BY DEF Linked, ProgramsInv
    <3>3. QED
        BY <3>2
  <2>2. \A b, c \in Clients : q[b].cid = q[c].cid /\ q[b].cid # 0 => b = c
      BY DEF Linked, ProgramsInv
  <2>3. QED
      BY <2>1, <2>2 DEF ProgramsInv
<1>3. ReceivingInv(h, q)
  <2>1. SUFFICES ASSUME h.receiving, NEW b \in Clients, q[b].cid = h.active
                 PROVE  /\ h.rx[1].by = b /\ q[b].st # "ready"
                        /\ q[b].st \in {"sending", "waiting"} => h.rx[1].n = q[b].n /\ h.size = q[b].size
      BY DEF Linked, ReceivingInv
  <2>2. /\ h.rx[1].by = b /\ k[b].st # "ready"
        /\ k[b].st \in {"sending", "waiting"} => h.rx[1].n = k[b].n /\ h.size = k[b].size
      BY <2>1 DEF Linked, ReceivingInv
  <2>3. QED
      BY <2>2
<1>4. ProcessingInv(h, q)
  <2>1. SUFFICES ASSUME h.processing, NEW b \in Clients, q[b].cid = h.active
                 PROVE  /\ h.rx[1].by = b /\ (h.resync # Nothing => h.resync.by = b)
                        /\ q[b].st = "resync" \/ (q[b].st = "waiting" /\ h.rx[1].n = q[b].n)
      BY DEF Linked, ProcessingInv
  <2>2. /\ h.rx[1].by = b /\ (h.resync # Nothing => h.resync.by = b)
        /\ k[b].st = "resync" \/ (k[b].st = "waiting" /\ h.rx[1].n = k[b].n)
      BY <2>1 DEF Linked, ProcessingInv
  <2>3. QED
      BY <2>2
<1>5. AnswerInv(h, q)
  <2>1. SUFFICES ASSUME h.tx.left > 0, h.tx.cmd \in {"ping", "cbor"}, NEW b \in Clients,
                        q[b].cid = h.tx.cid
                 PROVE  q[b].st = "resync" \/ (q[b].st = "waiting" /\ h.tx.of = [by |-> b, n |-> q[b].n])
      BY DEF Linked, AnswerInv
  <2>2. k[b].st = "resync" \/ (k[b].st = "waiting" /\ h.tx.of = [by |-> b, n |-> k[b].n])
      BY <2>1 DEF Linked, AnswerInv
  <2>3. QED
      BY <2>2
<1>6. QED
    BY <1>1, <1>2, <1>3, <1>4, <1>5 DEF Linked

\* What the programs make of an error.
LEMMA HeardOfError ==
    ASSUME HidInv, NEW p, p.cmd = "error", cl' = [c \in Clients |-> Heard(c, p)]
    PROVE  /\ Linked(d, cl')
           /\ ~\E c \in Clients : Mistaken(c, p)
<1>1. /\ Linked(d, cl) /\ cl \in [Clients -> Program]
    BY DEF HidInv, Linked, ProgramsInv
<1>2. ASSUME NEW c \in Clients
      PROVE  /\ Heard(c, p) \in Program
             /\ Heard(c, p).cid = cl[c].cid /\ Heard(c, p).n = cl[c].n /\ Heard(c, p).size = cl[c].size
             /\ Heard(c, p).sent = cl[c].sent
             /\ Heard(c, p).st = cl[c].st \/ (cl[c].st = "waiting" /\ Heard(c, p).st = "resync")
  <2> DEFINE x == cl[c]
  <2>1. x \in Program
      BY <1>1
  <2>2. \/ Heard(c, p) = x
        \/ Heard(c, p) = [x EXCEPT !.st = "resync"] /\ x.st = "waiting"
        \/ Heard(c, p) = [x EXCEPT !.failed = TRUE]
      BY DEF Heard
  <2> HIDE DEF x
  <2>3. \/ Heard(c, p) = x
        \/ /\ x.st = "waiting" /\ Heard(c, p) \in Program /\ Heard(c, p).st = "resync"
           /\ Heard(c, p).cid = x.cid /\ Heard(c, p).n = x.n /\ Heard(c, p).size = x.size
           /\ Heard(c, p).sent = x.sent
        \/ /\ Heard(c, p).st = x.st /\ Heard(c, p) \in Program
           /\ Heard(c, p).cid = x.cid /\ Heard(c, p).n = x.n /\ Heard(c, p).size = x.size
           /\ Heard(c, p).sent = x.sent
      BY <2>1, <2>2 DEF Program
  <2>4. QED
      BY <2>1, <2>3 DEF x
<1>3. cl' \in [Clients -> Program] /\ \A c \in Clients : cl'[c] = Heard(c, p)
    BY <1>2
<1>4. Linked(d, cl')
  <2> DEFINE q == cl'
  <2>1. /\ q \in [Clients -> Program]
        /\ \A c \in Clients :
             /\ q[c].cid = cl[c].cid /\ q[c].n = cl[c].n /\ q[c].size = cl[c].size /\ q[c].sent = cl[c].sent
             /\ q[c].st = cl[c].st \/ (cl[c].st = "waiting" /\ q[c].st = "resync")
      BY <1>2, <1>3
  <2> HIDE DEF q
  <2>2. Linked(d, q)
      BY <1>1, <2>1, ErrorHeard
  <2>3. QED
      BY <2>2 DEF q
<1>5. QED
    BY <1>4 DEF Mistaken

\* An answer is heard by the program it was meant for, and by no other.
LEMMA HeardOfAnswer ==
    ASSUME HidInv, d.tx.left > 0, d.tx.cmd # "error", cl' = [c \in Clients |-> Heard(c, d.tx)]
    PROVE  /\ ~\E c \in Clients : Mistaken(c, d.tx)
           /\ d.tx.left # 1 => cl' = cl /\ d.tx.cmd # "init"
           /\ d.tx.left = 1 => ProgramsInv(d, cl')
           /\ ~d.receiving /\ ~d.processing
<1>1. /\ Linked(d, cl) /\ cl \in [Clients -> Program] /\ d \in Transport /\ d.tx \in Answer
      /\ ProgramsInv(d, cl) /\ AnswerInv(d, cl)
    BY DEF HidInv, Linked, ProgramsInv, Transport
<1>2. /\ ~d.receiving /\ ~d.processing /\ d.tx.cmd \in {"init", "ping", "cbor"}
      /\ d.tx.left \in Nat /\ d.tx.at \in Nat /\ d.tx.cid \in Int
    BY <1>1 DEF AnswerInv, Answer
<1>3. CASE d.tx.cmd = "init"
  <2>1. /\ d.tx.left = 1 /\ d.tx.at >= 1 /\ d.tx.at < d.next
        /\ \A c \in Clients : cl[c].cid = d.tx.at => c = d.tx.of.by
      BY <1>1, <1>3 DEF AnswerInv
  <2>2. ASSUME NEW c \in Clients
        PROVE  \/ Heard(c, d.tx) = cl[c]
               \/ Heard(c, d.tx) = [cl[c] EXCEPT !.st = "ready", !.cid = d.tx.at] /\ c = d.tx.of.by
    <3>1. CASE cl[c].st \in {"new", "resync"} /\ d.tx.of = [by |-> c, n |-> cl[c].n]
      <4>1. Heard(c, d.tx) = [cl[c] EXCEPT !.st = "ready", !.cid = d.tx.at]
          BY <1>3, <3>1, Zenon DEF Heard
      <4>2. QED
          BY <3>1, <4>1
    <3>2. CASE ~(cl[c].st \in {"new", "resync"} /\ d.tx.of = [by |-> c, n |-> cl[c].n])
        BY <1>3, <3>2 DEF Heard
    <3>3. QED
        BY <3>1, <3>2
  <2>3. ASSUME NEW c \in Clients
        PROVE  /\ Heard(c, d.tx) \in Program
               /\ \/ Heard(c, d.tx) = cl[c]
                  \/ Heard(c, d.tx).st = "ready" /\ Heard(c, d.tx).cid = d.tx.at /\ c = d.tx.of.by
    <3>1. cl[c] \in Program
        BY <1>1
    <3>2. QED
        BY <1>2, <2>2, <3>1, ZenonT(60) DEF Program
  <2>4. \A c \in Clients : cl'[c] = Heard(c, d.tx)
      OBVIOUS
  <2> DEFINE q == cl'
  <2>5. /\ q \in [Clients -> Program]
        /\ \A c \in Clients : \/ q[c] = cl[c]
                              \/ q[c].st = "ready" /\ q[c].cid = d.tx.at /\ c = d.tx.of.by
      BY <2>3, <2>4
  <2> HIDE DEF q
  <2>6. ProgramsInv(d, q)
    <3>1. \A c \in Clients : /\ q[c].cid < d.next /\ (q[c].cid = 0 <=> q[c].st = "new")
                             /\ q[c].st = "sending" => q[c].sent >= 1 /\ q[c].sent < q[c].size
        BY <1>1, <2>1, <2>5 DEF ProgramsInv
    <3>2. \A b, c \in Clients : q[b].cid = q[c].cid /\ q[b].cid # 0 => b = c
        BY <1>1, <2>1, <2>5 DEF ProgramsInv
    <3>3. QED
        BY <2>5, <3>1, <3>2 DEF ProgramsInv
  <2>7. QED
      BY <1>2, <1>3, <2>1, <2>6 DEF Mistaken, q
<1>4. CASE d.tx.cmd \in {"ping", "cbor"}
  <2>1. /\ d.tx.cid # 0
        /\ \A c \in Clients : cl[c].cid = d.tx.cid =>
              cl[c].st = "resync" \/ (cl[c].st = "waiting" /\ d.tx.of = [by |-> c, n |-> cl[c].n])
      BY <1>1, <1>4 DEF AnswerInv
  <2>2. ASSUME NEW c \in Clients
        PROVE  \/ Heard(c, d.tx) = cl[c]
               \/ /\ Heard(c, d.tx) = [cl[c] EXCEPT !.st = "ready"] /\ d.tx.left = 1
                  /\ cl[c].cid = d.tx.cid
      BY <1>4 DEF Heard
  <2>3. ASSUME NEW c \in Clients
        PROVE  /\ Heard(c, d.tx) \in Program /\ Heard(c, d.tx).cid = cl[c].cid
               /\ \/ Heard(c, d.tx) = cl[c]
                  \/ Heard(c, d.tx).st = "ready" /\ cl[c].cid # 0 /\ d.tx.left = 1
    <3>1. cl[c] \in Program
        BY <1>1
    <3>2. QED
        BY <1>2, <2>1, <2>2, <3>1, ZenonT(60) DEF Program
  <2> DEFINE q == cl'
  <2>5. /\ q \in [Clients -> Program]
        /\ \A c \in Clients : /\ q[c].cid = cl[c].cid
                              /\ \/ q[c] = cl[c]
                                 \/ q[c].st = "ready" /\ cl[c].cid # 0 /\ d.tx.left = 1
      BY <2>3
  <2> HIDE DEF q
  <2>6. ProgramsInv(d, q)
    <3>1. \A c \in Clients : /\ q[c].cid < d.next /\ (q[c].cid = 0 <=> q[c].st = "new")
                             /\ q[c].st = "sending" => q[c].sent >= 1 /\ q[c].sent < q[c].size
        BY <1>1, <2>5 DEF ProgramsInv
    <3>2. \A b, c \in Clients : q[b].cid = q[c].cid /\ q[b].cid # 0 => b = c
        BY <1>1, <2>5 DEF ProgramsInv
    <3>3. QED
        BY <2>5, <3>1, <3>2 DEF ProgramsInv
  <2>7. d.tx.left # 1 => q = cl
      BY <1>1, <2>5
  <2>8. ~\E c \in Clients : Mistaken(c, d.tx)
      BY <2>1 DEF Mistaken
  <2>9. QED
      BY <1>2, <1>4, <2>6, <2>7, <2>8 DEF q
<1>5. QED
    BY <1>2, <1>3, <1>4

\* One report of the answer in progress, or a control report, is sent.
LEMMA SendReportStep == HidInv /\ SendReport => HidInv'
<1>1. SUFFICES ASSUME HidInv, SendReport PROVE HidInv'
    OBVIOUS
<1>2. /\ Linked(d, cl) /\ d \in Transport /\ d.tx \in Answer /\ lost = FALSE /\ discard = FALSE /\ wrong = FALSE
      /\ d.tx.left \in Nat /\ ProgramsInv(d, cl)
    BY <1>1 DEF HidInv, Linked, SendReport, Transport, Answer
<1>3. lost' = lost /\ discard' = discard /\ work' = work
    BY <1>1 DEF SendReport
<1>4. ASSUME NEW g, d' = g, Linked(g, cl'), wrong' = FALSE, g.processing = d.processing,
             g.pending = d.pending, g.rx = d.rx
      PROVE  HidInv'
  <2>1. Linked(d', cl')
      BY <1>4
  <2>2. Author(d') = Author(d)
      BY <1>4 DEF Author
  <2>3. QED
      BY <1>1, <1>2, <1>3, <1>4, <2>1, <2>2 DEF HidInv
<1>5. CASE d.control # NoControl
  <2> DEFINE p == [Idle EXCEPT !.cid = d.control, !.cmd = "error", !.left = 1]
             g == [d EXCEPT !.control = NoControl]
  <2>1. /\ d' = g /\ cl' = [c \in Clients |-> Heard(c, p)]
        /\ wrong' = (wrong \/ \E c \in Clients : Mistaken(c, p))
      BY <1>1, <1>5, Zenon DEF SendReport
  <2>2. p.cmd = "error"
      BY DEF Idle
  <2> HIDE DEF p
  <2>3. Linked(d, cl') /\ ~\E c \in Clients : Mistaken(c, p)
      BY <1>1, <2>1, <2>2, HeardOfError
  <2>4. wrong' = FALSE
      BY <1>2, <2>1, <2>3
  <2>5. /\ g \in Transport /\ g.tx = d.tx
        /\ g.active = d.active /\ g.next = d.next /\ g.cmd = d.cmd /\ g.size = d.size /\ g.rx = d.rx
        /\ g.seq = d.seq /\ g.receiving = d.receiving /\ g.processing = d.processing
        /\ g.pending = d.pending /\ g.resync = d.resync
      BY <1>2, SMTT(60) DEF Transport, NoControl
  <2>6. Linked(g, cl')
    <3> DEFINE q == cl'
    <3> HIDE DEF g, q
    <3>1. Linked(d, q)
        BY <2>3 DEF q
    <3>2. Linked(g, q)
        BY <2>5, <3>1 DEF Linked, ProgramsInv, ReceivingInv, ProcessingInv, AnswerInv, Prefix
    <3>3. QED
        BY <3>2 DEF q
  <2> HIDE DEF g
  <2>7. QED
      BY <1>4, <2>1, <2>4, <2>5, <2>6
<1>6. CASE d.control = NoControl
  <2> DEFINE left == d.tx.left - 1
             t == [d.tx EXCEPT !.left = left]
             u == IF d.tx.left = 1 THEN Idle ELSE t
             g == [d EXCEPT !.tx = u]
  <2>1. /\ d' = IF d.tx.left = 1 THEN [d EXCEPT !.tx = Idle] ELSE [d EXCEPT !.tx.left = @ - 1]
        /\ cl' = [c \in Clients |-> Heard(c, d.tx)]
        /\ wrong' = (wrong \/ \E c \in Clients : Mistaken(c, d.tx))
        /\ Transmitting(d)
      BY <1>1, <1>6, Zenon DEF SendReport
  <2>2. d' = g
      BY <2>1
  <2>3. d.tx.left > 0 /\ left \in Nat
      BY <1>2, <2>1 DEF Transmitting
  <2>4. Idle \in Answer /\ Idle.left = 0
      BY DEF Idle, Answer, Nothing, Message
  <2>5. /\ t \in Answer /\ t.cmd = d.tx.cmd /\ t.of = d.tx.of /\ t.cid = d.tx.cid
    <3> HIDE DEF left
    <3>1. QED
        BY <1>2, <2>3 DEF Answer
  <2>6. u \in Answer /\ (d.tx.left = 1 => u = Idle) /\ (d.tx.left # 1 => u = t)
      BY <2>4, <2>5
  <2> HIDE DEF u, t, left
  <2>7. /\ g \in Transport /\ g.tx = u
        /\ g.active = d.active /\ g.next = d.next /\ g.receiving = d.receiving
        /\ g.processing = d.processing /\ g.pending = d.pending /\ g.rx = d.rx
      BY <1>2, <2>6 DEF Transport
  <2>8. CASE d.tx.cmd = "error"
    <3>1. Linked(d, cl') /\ ~\E c \in Clients : Mistaken(c, d.tx)
        BY <1>1, <2>1, <2>8, HeardOfError
    <3>2. wrong' = FALSE
        BY <1>2, <2>1, <3>1
    <3> DEFINE q == cl'
    <3> HIDE DEF q
    <3>3. Linked(d, q)
        BY <3>1 DEF q
    <3>4. Linked(g, q)
        BY <2>4, <2>5, <2>6, <2>8, <3>3, QuietFacts
    <3> HIDE DEF g
    <3>5. QED
        BY <1>4, <2>2, <2>7, <3>2, <3>4 DEF q
  <2>9. CASE d.tx.cmd # "error"
    <3>1. /\ ~\E c \in Clients : Mistaken(c, d.tx)
          /\ d.tx.left # 1 => cl' = cl /\ d.tx.cmd # "init"
          /\ d.tx.left = 1 => ProgramsInv(d, cl')
          /\ ~d.receiving /\ ~d.processing
        BY <1>1, <2>1, <2>3, <2>9, HeardOfAnswer
    <3>2. wrong' = FALSE
        BY <1>2, <2>1, <3>1
    <3>3. CASE d.tx.left = 1
      <4> DEFINE q == cl'
      <4> HIDE DEF g, q
      <4>1. ProgramsInv(d, q)
          BY <3>1, <3>3 DEF q
      <4>2. g.tx.left = 0
          BY <2>4, <2>6, <2>7, <3>3
      <4>3. ProgramsInv(g, q)
          BY <2>7, <4>1 DEF ProgramsInv
      <4>4. ReceivingInv(g, q) /\ ProcessingInv(g, q) /\ AnswerInv(g, q)
          BY <1>2, <2>7, <3>1, <4>2 DEF Linked, ReceivingInv, ProcessingInv, AnswerInv
      <4>5. Linked(g, q)
          BY <1>2, <2>7, <4>3, <4>4 DEF Linked
      <4>6. QED
          BY <1>4, <2>2, <2>7, <3>2, <4>5 DEF q
    <3>4. CASE d.tx.left # 1
      <4>1. cl' = cl
          BY <3>1, <3>4
      <4>2. Linked(g, cl)
          BY <1>2, <2>3, <2>5, <2>6, <3>1, <3>4, QuietFacts
      <4> HIDE DEF g
      <4>3. Linked(g, cl')
          BY <4>1, <4>2
      <4>4. QED
          BY <1>4, <2>2, <2>7, <3>2, <4>3
    <3>5. QED
        BY <3>3, <3>4
  <2>10. QED
      BY <2>8, <2>9
<1>7. QED
    BY <1>5, <1>6

\* The other steps of the device.
LEMMA DeviceStep == HidInv /\ Device => HidInv'
<1>1. SUFFICES ASSUME HidInv, Device PROVE HidInv'
    OBVIOUS
<1>2. /\ Linked(d, cl) /\ d \in Transport /\ d.tx \in Answer /\ lost \in BOOLEAN /\ discard \in BOOLEAN
      /\ wrong = FALSE /\ work \in Message /\ d.rx \in Seq(Piece) /\ d.active \in Nat
    BY <1>1 DEF HidInv, Linked, Transport
<1>3. /\ lost \/ discard => \A c \in Clients : cl[c].st = "new"
      /\ discard => work # Nothing
      /\ work # Nothing /\ ~discard => d.processing /\ ~d.pending /\ work = Author(d)
    BY <1>1 DEF HidInv
<1>4. d.pending => d.processing
    BY <1>2 DEF Linked, ProcessingInv
<1>5. d.processing => Author(d) \in Message
  <2>1. SUFFICES ASSUME d.processing PROVE Author(d) \in Message
      OBVIOUS
  <2>2. Len(d.rx) >= 1
      BY <1>2, <2>1 DEF Linked, ProcessingInv, Prefix
  <2>3. d.rx[1] \in Piece
      BY <1>2, <2>2
  <2>4. QED
      BY <2>3 DEF Author, Piece, Message
<1>6. CASE Lost
  <2>1. /\ lost /\ lost' = FALSE /\ work' = work /\ cl' = cl /\ wrong' = wrong
        /\ IF work = Nothing THEN d' = Fresh /\ discard' = discard ELSE discard' = TRUE /\ d' = d
      BY <1>6 DEF Lost, Quiet
  <2>2. Linked(Fresh, cl)
      BY <1>2, <1>3, <2>1, FreshFacts
  <2>3. Linked(d', cl')
      BY <1>2, <2>1, <2>2
  <2>4. QED
      BY <1>2, <1>3, <2>1, <2>3 DEF HidInv
<1>7. CASE Start
  <2> DEFINE g == [d EXCEPT !.pending = FALSE]
  <2>1. /\ lost = FALSE /\ discard = FALSE /\ d.pending /\ work' = Author(d) /\ d' = g
        /\ lost' = lost /\ discard' = discard /\ cl' = cl /\ wrong' = wrong
      BY <1>2, <1>7 DEF Start
  <2>2. /\ g \in Transport /\ g.tx = d.tx
        /\ g.active = d.active /\ g.next = d.next /\ g.cmd = d.cmd /\ g.size = d.size /\ g.rx = d.rx
        /\ g.seq = d.seq /\ g.receiving = d.receiving /\ g.processing = d.processing
        /\ g.pending = FALSE /\ g.resync = d.resync
      BY <1>2 DEF Transport
  <2> HIDE DEF g
  <2>3. Linked(g, cl)
      BY <1>2, <2>2 DEF Linked, ProgramsInv, ReceivingInv, ProcessingInv, AnswerInv, Prefix
  <2>4. Linked(d', cl')
      BY <2>1, <2>3
  <2>5. Author(d') = Author(d)
      BY <2>1, <2>2 DEF Author
  <2>6. QED
      BY <1>2, <1>4, <1>5, <2>1, <2>2, <2>4, <2>5 DEF HidInv
<1>8. CASE Denied
  <2>1. /\ lost = FALSE /\ discard = FALSE /\ d.pending /\ work' = work /\ work = Nothing
        /\ d' = Finished(d, 1) /\ lost' = lost /\ discard' = discard /\ cl' = cl /\ wrong' = wrong
      BY <1>2, <1>8 DEF Denied
  <2>2. Linked(Finished(d, 1), cl)
      BY <1>2, <1>4, <2>1, FinishedFacts
  <2>3. Linked(d', cl')
      BY <2>1, <2>2
  <2>4. QED
      BY <1>2, <2>1, <2>3 DEF HidInv
<1>9. CASE Done
  <2>1. /\ lost = FALSE /\ lost' = lost /\ work # Nothing /\ work' = Nothing /\ discard' = FALSE
        /\ cl' = cl /\ wrong' = wrong
        /\ d' = IF discard THEN Fresh
                ELSE IF d.processing
                THEN [Finished(d, Reports) EXCEPT !.tx.of = IF d.resync = Nothing THEN work ELSE @]
                ELSE d
      BY <1>2, <1>9, Zenon DEF Done
  <2>2. Linked(d', cl)
    <3>1. CASE discard
      <4>1. Linked(Fresh, cl)
          BY <1>2, <1>3, <3>1, FreshFacts
      <4>2. QED
          BY <2>1, <3>1, <4>1
    <3>2. CASE ~discard
      <4> DEFINE f == Finished(d, Reports)
      <4>1. d.processing /\ work = Author(d)
          BY <1>3, <2>1, <3>2
      <4>2. Reports \in Nat
          BY HidBounds
      <4>3. /\ Linked(f, cl) /\ f \in Transport /\ f.tx \in Answer
            /\ d.resync = Nothing => f.tx.of = Author(d)
          BY <1>2, <4>1, <4>2, FinishedFacts
      <4>4. d' = [f EXCEPT !.tx.of = IF d.resync = Nothing THEN work ELSE @]
          BY <2>1, <3>2, <4>1
      <4> HIDE DEF f
      <4>5. d' = f
        <5> DEFINE o == IF d.resync = Nothing THEN work ELSE f.tx.of
        <5>1. o = f.tx.of
            BY <4>1, <4>3
        <5>2. d' = [f EXCEPT !.tx = [f.tx EXCEPT !.of = o]]
            BY <4>4
        <5> HIDE DEF o
        <5>3. [f.tx EXCEPT !.of = o] = f.tx
            BY <4>3, <5>1 DEF Answer
        <5>4. [f EXCEPT !.tx = f.tx] = f
            BY <4>3 DEF Transport
        <5>5. QED
            BY <5>2, <5>3, <5>4
      <4>6. QED
          BY <4>3, <4>5
    <3>3. QED
        BY <3>1, <3>2
  <2>3. Linked(d', cl')
      BY <2>1, <2>2
  <2>4. Nothing \in Message
      BY DEF Nothing, Message
  <2>5. QED
      BY <1>2, <2>1, <2>3, <2>4 DEF HidInv
<1>10. CASE Tick
  <2>1. /\ lost = FALSE /\ discard = FALSE /\ d.receiving /\ d' = Refused(Forgotten(d), d.active)
        /\ lost' = lost /\ discard' = discard /\ work' = work /\ cl' = cl /\ wrong' = wrong
      BY <1>2, <1>10 DEF Tick, TimedOut
  <2>2. ~d.processing
      BY <1>2, <2>1 DEF Linked, ReceivingInv
  <2>3. Linked(Refused(Forgotten(d), d.active), cl)
    <3>1. Linked(Forgotten(d), cl) /\ d.active \in Int
        BY <1>2, <2>2, ForgottenFacts
    <3>2. QED
        BY <3>1, RefusedFacts
  <2>4. Linked(d', cl')
      BY <2>1, <2>3
  <2>5. work = Nothing
      BY <1>3, <2>1, <2>2
  <2>6. QED
      BY <1>2, <2>1, <2>4, <2>5 DEF HidInv
<1>11. CASE Revoke
  <2> DEFINE g == [d EXCEPT !.tx = Idle]
  <2>1. /\ lost = FALSE /\ discard = FALSE /\ d' = g
        /\ lost' = lost /\ discard' = discard /\ work' = work /\ cl' = cl /\ wrong' = wrong
      BY <1>2, <1>11 DEF Revoke
  <2>2. Idle \in Answer /\ Idle.left = 0
      BY DEF Idle, Answer, Nothing, Message
  <2>3. Linked(g, cl)
      BY <1>2, <2>2, QuietFacts
  <2>4. g.processing = d.processing /\ g.pending = d.pending /\ g.rx = d.rx
      BY <1>2 DEF Transport
  <2> HIDE DEF g
  <2>5. Linked(d', cl') /\ Author(d') = Author(d)
      BY <2>1, <2>3, <2>4 DEF Author
  <2>6. QED
      BY <1>2, <1>3, <2>1, <2>4, <2>5 DEF HidInv
<1>12. CASE SendReport
    BY <1>1, <1>12, SendReportStep
<1>13. QED
    BY <1>1, <1>6, <1>7, <1>8, <1>9, <1>10, <1>11, <1>12 DEF Device

-----------------------------------------------------------------------------
(* What the programs do *)

\* A report that arrives during the execution of a request leaves its message.
LEMMA ProcessingKept ==
    ASSUME NEW h \in Transport, NEW r, h.processing
    PROVE  /\ Receive(h, r).processing = h.processing /\ Receive(h, r).pending = h.pending
           /\ Receive(h, r).rx = h.rx
<1>1. Receive(h, r) = Interrupted(h, r)
    BY Zenon DEF Receive
<1>2. CASE r.cmd = "cancel"
  <2> DEFINE v == h.cancelled \/ r.cid = h.active
  <2>1. Interrupted(h, r) = [h EXCEPT !.cancelled = v]
      BY <1>2, Zenon DEF Interrupted
  <2> HIDE DEF v
  <2>2. QED
      BY <1>1, <2>1 DEF Transport
<1>3. CASE r.cmd # "cancel"
  <2>1. \/ Interrupted(h, r) = h
        \/ Interrupted(h, r) = [h EXCEPT !.cancelled = TRUE, !.resync = r.of]
        \/ Interrupted(h, r) = [h EXCEPT !.control = r.cid]
      BY <1>3 DEF Interrupted
  <2>2. QED
      BY <1>1, <2>1, ZenonT(60) DEF Transport
<1>4. QED
    BY <1>2, <1>3

\* A program has moved, and the device takes or drops its report.
LEMMA SendsStep ==
    ASSUME HidInv, NEW r, Sends(r), Linked(d, cl'), Valid(d, cl', r),
           discard => \A c \in Clients : cl'[c].st = "new"
    PROVE  HidInv'
<1>1. /\ d \in Transport /\ lost \in BOOLEAN /\ discard \in BOOLEAN /\ wrong = FALSE /\ work \in Message
      /\ discard => work # Nothing
      /\ work # Nothing /\ ~discard => d.processing /\ ~d.pending /\ work = Author(d)
    BY DEF HidInv, Linked
<1>2. /\ lost = FALSE /\ lost' = lost /\ discard' = discard /\ work' = work /\ wrong' = wrong
      /\ d' = IF discard THEN d ELSE Receive(d, r)
    BY <1>1 DEF Sends
<1>3. Linked(d', cl')
  <2> DEFINE q == cl'
  <2> HIDE DEF q
  <2>1. Linked(d, q) /\ Valid(d, q, r)
      BY DEF q
  <2>2. Linked(Receive(d, r), q)
      BY <2>1, ReceiveFacts
  <2>3. QED
      BY <1>2, <2>1, <2>2 DEF q
<1>4. work # Nothing /\ ~discard => d'.processing /\ ~d'.pending /\ work = Author(d')
  <2>1. SUFFICES ASSUME work # Nothing, ~discard
                 PROVE  d'.processing /\ ~d'.pending /\ work = Author(d')
      OBVIOUS
  <2>2. d.processing /\ ~d.pending /\ work = Author(d) /\ d' = Receive(d, r)
      BY <1>1, <1>2, <2>1
  <2>3. d'.processing = d.processing /\ d'.pending = d.pending /\ d'.rx = d.rx
      BY <1>1, <2>2, ProcessingKept
  <2>4. QED
      BY <2>2, <2>3 DEF Author
<1>5. QED
    BY <1>1, <1>2, <1>3, <1>4 DEF HidInv

\* The steps of a program.
LEMMA ClientStep ==
    ASSUME HidInv, NEW c \in Clients,
           \/ Hello(c) \/ Resync(c) \/ SendNext(c) \/ SendCancel(c) \/ SendBad(c) \/ Exit(c)
           \/ \E cmd \in {"ping", "cbor"}, size \in 1 .. MaxPieces : SendFirst(c, cmd, size)
    PROVE  HidInv'
<1> DEFINE x == cl[c]
<1>1. /\ Linked(d, cl) /\ d \in Transport /\ cl \in [Clients -> Program] /\ x \in Program
      /\ x.n \in Nat /\ x.cid \in Nat /\ x.size \in Nat /\ x.sent \in Nat /\ x.n + 1 \in Nat
      /\ lost \in BOOLEAN /\ discard \in BOOLEAN /\ (x.cid = 0 <=> x.st = "new")
      /\ x.st = "sending" => x.sent >= 1 /\ x.sent < x.size
  <2>1. Linked(d, cl) /\ ProgramsInv(d, cl) /\ d \in Transport /\ lost \in BOOLEAN /\ discard \in BOOLEAN
      BY DEF HidInv, Linked
  <2>2. cl \in [Clients -> Program] /\ x \in Program
      BY <2>1 DEF ProgramsInv
  <2>3. QED
      BY <2>1, <2>2 DEF ProgramsInv, Program
<1>2. lost \/ discard => \A b \in Clients : cl[b].st = "new"
    BY DEF HidInv
<1>3. CASE Hello(c)
  <2> DEFINE m == x.n + 1
             p == [NoClient EXCEPT !.n = m]
             r == [cid |-> Broadcast, cmd |-> "init", of |-> [by |-> c, n |-> m], at |-> 1, size |-> 1, seq |-> 0]
  <2>1. cl' = [cl EXCEPT ![c] = p] /\ Sends([Report(c, Broadcast, "init") EXCEPT !.of.n = @ + 1])
      BY <1>3, Zenon DEF Hello
  <2>2. [Report(c, Broadcast, "init") EXCEPT !.of.n = @ + 1] = r
      BY DEF Report
  <2> HIDE DEF m
  <2>3. p \in Program /\ p.cid = 0 /\ p.st = "new"
      BY <1>1 DEF NoClient, Program, m
  <2>4. r \in Request /\ r.cid = Broadcast /\ r.cmd = "init"
      BY <1>1 DEF Request, Broadcast, m
  <2> HIDE DEF p, r, x
  <2>5. Linked(d, [cl EXCEPT ![c] = p])
      BY <1>1, <2>3, ProgramLeaves
  <2>6. Linked(d, cl')
      BY <2>1, <2>5
  <2>7. Valid(d, cl', r)
      BY <2>4 DEF Valid
  <2>8. discard => \A b \in Clients : cl'[b].st = "new"
      BY <1>1, <1>2, <2>1, <2>3
  <2>9. QED
      BY <2>1, <2>2, <2>6, <2>7, <2>8, SendsStep
<1>4. CASE Resync(c)
  <2> DEFINE m == x.n + 1
             p == [x EXCEPT !.st = "resync", !.n = m, !.failed = FALSE]
             r == [cid |-> x.cid, cmd |-> "init", of |-> [by |-> c, n |-> m], at |-> 1, size |-> 1, seq |-> 0]
  <2>1. /\ x.st \in {"sending", "waiting", "resync"}
        /\ cl' = [cl EXCEPT ![c].st = "resync", ![c].n = @ + 1, ![c].failed = FALSE]
        /\ Sends([Report(c, cl[c].cid, "init") EXCEPT !.of.n = @ + 1])
      BY <1>4 DEF Resync
  <2>2. cl' = [cl EXCEPT ![c] = p]
      BY <1>1, <2>1
  <2>3. [Report(c, cl[c].cid, "init") EXCEPT !.of.n = @ + 1] = r
      BY DEF Report
  <2> HIDE DEF m, x
  <2>4. p \in Program /\ p.cid = x.cid /\ p.st = "resync" /\ x.cid # 0
      BY <1>1, <2>1 DEF Program, m
  <2>5. r \in Request /\ r.cid = x.cid /\ r.cmd = "init" /\ r.of.by = c
      BY <1>1 DEF Request, m
  <2> HIDE DEF p, r
  <2>6. Linked(d, [cl EXCEPT ![c] = p]) /\ [cl EXCEPT ![c] = p][c] = p
      BY <1>1, <2>4, ProgramMoves DEF x
  <2>7. Linked(d, cl') /\ cl'[c] = p
      BY <2>2, <2>6
  <2>8. Valid(d, cl', r)
      BY <2>4, <2>5, <2>7 DEF Valid
  <2>9. ~discard
      BY <1>2, <2>1 DEF x
  <2>10. QED
      BY <2>1, <2>3, <2>7, <2>8, <2>9, SendsStep
<1>5. CASE SendNext(c)
  <2> DEFINE s == x.sent + 1
             st == IF s < x.size THEN "sending" ELSE IF x.failed THEN "resync" ELSE "waiting"
             p == [x EXCEPT !.sent = s, !.st = st]
             e == x.sent - 1
             r == [cid |-> x.cid, cmd |-> "cont", of |-> [by |-> c, n |-> x.n], at |-> s, size |-> 1, seq |-> e]
  <2>1. /\ x.st = "sending"
        /\ cl' = [cl EXCEPT ![c].sent = @ + 1,
                            ![c].st = IF cl[c].sent + 1 < cl[c].size THEN @
                                      ELSE IF cl[c].failed THEN "resync" ELSE "waiting"]
        /\ Sends([Report(c, cl[c].cid, "cont") EXCEPT !.at = cl[c].sent + 1, !.seq = cl[c].sent - 1])
      BY <1>5, Zenon DEF SendNext
  <2>2. cl' = [cl EXCEPT ![c] = p]
    <3>1. [cl[c] EXCEPT !.sent = @ + 1].st = "sending"
        BY <1>1, <2>1 DEF Program
    <3>2. QED
        BY <1>1, <2>1, <3>1
  <2>3. [Report(c, cl[c].cid, "cont") EXCEPT !.at = cl[c].sent + 1, !.seq = cl[c].sent - 1] = r
    <3> DEFINE a == Report(c, cl[c].cid, "cont")
               b == [cid |-> x.cid, cmd |-> "cont", of |-> [by |-> c, n |-> x.n], at |-> s, size |-> 1, seq |-> 0]
    <3> HIDE DEF s, e
    <3>1. [a EXCEPT !.at = s] = b
        BY DEF Report
    <3>2. [b EXCEPT !.seq = e] = r
        OBVIOUS
    <3> HIDE DEF a, b, r
    <3>3. [a EXCEPT !.at = s, !.seq = e] = [[a EXCEPT !.at = s] EXCEPT !.seq = e]
        OBVIOUS
    <3>4. [a EXCEPT !.at = s, !.seq = e] = r
        BY <3>1, <3>2, <3>3
    <3>5. QED
        BY <3>4 DEF s, e, a, x
  <2>4. /\ s \in Nat /\ e \in Nat /\ s = e + 2 /\ s = x.sent + 1 /\ st \in {"sending", "waiting", "resync"}
        /\ st = "sending" => s >= 1 /\ s < x.size
      BY <1>1, <2>1
  <2>5. s = x.size => st # "sending"
      BY <1>1, <2>4
  <2> HIDE DEF s, st, e, x
  <2>6. /\ p \in Program /\ p.cid = x.cid /\ p.st = st /\ p.sent = s /\ p.size = x.size /\ p.n = x.n
        /\ x.cid # 0
      BY <1>1, <2>1, <2>4 DEF Program
  <2>7. /\ r \in Request /\ r.cid = x.cid /\ r.cmd = "cont" /\ r.of.by = c /\ r.of.n = x.n
        /\ r.at = s /\ r.seq = e
      BY <1>1, <2>4 DEF Request
  <2> HIDE DEF p, r
  <2>8. Linked(d, [cl EXCEPT ![c] = p]) /\ [cl EXCEPT ![c] = p][c] = p
      BY <1>1, <2>1, <2>4, <2>6, ProgramMoves DEF x
  <2>9. Linked(d, cl') /\ cl'[c] = p
      BY <2>2, <2>8
  <2>10. d.receiving /\ x.cid = d.active => d.rx[1].n = x.n /\ d.size = x.size
      BY <1>1, <2>1 DEF Linked, ReceivingInv, x
  <2>11. Valid(d, cl', r)
      BY <2>4, <2>5, <2>6, <2>7, <2>9, <2>10 DEF Valid
  <2>12. ~discard
      BY <1>2, <2>1 DEF x
  <2>13. QED
      BY <2>1, <2>3, <2>9, <2>11, <2>12, SendsStep
<1>6. CASE SendCancel(c)
  <2> DEFINE r == [cid |-> x.cid, cmd |-> "cancel", of |-> [by |-> c, n |-> x.n], at |-> 1, size |-> 1, seq |-> 0]
  <2>1. /\ x.st = "waiting" /\ cl' = cl /\ Sends(Report(c, cl[c].cid, "cancel"))
      BY <1>6 DEF SendCancel
  <2>2. Report(c, cl[c].cid, "cancel") = r
      BY DEF Report
  <2> HIDE DEF x
  <2>3. r \in Request /\ r.cid = x.cid /\ r.cmd = "cancel" /\ r.of.by = c /\ x.cid # 0
      BY <1>1, <2>1 DEF Request
  <2> HIDE DEF r
  <2>4. Linked(d, cl') /\ cl'[c] = x
      BY <1>1, <2>1 DEF x
  <2>5. Valid(d, cl', r)
      BY <2>3, <2>4 DEF Valid
  <2>6. ~discard
      BY <1>2, <2>1 DEF x
  <2>7. QED
      BY <2>1, <2>2, <2>4, <2>5, <2>6, SendsStep
<1>7. CASE SendBad(c)
  <2> DEFINE r == [cid |-> x.cid, cmd |-> "bad", of |-> [by |-> c, n |-> x.n], at |-> 1, size |-> 1, seq |-> 0]
             p == [x EXCEPT !.st = "resync"]
  <2>1. /\ x.st = "ready" /\ cl' = [cl EXCEPT ![c].st = "resync"] /\ Sends(Report(c, cl[c].cid, "bad"))
      BY <1>7 DEF SendBad
  <2>2. Report(c, cl[c].cid, "bad") = r
      BY DEF Report
  <2>3. cl' = [cl EXCEPT ![c] = p]
      BY <1>1, <2>1
  <2> HIDE DEF x
  <2>4. r \in Request /\ r.cid = x.cid /\ r.cmd = "bad" /\ r.of.by = c /\ x.cid # 0
      BY <1>1, <2>1 DEF Request
  <2>5. p \in Program /\ p.cid = x.cid /\ p.st = "resync"
      BY <1>1 DEF Program
  <2> HIDE DEF r, p
  <2>6. Linked(d, [cl EXCEPT ![c] = p]) /\ [cl EXCEPT ![c] = p][c] = p
      BY <1>1, <2>4, <2>5, ProgramMoves DEF x
  <2>7. Linked(d, cl') /\ cl'[c] = p
      BY <2>3, <2>6
  <2>8. Valid(d, cl', r)
      BY <2>4, <2>5, <2>7 DEF Valid
  <2>9. ~discard
      BY <1>2, <2>1 DEF x
  <2>10. QED
      BY <2>1, <2>2, <2>7, <2>8, <2>9, SendsStep
<1>8. CASE Exit(c)
  <2> DEFINE p == [NoClient EXCEPT !.n = x.n]
  <2>1. /\ cl' = [cl EXCEPT ![c] = p] /\ d' = d /\ lost' = lost /\ discard' = discard /\ work' = work
        /\ wrong' = wrong
      BY <1>8 DEF Exit
  <2> HIDE DEF x
  <2>2. p \in Program /\ p.cid = 0 /\ p.st = "new"
      BY <1>1 DEF NoClient, Program
  <2> HIDE DEF p
  <2>3. Linked(d, [cl EXCEPT ![c] = p])
      BY <1>1, <2>2, ProgramLeaves
  <2>4. Linked(d', cl')
      BY <2>1, <2>3
  <2>5. lost \/ discard => \A b \in Clients : cl'[b].st = "new"
      BY <1>1, <1>2, <2>1, <2>2
  <2>6. Author(d') = Author(d)
      BY <2>1, SMTT(60)
  <2>7. QED
      BY <2>1, <2>4, <2>5, <2>6 DEF HidInv
<1>9. CASE \E cmd \in {"ping", "cbor"}, size \in 1 .. MaxPieces : SendFirst(c, cmd, size)
  <2>1. PICK cmd \in {"ping", "cbor"}, size \in 1 .. MaxPieces : SendFirst(c, cmd, size)
      BY <1>9
  <2> DEFINE m == x.n + 1
             st == IF size = 1 THEN "waiting" ELSE "sending"
             p == [x EXCEPT !.st = st, !.n = m, !.size = size, !.sent = 1, !.failed = FALSE]
             r == [cid |-> x.cid, cmd |-> cmd, of |-> [by |-> c, n |-> m], at |-> 1, size |-> size, seq |-> 0]
  <2>2. /\ x.st = "ready"
        /\ cl' = [cl EXCEPT ![c].st = IF size = 1 THEN "waiting" ELSE "sending", ![c].n = @ + 1,
                            ![c].size = size, ![c].sent = 1, ![c].failed = FALSE]
        /\ Sends([Report(c, cl[c].cid, cmd) EXCEPT !.of.n = @ + 1, !.size = size])
      BY <2>1, Zenon DEF SendFirst
  <2>3. cl' = [cl EXCEPT ![c] = p]
      BY <1>1, <2>2 DEF Program
  <2>4. [Report(c, cl[c].cid, cmd) EXCEPT !.of.n = @ + 1, !.size = size] = r
    <3> DEFINE a == Report(c, cl[c].cid, cmd)
               b == [cid |-> x.cid, cmd |-> cmd, of |-> [by |-> c, n |-> m], at |-> 1, size |-> 1, seq |-> 0]
    <3>1. [a EXCEPT !.of.n = @ + 1] = b
        BY DEF Report
    <3> HIDE DEF m
    <3>2. [b EXCEPT !.size = size] = r
        OBVIOUS
    <3> HIDE DEF a, b, r
    <3>3. [a EXCEPT !.of.n = @ + 1, !.size = size] = [[a EXCEPT !.of.n = @ + 1] EXCEPT !.size = size]
        OBVIOUS
    <3>4. [a EXCEPT !.of.n = @ + 1, !.size = size] = r
        BY <3>1, <3>2, <3>3
    <3>5. QED
        BY <3>4 DEF a
  <2>5. size \in Nat /\ size >= 1 /\ m \in Nat /\ m >= 1
      BY <1>1
  <2>6. /\ st \in {"waiting", "sending"} /\ (st = "sending" => 1 < size)
        /\ st = IF size = 1 THEN "waiting" ELSE "sending"
      BY <2>5
  <2> HIDE DEF m, st, x
  <2>7. /\ p \in Program /\ p.cid = x.cid /\ p.st = st /\ p.n = m /\ p.size = size /\ p.sent = 1 /\ x.cid # 0
      BY <1>1, <2>2, <2>5, <2>6 DEF Program
  <2>8. /\ r \in Request /\ r.cid = x.cid /\ r.cmd = cmd /\ r.of.by = c /\ r.of.n = m /\ r.at = 1
        /\ r.size = size
      BY <1>1, <2>5 DEF Request
  <2> HIDE DEF p, r
  <2>9. Linked(d, [cl EXCEPT ![c] = p]) /\ [cl EXCEPT ![c] = p][c] = p
    <3>1. /\ p.cid = cl[c].cid /\ p.cid # 0 /\ p.st \in {"sending", "waiting", "resync"}
          /\ p.st = "sending" => p.sent >= 1 /\ p.sent < p.size
          /\ cl[c].st = "ready"
        BY <2>2, <2>5, <2>6, <2>7 DEF x
    <3>2. QED
        BY <1>1, <2>7, <3>1, ProgramMoves
  <2>10. Linked(d, cl') /\ cl'[c] = p
      BY <2>3, <2>9
  <2>11. Valid(d, cl', r)
      BY <2>5, <2>6, <2>7, <2>8, <2>10 DEF Valid
  <2>12. ~discard
      BY <1>2, <2>2 DEF x
  <2>13. QED
      BY <2>2, <2>4, <2>10, <2>11, <2>12, SendsStep
<1>10. QED
    BY <1>3, <1>4, <1>5, <1>6, <1>7, <1>8, <1>9

-----------------------------------------------------------------------------
(* The theorems *)

\* Every step keeps the transport and the programs in step.
LEMMA HidStep == HidInv /\ [Next]_vars => HidInv'
<1>1. SUFFICES ASSUME HidInv, [Next]_vars PROVE HidInv'
    OBVIOUS
<1>2. CASE Device
    BY <1>1, <1>2, DeviceStep
<1>3. CASE BusReset
  <2>1. /\ lost' = TRUE /\ d' = d /\ discard' = discard /\ work' = work /\ wrong' = wrong
        /\ cl' = [c \in Clients |-> [NoClient EXCEPT !.n = cl[c].n]]
      BY <1>3 DEF BusReset
  <2>2. Linked(d, cl) /\ cl \in [Clients -> Program]
      BY <1>1 DEF HidInv, Linked, ProgramsInv
  <2> DEFINE q == cl'
  <2>3. q \in [Clients -> Program] /\ \A c \in Clients : q[c].cid = 0 /\ q[c].st = "new"
      BY <2>1, <2>2 DEF NoClient, Program
  <2> HIDE DEF q
  <2>4. Linked(d, q)
      BY <2>2, <2>3, AllLeave
  <2>5. Linked(d', cl') /\ Author(d') = Author(d) /\ \A c \in Clients : cl'[c].st = "new"
      BY <2>1, <2>3, <2>4 DEF q
  <2>6. QED
      BY <1>1, <2>1, <2>5 DEF HidInv
<1>4. ASSUME NEW c \in Clients,
             \/ Hello(c) \/ Resync(c) \/ SendNext(c) \/ SendCancel(c) \/ SendBad(c) \/ Exit(c)
             \/ \E cmd \in {"ping", "cbor"}, size \in 1 .. MaxPieces : SendFirst(c, cmd, size)
      PROVE  HidInv'
    BY <1>1, <1>4, ClientStep
<1>5. CASE UNCHANGED vars
  <2>1. Linked(d', cl') /\ Author(d') = Author(d)
      BY <1>1, <1>5 DEF vars, HidInv
  <2>2. QED
      BY <1>1, <1>5, <2>1 DEF vars, HidInv
<1>6. QED
    BY <1>1, <1>2, <1>3, <1>4, <1>5 DEF Next, Host

\* In every reachable state the transport and the programs agree: no two
\* programs have one channel, the pieces in rx are the first ones of the
\* message its program sends or gave up, and an answer in progress is for the
\* program that waits on its channel (hid.c, fido_adapter.c).
THEOREM HidInvariant == Spec => []HidInv
<1>1. Init => HidInv
  <2>1. SUFFICES ASSUME Init PROVE HidInv
      OBVIOUS
  <2>2. /\ d = Fresh /\ lost = FALSE /\ discard = FALSE /\ work = Nothing /\ wrong = FALSE
        /\ cl = [c \in Clients |-> NoClient]
      BY <2>1 DEF Init
  <2>3. cl \in [Clients -> Program] /\ \A c \in Clients : cl[c].st = "new" /\ cl[c].cid = 0
      BY <2>2 DEF NoClient, Program
  <2>4. /\ Idle \in Answer /\ Nothing \in Message /\ <<>> \in Seq(Piece)
        /\ [i \in 0 .. Slots - 1 |-> 0] \in [0 .. Slots - 1 -> Nat]
      BY DEF Idle, Answer, Nothing, Message
  <2>5. /\ Fresh \in Transport /\ Fresh.active = 0 /\ Fresh.next = 1 /\ Fresh.receiving = FALSE
        /\ Fresh.processing = FALSE /\ Fresh.pending = FALSE /\ Fresh.tx = Idle
      BY <2>4 DEF Fresh, Transport, NoControl
  <2>6. Idle.left = 0
      BY DEF Idle
  <2>7. ProgramsInv(Fresh, cl)
      BY <2>3, <2>5 DEF ProgramsInv
  <2>8. ReceivingInv(Fresh, cl) /\ ProcessingInv(Fresh, cl) /\ AnswerInv(Fresh, cl)
      BY <2>5, <2>6 DEF ReceivingInv, ProcessingInv, AnswerInv
  <2>9. Linked(d, cl)
      BY <2>2, <2>5, <2>7, <2>8 DEF Linked
  <2>10. QED
      BY <2>2, <2>3, <2>4, <2>9 DEF HidInv
<1>2. QED
    BY <1>1, HidStep, PTL DEF Spec

\* The worker is only given whole messages of one program, every piece in its
\* place, for every number of programs, channels and pieces and every order in
\* which their reports interleave, get lost, are refused or time out
\* (fv_fido_hid_receive, fv_fido_hid_tick).
THEOREM HidWholeRequests == Spec => []WholeRequests
<1>1. HidInv => WholeRequests
  <2>1. SUFFICES ASSUME HidInv, d.processing
                 PROVE  /\ Len(d.rx) = d.size
                        /\ \A i \in 1 .. d.size :
                             d.rx[i].at = i /\ d.rx[i].by = d.rx[1].by /\ d.rx[i].n = d.rx[1].n
      BY DEF WholeRequests
  <2>2. Prefix(d) /\ Len(d.rx) = d.size
      BY <2>1 DEF HidInv, Linked, ProcessingInv
  <2>3. QED
      BY <2>2 DEF Prefix
<1>2. QED
    BY <1>1, HidInvariant, PTL

\* No program takes the answer to another message for its own, whatever it
\* gave up and whenever the bus was reset (channel allocation, INIT on an open
\* channel, the discarding of a late answer).
THEOREM HidOwnReplies == Spec => []OwnReplies
<1>1. HidInv => OwnReplies
    BY DEF HidInv, OwnReplies
<1>2. QED
    BY <1>1, HidInvariant, PTL

-----------------------------------------------------------------------------
(* The transport of the first generation (LegacyProbe).  Its invariant     *)
(* relates the transport p and the reports q on the way to it to the       *)
(* programs k, in the same two halves.                                     *)

ProbeAuthor == [by : Programs \cup {"nobody"}, n : Nat]
PieceType == [of : [by : Programs, n : Nat], at : Nat]
ProbeReport == [cid : Int, cmd : {"init", "ping", "cbor", "cont", "cancel", "bad"},
           of : [by : Programs, n : Nat], at : Nat, size : Nat, seq : Int]
ReplyType == [cid : Int, cmd : {"none", "init", "ping", "cbor", "error"}, of : ProbeAuthor, gives : Nat, left : Nat]
ProbeType ==
    [channels : SUBSET Nat, active : Int, cmd : {"none", "ping", "cbor"}, size : Nat,
     rx : Seq(PieceType), seq : Nat, receiving : BOOLEAN, reply : ReplyType,
     processing : BOOLEAN, cancelled : BOOLEAN, resync : ProbeAuthor, control : Int]
ProgramType ==
    [st : {"new", "opening", "ready", "sending", "waiting"}, cid : Nat, n : Nat, size : Nat, sent : Nat,
     failed : BOOLEAN]

\* A report that carries a piece of a message.
Part(r) == r.cmd \in {"ping", "cbor", "cont"}

\* A program that holds a channel is busy with the message on it, or gave it up.
Busy(s, of) == s.st = "opening" \/ (s.st \in {"sending", "waiting"} /\ of.n = s.n)

\* An INIT with the latest number of its program is what the program waits for.
Latest(s, of) == of.n <= s.n /\ (of.n = s.n => s.st \in {"opening", "ready"})

\* A channel belongs to the program it was given to, which may forget it.
ProgramSound(s, c, own) ==
    /\ s.cid # 0 => s.cid \in DOMAIN own /\ own[s.cid] = c
    /\ s.st \in {"ready", "sending", "waiting"} => s.cid # 0
    /\ s.st = "new" => s.cid = 0
    /\ s.st = "sending" => s.sent >= 1 /\ s.sent < s.size

\* What a report that waits says of its program.
ReportSound(r, s, own) ==
    /\ r.of.n <= s.n
    /\ IF r.cid = ToAll THEN r.cmd = "init" ELSE r.cid \in DOMAIN own /\ own[r.cid] = r.of.by
    /\ r.cmd = "init" => Latest(s, r.of)
    /\ Part(r) => /\ r.at >= 1 /\ IF r.cmd = "cont" THEN r.seq = r.at - 2 /\ r.at >= 2 ELSE r.at = 1 /\ r.size >= 1
                  /\ s.cid = r.cid => Busy(s, r.of)
                  /\ r.of.n = s.n => r.at <= s.sent /\ (r.cmd # "cont" => r.size = s.size)

\* No request is sent before the INIT that precedes it is answered, and on a
\* channel only the pieces of one message wait, in order.
Follows(r, t) ==
    /\ r.cmd = "init" /\ Part(t) /\ r.of.by = t.of.by => r.of.n < t.of.n
    /\ Part(r) /\ Part(t) /\ r.cid = t.cid => /\ r.of = t.of /\ r.at < t.at
                                              /\ r.cmd # "cont" => t.at <= r.size

QueueSound(q, k, own) ==
    /\ \A i \in 1 .. Len(q) : ReportSound(q[i], k[q[i].of.by], own)
    /\ \A i, j \in 1 .. Len(q) : i < j => Follows(q[i], q[j])

\* The message in rx, from its first piece on without a gap, and the pieces of
\* it that still wait.
MessageSound(p, q, s, c) ==
    /\ p.cmd \in {"ping", "cbor"}
    /\ Len(p.rx) >= 1 /\ Len(p.rx) <= p.size
    /\ \A i \in 1 .. Len(p.rx) : p.rx[i].at = i /\ p.rx[i].of = Sender(p)
    /\ Sender(p).by = c /\ Sender(p).n <= s.n
    /\ s.cid = p.active => Busy(s, Sender(p))
    /\ Sender(p).n = s.n => p.size = s.size /\ Len(p.rx) <= s.sent
    /\ \A i \in 1 .. Len(q) : Part(q[i]) /\ q[i].cid = p.active =>
          q[i].of = Sender(p) /\ Len(p.rx) < q[i].at /\ q[i].at <= p.size

ReceptionSound(p, q, k, own) ==
    /\ p.receiving \/ p.processing =>
          p.active \in DOMAIN own /\ MessageSound(p, q, k[own[p.active]], own[p.active])
    /\ p.receiving => ~p.processing /\ Len(p.rx) < p.size /\ p.seq = Len(p.rx) - 1
    /\ p.processing => /\ Len(p.rx) = p.size /\ ~Replying(p)
                       /\ p.resync # Nobody => p.resync.by = own[p.active] /\ Latest(k[own[p.active]], p.resync)

\* The answer in progress is to the program that holds its channel, which waits
\* for it or gave it up, and no piece waits on that channel.
AnswerSound(p, q, k, own) ==
    Replying(p) /\ p.reply.cmd # "error" =>
        /\ ~p.receiving /\ ~p.processing /\ p.reply.cmd # "none"
        /\ p.reply.cmd = "init" =>
              /\ p.reply.left = 1 /\ p.reply.gives \in DOMAIN own /\ own[p.reply.gives] = p.reply.of.by
              /\ Latest(k[p.reply.of.by], p.reply.of)
              /\ p.reply.of.n = k[p.reply.of.by].n =>
                    \A i \in 1 .. Len(q) : Part(q[i]) => q[i].cid # p.reply.gives
        /\ p.reply.cmd \in {"ping", "cbor"} =>
              /\ p.reply.cid \in DOMAIN own /\ own[p.reply.cid] = p.reply.of.by
              /\ LET s == k[p.reply.of.by]
                 IN s.cid = p.reply.cid => s.st # "sending" /\ Busy(s, p.reply.of)
              /\ \A i \in 1 .. Len(q) : Part(q[i]) => q[i].cid # p.reply.cid

Given(p, q, k, own) ==
    /\ \A c \in Programs : ProgramSound(k[c], c, own)
    /\ QueueSound(q, k, own) /\ ReceptionSound(p, q, k, own) /\ AnswerSound(p, q, k, own)

ProbeSound(p, q, k) ==
    \E m \in Nat : /\ p.channels = 1 .. m
                   /\ \E own \in [1 .. m -> Programs] : Given(p, q, k, own)

ProbeInv ==
    /\ probe \in ProbeType /\ queue \in Seq(ProbeReport) /\ programs \in [Programs -> ProgramType]
    /\ overflow \in BOOLEAN /\ mistaken = FALSE
    /\ ProbeSound(probe, queue, programs)

-----------------------------------------------------------------------------
(* The programs *)

\* A program gives up, moves on in the message it sends, or begins one when it
\* rests.  What it has sent before stays sound.
Moves(s, t) ==
    /\ t.n >= s.n /\ (t.cid = 0 \/ t.cid = s.cid)
    /\ t.n = s.n => t.size = s.size /\ t.sent >= s.sent
    /\ t.n = s.n /\ s.st \in {"opening", "ready"} => t.st \in {"opening", "ready"}
    /\ t.st = "sending" => s.st \in {"ready", "sending"}
    /\ \/ t.cid = 0 \/ t.st = "opening" \/ s.st = "ready"
       \/ {s.st, t.st} \subseteq {"sending", "waiting"} /\ t.n = s.n

\* What a program gave up stays given up.
LEMMA MovesBusy ==
    ASSUME NEW s \in ProgramType, NEW t \in ProgramType, Moves(s, t), NEW of, NEW g \in Nat, g # 0,
           s.cid = g => Busy(s, of), t.cid = g
    PROVE  Busy(t, of)
<1>1. s.cid = g /\ Busy(s, of)
    BY DEF Moves
<1>2. t.st = "opening" \/ s.st = "ready" \/ ({s.st, t.st} \subseteq {"sending", "waiting"} /\ t.n = s.n)
    BY DEF Moves
<1>3. QED
    BY <1>1, <1>2 DEF Busy

\* The latest INIT is still the one a program waits for.
LEMMA MovesLatest ==
    ASSUME NEW s \in ProgramType, NEW t \in ProgramType, Moves(s, t), NEW of, of.n \in Nat, Latest(s, of)
    PROVE  Latest(t, of)
    BY DEF Moves, Latest, ProgramType

\* A report that waits is still sound.
LEMMA MovesReport ==
    ASSUME NEW s \in ProgramType, NEW t \in ProgramType, Moves(s, t), NEW m \in Nat, NEW own \in [1 .. m -> Programs],
           NEW r \in ProbeReport, ReportSound(r, s, own)
    PROVE  ReportSound(r, t, own)
<1>1. /\ r.of.n \in Nat /\ r.at \in Nat /\ r.size \in Nat /\ r.cid \in Int
      /\ s.n \in Nat /\ t.n \in Nat /\ s.sent \in Nat /\ t.sent \in Nat /\ DOMAIN own = 1 .. m
    BY DEF ProbeReport, ProgramType
<1>2. r.of.n <= t.n
    BY <1>1 DEF ReportSound, Moves
<1>3. r.cmd = "init" => Latest(t, r.of)
    BY <1>1, MovesLatest DEF ReportSound
<1>4. Part(r) => r.cid \in Nat /\ r.cid # 0
    BY <1>1 DEF ReportSound, Part
<1>5. Part(r) /\ t.cid = r.cid => Busy(t, r.of)
  <2>1. Part(r) => (s.cid = r.cid => Busy(s, r.of))
      BY DEF ReportSound
  <2>2. QED
      BY <1>4, <2>1, MovesBusy
<1>6. Part(r) /\ r.of.n = t.n => r.at <= t.sent /\ (r.cmd # "cont" => r.size = t.size)
  <2>1. r.of.n = t.n => t.n = s.n /\ t.size = s.size /\ t.sent >= s.sent
      BY <1>1 DEF ReportSound, Moves
  <2>2. QED
      BY <1>1, <2>1, SMTT(60) DEF ReportSound
<1>7. QED
    BY <1>2, <1>3, <1>5, <1>6 DEF ReportSound

\* What the transport knows of the programs stays true when they move.
LEMMA MovesKeep ==
    ASSUME NEW p \in ProbeType, NEW q \in Seq(ProbeReport), NEW k \in [Programs -> ProgramType],
           NEW l \in [Programs -> ProgramType], NEW m \in Nat, NEW own \in [1 .. m -> Programs],
           Given(p, q, k, own), \A c \in Programs : Moves(k[c], l[c]) /\ ProgramSound(l[c], c, own)
    PROVE  Given(p, q, l, own)
<1>0. DOMAIN own = 1 .. m /\ \A g \in 1 .. m : own[g] \in Programs /\ g \in Nat /\ g # 0
    OBVIOUS
<1>1. QueueSound(q, l, own)
  <2>1. ASSUME NEW i \in 1 .. Len(q)
        PROVE  ReportSound(q[i], l[q[i].of.by], own)
    <3>0. q[i] \in ProbeReport
        OBVIOUS
    <3>1. q[i].of.by \in Programs
        BY <3>0 DEF ProbeReport
    <3>2. ReportSound(q[i], k[q[i].of.by], own)
        BY DEF Given, QueueSound
    <3>3. Moves(k[q[i].of.by], l[q[i].of.by]) /\ k[q[i].of.by] \in ProgramType /\ l[q[i].of.by] \in ProgramType
        BY <3>1
    <3>4. QED
        BY <3>0, <3>2, <3>3, MovesReport
  <2>2. QED
      BY <2>1 DEF Given, QueueSound
<1>2. ReceptionSound(p, q, l, own)
  <2> DEFINE s == k[own[p.active]]
             t == l[own[p.active]]
  <2>1. ASSUME p.receiving \/ p.processing
        PROVE  p.active \in DOMAIN own /\ MessageSound(p, q, t, own[p.active])
    <3>1. p.active \in DOMAIN own /\ MessageSound(p, q, s, own[p.active])
        BY <2>1 DEF Given, ReceptionSound
    <3>2. own[p.active] \in Programs /\ p.active \in Nat /\ p.active # 0
        BY <1>0, <3>1
    <3>3. s \in ProgramType /\ t \in ProgramType /\ Moves(s, t)
        BY <3>2
    <3> HIDE DEF s, t
    <3>4. p.rx \in Seq(PieceType) /\ Len(p.rx) \in Nat /\ Len(p.rx) >= 1
        BY <3>1, LenProperties DEF ProbeType, MessageSound
    <3>5. Sender(p) \in [by : Programs, n : Nat]
      <4>1. p.rx[1] \in PieceType
          BY <3>4
      <4>2. QED
          BY <4>1 DEF Sender, PieceType
    <3>6. Sender(p).n \in Nat /\ s.n \in Nat /\ t.n \in Nat /\ s.sent \in Nat /\ t.sent \in Nat
        BY <3>3, <3>5 DEF ProgramType
    <3>7. Sender(p).n <= t.n /\ (Sender(p).n = t.n => t.n = s.n /\ t.size = s.size /\ t.sent >= s.sent)
        BY <3>1, <3>3, <3>6 DEF MessageSound, Moves
    <3>8. Sender(p).n = t.n => p.size = t.size /\ Len(p.rx) <= t.sent
        BY <3>1, <3>4, <3>6, <3>7 DEF MessageSound
    <3>9. t.cid = p.active => Busy(t, Sender(p))
      <4>1. s.cid = p.active => Busy(s, Sender(p))
          BY <3>1 DEF MessageSound
      <4>2. QED
          BY <3>2, <3>3, <4>1, MovesBusy
    <3>10. QED
        BY <3>1, <3>7, <3>8, <3>9 DEF MessageSound
  <2>2. ASSUME p.processing, p.resync # Nobody
        PROVE  p.resync.by = own[p.active] /\ Latest(t, p.resync)
    <3>1. p.active \in DOMAIN own /\ p.resync.by = own[p.active] /\ Latest(s, p.resync)
        BY <2>2 DEF Given, ReceptionSound
    <3>2. s \in ProgramType /\ t \in ProgramType /\ Moves(s, t)
        BY <1>0, <3>1
    <3>3. p.resync.n \in Nat
        BY DEF ProbeType, ProbeAuthor
    <3>4. QED
        BY <3>1, <3>2, <3>3, MovesLatest
  <2>3. QED
      BY <2>1, <2>2 DEF Given, ReceptionSound
<1>3. AnswerSound(p, q, l, own)
  <2> SUFFICES ASSUME Replying(p), p.reply.cmd # "error"
               PROVE  AnswerSound(p, q, l, own)
      BY DEF AnswerSound
  <2> DEFINE s == k[p.reply.of.by]
             t == l[p.reply.of.by]
  <2>1. p.reply \in ReplyType /\ p.reply.of.n \in Nat
      BY DEF ProbeType, ReplyType, ProbeAuthor
  <2>2. CASE p.reply.cmd = "init"
    <3>1. /\ p.reply.gives \in DOMAIN own /\ own[p.reply.gives] = p.reply.of.by /\ Latest(s, p.reply.of)
          /\ p.reply.of.n = s.n => \A i \in 1 .. Len(q) : Part(q[i]) => q[i].cid # p.reply.gives
        BY <2>2 DEF Given, AnswerSound
    <3>2. s \in ProgramType /\ t \in ProgramType /\ Moves(s, t)
        BY <1>0, <3>1
    <3>3. Latest(t, p.reply.of)
        BY <2>1, <3>1, <3>2, MovesLatest, SMTT(60)
    <3>4. p.reply.of.n = t.n => p.reply.of.n = s.n
        BY <2>1, <3>1, <3>2, SMTT(60) DEF Latest, Moves, ProgramType
    <3>5. p.reply.of.n = t.n => \A i \in 1 .. Len(q) : Part(q[i]) => q[i].cid # p.reply.gives
        BY <3>1, <3>4, Zenon
    <3>6. ~p.receiving /\ ~p.processing /\ p.reply.cmd # "none" /\ p.reply.left = 1
        BY <2>2 DEF Given, AnswerSound
    <3>7. QED
        BY <2>2, <3>1, <3>3, <3>5, <3>6 DEF AnswerSound
  <2>3. CASE p.reply.cmd \in {"ping", "cbor"}
    <3>1. /\ p.reply.cid \in DOMAIN own /\ own[p.reply.cid] = p.reply.of.by
          /\ s.cid = p.reply.cid => s.st # "sending" /\ Busy(s, p.reply.of)
        BY <2>3 DEF Given, AnswerSound
    <3>2. s \in ProgramType /\ t \in ProgramType /\ Moves(s, t) /\ p.reply.cid \in Nat /\ p.reply.cid # 0
        BY <1>0, <3>1
    <3> HIDE DEF s, t
    <3>3. t.cid = p.reply.cid => Busy(t, p.reply.of)
        BY <3>1, <3>2, MovesBusy
    <3>4. t.cid = p.reply.cid => t.st # "sending"
      <4>1. t.cid = p.reply.cid => s.st \in {"opening", "waiting"}
          BY <3>1, <3>2 DEF Moves, Busy
      <4>2. QED
          BY <3>2, <4>1 DEF Moves
    <3>5. QED
        BY <2>3, <3>1, <3>3, <3>4 DEF Given, AnswerSound, s, t
  <2>4. QED
      BY <2>1, <2>2, <2>3 DEF Given, AnswerSound, ReplyType
<1>4. QED
    BY <1>1, <1>2, <1>3 DEF Given

\* A report joins the end of the queue.
LEMMA JoinsQueue ==
    ASSUME NEW p \in ProbeType, NEW q \in Seq(ProbeReport), NEW k \in [Programs -> ProgramType],
           NEW m \in Nat, NEW own \in [1 .. m -> Programs], Given(p, q, k, own), ~p.processing,
           NEW r \in ProbeReport, ReportSound(r, k[r.of.by], own),
           \A i \in 1 .. Len(q) : Follows(q[i], r),
           p.receiving /\ Part(r) /\ r.cid = p.active =>
               r.of = Sender(p) /\ Len(p.rx) < r.at /\ r.at <= p.size,
           Replying(p) /\ p.reply.cmd = "init" /\ p.reply.of.n = k[p.reply.of.by].n /\ Part(r) =>
               r.cid # p.reply.gives,
           Replying(p) /\ p.reply.cmd \in {"ping", "cbor"} /\ Part(r) => r.cid # p.reply.cid
    PROVE  Given(p, Append(q, r), k, own)
<1> DEFINE z == Append(q, r)
<1>1. Len(q) \in Nat /\ Len(z) = Len(q) + 1 /\ z[Len(q) + 1] = r /\ \A i \in 1 .. Len(q) : z[i] = q[i]
    BY AppendProperties, LenProperties
<1>2. \A i \in 1 .. Len(z) : i \in 1 .. Len(q) \/ i = Len(q) + 1
    BY <1>1
<1> HIDE DEF z
<1>3. QueueSound(z, k, own)
  <2>1. \A i \in 1 .. Len(z) : ReportSound(z[i], k[z[i].of.by], own)
      BY <1>1, <1>2 DEF Given, QueueSound
  <2>2. ASSUME NEW i \in 1 .. Len(z), NEW j \in 1 .. Len(z), i < j
        PROVE  Follows(z[i], z[j])
    <3>1. i \in 1 .. Len(q)
        BY <1>1, <2>2
    <3>2. CASE j \in 1 .. Len(q)
        BY <1>1, <2>2, <3>1, <3>2 DEF Given, QueueSound
    <3>3. CASE j = Len(q) + 1
        BY <1>1, <3>1, <3>3
    <3>4. QED
        BY <1>2, <3>2, <3>3
  <2>3. QED
      BY <2>1, <2>2 DEF QueueSound
<1>4. ReceptionSound(p, z, k, own)
  <2>1. ASSUME p.receiving
        PROVE  MessageSound(p, z, k[own[p.active]], own[p.active])
    <3>1. MessageSound(p, q, k[own[p.active]], own[p.active])
        BY <2>1 DEF Given, ReceptionSound
    <3>2. \A i \in 1 .. Len(z) : Part(z[i]) /\ z[i].cid = p.active =>
             z[i].of = Sender(p) /\ Len(p.rx) < z[i].at /\ z[i].at <= p.size
        BY <1>1, <1>2, <2>1, <3>1 DEF MessageSound
    <3>3. QED
        BY <3>1, <3>2 DEF MessageSound
  <2>2. QED
      BY <2>1 DEF Given, ReceptionSound
<1>5. AnswerSound(p, z, k, own)
    BY <1>1, <1>2 DEF Given, AnswerSound
<1>6. QED
    BY <1>3, <1>4, <1>5 DEF Given, z

-----------------------------------------------------------------------------
(* The transport *)

\* A new answer changes nothing else.
LEMMA ReplyFacts ==
    ASSUME NEW p \in ProbeType, NEW r \in ReplyType
    PROVE  LET z == [p EXCEPT !.reply = r]
           IN /\ z \in ProbeType /\ z.reply = r
              /\ z.channels = p.channels /\ z.active = p.active /\ z.cmd = p.cmd /\ z.size = p.size
              /\ z.rx = p.rx /\ z.seq = p.seq /\ z.receiving = p.receiving /\ z.processing = p.processing
              /\ z.resync = p.resync
    BY DEF ProbeType

\* The message in reception is dropped.
LEMMA DropFacts ==
    ASSUME NEW p \in ProbeType
    PROVE  LET z == Drop(p)
           IN /\ z \in ProbeType /\ z.channels = p.channels /\ z.active = p.active /\ z.cmd = p.cmd
              /\ z.size = p.size /\ z.rx = <<>> /\ z.seq = p.seq /\ z.receiving = FALSE
              /\ z.reply = p.reply /\ z.processing = p.processing /\ z.resync = p.resync
<1>1. <<>> \in Seq(PieceType)
    OBVIOUS
<1>2. QED
    BY <1>1 DEF Drop, ProbeType

\* An error concerns no program that does not hear it, and a dropped message no
\* one at all.
LEMMA ErrorKeeps ==
    ASSUME NEW p, NEW g, NEW q, NEW k, NEW own, Given(p, q, k, own), ~p.processing, ~g.processing,
           g.reply.cmd = "error" \/ g.reply = p.reply \/ ~Replying(g),
           g.receiving => /\ p.receiving /\ g.active = p.active /\ g.cmd = p.cmd /\ g.size = p.size
                          /\ g.rx = p.rx /\ g.seq = p.seq
    PROVE  Given(g, q, k, own)
<1>1. ReceptionSound(g, q, k, own)
  <2>1. g.receiving => MessageSound(g, q, k[own[g.active]], own[g.active]) /\ g.active \in DOMAIN own
                       /\ Len(g.rx) < g.size /\ g.seq = Len(g.rx) - 1
      BY DEF Given, ReceptionSound, MessageSound, Sender
  <2>2. QED
      BY <2>1 DEF ReceptionSound
<1>2. AnswerSound(g, q, k, own)
    BY DEF Given, AnswerSound, Replying
<1>3. QED
    BY <1>1, <1>2 DEF Given

\* fv_fido_probe_receive refuses a report.
LEMMA ErrorSound ==
    ASSUME NEW p \in ProbeType, NEW q, NEW k, NEW own, Given(p, q, k, own), ~p.processing, NEW cid \in Int
    PROVE  /\ ErrorTo(p, cid) \in ProbeType /\ ErrorTo(p, cid).channels = p.channels
           /\ Given(ErrorTo(p, cid), q, k, own) /\ Replying(ErrorTo(p, cid))
<1> DEFINE r == [cid |-> cid, cmd |-> "error", of |-> Nobody, gives |-> 0, left |-> 1]
           z == ErrorTo(p, cid)
<1>0. z = [p EXCEPT !.reply = r] /\ r.cmd = "error" /\ r.left = 1
    BY DEF ErrorTo, ReplyWith
<1>1. r \in ReplyType
    BY DEF Nobody, ProbeAuthor, ReplyType
<1> HIDE DEF r, z
<1>2. /\ z \in ProbeType /\ z.channels = p.channels /\ z.active = p.active /\ z.cmd = p.cmd /\ z.size = p.size
      /\ z.rx = p.rx /\ z.seq = p.seq /\ z.receiving = p.receiving /\ z.processing = p.processing
      /\ z.reply.cmd = "error" /\ z.reply.left = 1
    BY <1>0, <1>1, ReplyFacts
<1>3. Given(z, q, k, own)
    BY <1>2, ErrorKeeps
<1>4. Replying(z)
    BY <1>2 DEF Replying
<1>5. QED
    BY <1>2, <1>3, <1>4 DEF z

\* A message is dropped where none is processed.
LEMMA DropSound ==
    ASSUME NEW p \in ProbeType, NEW q, NEW k, NEW own, Given(p, q, k, own), ~p.processing
    PROVE  Drop(p) \in ProbeType /\ Drop(p).channels = p.channels /\ Given(Drop(p), q, k, own) /\ ~Drop(p).processing
<1>1. /\ Drop(p) \in ProbeType /\ Drop(p).channels = p.channels /\ Drop(p).receiving = FALSE
      /\ Drop(p).reply = p.reply /\ Drop(p).processing = p.processing
    BY DropFacts
<1>2. QED
    BY <1>1, ErrorKeeps

\* fv_fido_probe_tick.
LEMMA TickSound ==
    ASSUME NEW p \in ProbeType, NEW q, NEW k, NEW own, Given(p, q, k, own), ~p.processing
    PROVE  /\ ProbeTick(p) \in ProbeType /\ ProbeTick(p).channels = p.channels /\ ~ProbeTick(p).processing
           /\ Given(ProbeTick(p), q, k, own)
           /\ ProbeTick(p) # p => Replying(ProbeTick(p))
<1>1. CASE p.receiving /\ ~Replying(p)
  <2>1. ProbeTick(p) = ErrorTo(Drop(p), p.active)
      BY <1>1 DEF ProbeTick
  <2>2. Drop(p) \in ProbeType /\ Drop(p).channels = p.channels /\ Given(Drop(p), q, k, own) /\ ~Drop(p).processing
      BY DropSound
  <2>3. p.active \in Int
      BY DEF ProbeType
  <2>4. ErrorTo(Drop(p), p.active).processing = Drop(p).processing
      BY <2>2 DEF ErrorTo, ReplyWith, ProbeType
  <2>5. QED
      BY <2>1, <2>2, <2>3, <2>4, ErrorSound
<1>2. CASE ~(p.receiving /\ ~Replying(p))
    BY <1>2 DEF ProbeTick
<1>3. QED
    BY <1>1, <1>2

\* A piece was added to the message in reception: it is complete, and answered
\* or given to the engine, or it goes on.
LEMMA PieceSound ==
    ASSUME NEW x \in ProbeType, NEW q \in Seq(ProbeReport), NEW k \in [Programs -> ProgramType], NEW m \in Nat,
           NEW own \in [1 .. m -> Programs],
           \A c \in Programs : ProgramSound(k[c], c, own), QueueSound(q, k, own),
           x.receiving, ~x.processing, ~Replying(x), x.active \in 1 .. m,
           MessageSound(x, q, k[own[x.active]], own[x.active]), x.seq = Len(x.rx) - 1,
           NEW z, z = IF Len(x.rx) = x.size THEN CompleteRequest(x) ELSE x
    PROVE  z \in ProbeType /\ z.channels = x.channels /\ Given(z, q, k, own)
<1> DEFINE s == k[own[x.active]]
<1>0. /\ DOMAIN own = 1 .. m /\ own[x.active] \in Programs /\ s \in ProgramType
      /\ x.rx \in Seq(PieceType) /\ x.size \in Nat /\ Len(x.rx) \in Nat /\ Len(x.rx) >= 1 /\ x.active \in Int
      /\ ProgramSound(s, own[x.active], own)
    BY LenProperties DEF ProbeType, MessageSound
<1>1. Sender(x) \in [by : Programs, n : Nat]
  <2>1. x.rx[1] \in PieceType
      BY <1>0
  <2>2. QED
      BY <2>1 DEF Sender, PieceType
<1> HIDE DEF s
<1>2. CASE Len(x.rx) # x.size
  <2>1. Len(x.rx) < x.size
      BY <1>0, <1>2 DEF MessageSound
  <2>2. ReceptionSound(x, q, k, own)
      BY <1>0, <2>1 DEF ReceptionSound
  <2>3. AnswerSound(x, q, k, own)
      BY DEF AnswerSound
  <2>4. QED
      BY <1>2, <2>2, <2>3 DEF Given
<1>3. CASE Len(x.rx) = x.size /\ x.cmd = "ping"
  <2> DEFINE dropped == Drop(x)
             r == [cid |-> x.active, cmd |-> "ping", of |-> Sender(x), gives |-> 0, left |-> x.size]
  <2>1. dropped \in ProbeType /\ dropped.channels = x.channels /\ dropped.receiving = FALSE /\ dropped.processing = x.processing
      BY DropFacts
  <2>2. z = [dropped EXCEPT !.reply = r]
      BY <1>3 DEF CompleteRequest, ReplyWith
  <2> HIDE DEF dropped
  <2>3. r \in ReplyType
      BY <1>0, <1>1 DEF ProbeAuthor, ReplyType
  <2>4. r.cid = x.active /\ r.cmd = "ping" /\ r.of = Sender(x)
      OBVIOUS
  <2> HIDE DEF r
  <2>5. z \in ProbeType /\ z.reply = r /\ z.channels = dropped.channels /\ z.receiving = dropped.receiving /\ z.processing = dropped.processing
    <3>1. dropped \in ProbeType
        BY <2>1
    <3>2. [dropped EXCEPT !.reply = r] \in ProbeType /\ [dropped EXCEPT !.reply = r].reply = r
          /\ [dropped EXCEPT !.reply = r].channels = dropped.channels /\ [dropped EXCEPT !.reply = r].receiving = dropped.receiving
          /\ [dropped EXCEPT !.reply = r].processing = dropped.processing
        BY <2>3, <3>1, ReplyFacts
    <3>3. QED
        BY <2>2, <3>2
  <2>6. ReceptionSound(z, q, k, own)
      BY <2>1, <2>5 DEF ReceptionSound
  <2>7. s.cid = x.active => s.st # "sending" /\ Busy(s, Sender(x))
    <3>1. ASSUME s.cid = x.active, s.st = "sending"
          PROVE  FALSE
      <4>1. Sender(x).n = s.n
          BY <3>1 DEF MessageSound, Busy, s
      <4>2. x.size = s.size /\ Len(x.rx) <= s.sent
          BY <4>1 DEF MessageSound, s
      <4>3. s.sent < s.size /\ s.sent \in Nat /\ s.size \in Nat
          BY <1>0, <3>1 DEF ProgramSound, ProgramType
      <4>4. QED
          BY <1>0, <1>3, <4>2, <4>3
    <3>2. QED
        BY <3>1 DEF MessageSound, s
  <2>8. \A i \in 1 .. Len(q) : Part(q[i]) => q[i].cid # x.active
    <3>1. ASSUME NEW i \in 1 .. Len(q), Part(q[i]), q[i].cid = x.active
          PROVE  FALSE
      <4>1. q[i] \in ProbeReport
          OBVIOUS
      <4>2. q[i].at \in Nat
          BY <4>1 DEF ProbeReport
      <4>3. Len(x.rx) < q[i].at /\ q[i].at <= x.size
          BY <3>1 DEF MessageSound
      <4>4. QED
          BY <1>0, <1>3, <4>2, <4>3
    <3>2. QED
        BY <3>1
  <2>9. own[x.active] = Sender(x).by
      BY DEF MessageSound
  <2>10. AnswerSound(z, q, k, own)
      BY <1>0, <2>1, <2>4, <2>5, <2>7, <2>8, <2>9 DEF AnswerSound, s
  <2>11. QED
      BY <2>1, <2>5, <2>6, <2>10 DEF Given
<1>4. CASE Len(x.rx) = x.size /\ x.cmd # "ping"
  <2>1. z = [x EXCEPT !.receiving = FALSE, !.processing = TRUE, !.cancelled = FALSE, !.resync = Nobody]
      BY <1>4 DEF CompleteRequest
  <2>2. Nobody \in ProbeAuthor
      BY DEF Nobody, ProbeAuthor
  <2>3. /\ z \in ProbeType /\ z.channels = x.channels /\ z.active = x.active /\ z.cmd = x.cmd /\ z.size = x.size
        /\ z.rx = x.rx /\ z.receiving = FALSE /\ z.processing = TRUE /\ z.reply = x.reply /\ z.resync = Nobody
      BY <2>1, <2>2, ZenonT(60) DEF ProbeType
  <2>4. MessageSound(z, q, k[own[z.active]], own[z.active])
      BY <2>3, SMTT(60) DEF MessageSound, Sender
  <2>5. ReceptionSound(z, q, k, own)
      BY <1>0, <1>4, <2>3, <2>4 DEF ReceptionSound, Replying
  <2>6. AnswerSound(z, q, k, own)
      BY <2>3 DEF AnswerSound, Replying
  <2>7. QED
      BY <2>3, <2>5, <2>6 DEF Given
<1>5. QED
    BY <1>2, <1>3, <1>4

\* What is known of the report that is received next.
Arrives(p, q, k, own, r) ==
    /\ r \in ProbeReport /\ ReportSound(r, k[r.of.by], own)
    /\ \A i \in 1 .. Len(q) : Follows(r, q[i])
    /\ p.receiving /\ Part(r) /\ r.cid = p.active => r.of = Sender(p) /\ Len(p.rx) < r.at /\ r.at <= p.size

\* The first report of the queue leaves it.
LEMMA LeavesQueue ==
    ASSUME NEW p \in ProbeType, NEW q \in Seq(ProbeReport), NEW k, NEW own, Given(p, q, k, own), q # <<>>
    PROVE  Tail(q) \in Seq(ProbeReport) /\ Given(p, Tail(q), k, own) /\ Arrives(p, Tail(q), k, own, Head(q))
<1> DEFINE z == Tail(q)
           r == Head(q)
<1>1. /\ z \in Seq(ProbeReport) /\ Len(q) \in Nat /\ Len(q) >= 1 /\ Len(z) = Len(q) - 1 /\ r = q[1] /\ r \in ProbeReport
      /\ \A i \in 1 .. Len(z) : z[i] = q[i + 1]
    BY LenProperties, HeadTailProperties
<1>2. \A i \in 1 .. Len(z) : i + 1 \in 1 .. Len(q) /\ 1 < i + 1
    BY <1>1
<1>3. 1 \in 1 .. Len(q)
    BY <1>1
<1> HIDE DEF z, r
<1>4. QueueSound(z, k, own)
  <2>1. \A i \in 1 .. Len(z) : ReportSound(z[i], k[z[i].of.by], own)
      BY <1>1, <1>2 DEF Given, QueueSound
  <2>2. \A i, j \in 1 .. Len(z) : i < j => Follows(z[i], z[j])
    <3>1. ASSUME NEW i \in 1 .. Len(z), NEW j \in 1 .. Len(z), i < j
          PROVE  Follows(z[i], z[j])
      <4>1. i + 1 \in 1 .. Len(q) /\ j + 1 \in 1 .. Len(q) /\ i + 1 < j + 1
          BY <1>1, <1>2, <3>1
      <4>2. Follows(q[i + 1], q[j + 1])
          BY <4>1 DEF Given, QueueSound
      <4>3. QED
          BY <1>1, <4>2
    <3>2. QED
        BY <3>1
  <2>3. QED
      BY <2>1, <2>2 DEF QueueSound
<1>5. ReceptionSound(p, z, k, own)
  <2>1. ASSUME p.receiving \/ p.processing
        PROVE  MessageSound(p, z, k[own[p.active]], own[p.active])
    <3>1. MessageSound(p, q, k[own[p.active]], own[p.active])
        BY <2>1 DEF Given, ReceptionSound
    <3>2. QED
        BY <1>1, <1>2, <3>1 DEF MessageSound
  <2>2. QED
      BY <2>1 DEF Given, ReceptionSound
<1>6. AnswerSound(p, z, k, own)
    BY <1>1, <1>2 DEF Given, AnswerSound
<1>7. Arrives(p, z, k, own, r)
  <2>1. ReportSound(r, k[r.of.by], own)
      BY <1>1, <1>3 DEF Given, QueueSound
  <2>2. \A i \in 1 .. Len(z) : Follows(r, z[i])
    <3>1. ASSUME NEW i \in 1 .. Len(z)
          PROVE  Follows(r, z[i])
      <4>1. i + 1 \in 1 .. Len(q) /\ 1 < i + 1
          BY <1>2
      <4>2. Follows(q[1], q[i + 1])
          BY <1>3, <4>1 DEF Given, QueueSound
      <4>3. QED
          BY <1>1, <4>2
    <3>2. QED
        BY <3>1
  <2>3. p.receiving /\ Part(r) /\ r.cid = p.active => r.of = Sender(p) /\ Len(p.rx) < r.at /\ r.at <= p.size
      BY <1>1, <1>3 DEF Given, ReceptionSound, MessageSound
  <2>4. QED
      BY <1>1, <2>1, <2>2, <2>3 DEF Arrives
<1>8. QED
    BY <1>1, <1>4, <1>5, <1>6, <1>7 DEF Given, z, r

\* A first report begins a message where none is in reception.
LEMMA FirstSound ==
    ASSUME NEW p \in ProbeType, NEW q \in Seq(ProbeReport), NEW k \in [Programs -> ProgramType], NEW m \in Nat,
           NEW own \in [1 .. m -> Programs], Given(p, q, k, own), ~p.processing, ~Replying(p),
           NEW r, Arrives(p, q, k, own, r), r.cmd \in {"ping", "cbor", "bad"}, r.cid \in 1 .. m
    PROVE  /\ FirstPiece(p, r) \in ProbeType /\ FirstPiece(p, r).channels = p.channels
           /\ Given(FirstPiece(p, r), q, k, own)
<1>1. /\ r \in ProbeReport /\ r.of \in [by : Programs, n : Nat] /\ r.at \in Nat /\ r.size \in Nat /\ r.cid \in Int
    BY DEF Arrives, ProbeReport
<1>2. CASE p.receiving \/ r.cmd = "bad"
    BY <1>1, <1>2, ErrorSound DEF FirstPiece
<1>3. CASE ~p.receiving /\ r.cmd \in {"ping", "cbor"}
  <2> DEFINE w == [of |-> r.of, at |-> r.at]
             y == [p EXCEPT !.active = r.cid, !.cmd = r.cmd, !.size = r.size, !.rx = <<>>,
                            !.seq = 0, !.receiving = TRUE]
             x == [y EXCEPT !.rx = Append(@, w)]
  <2>1. FirstPiece(p, r) = IF Len(x.rx) = x.size THEN CompleteRequest(x) ELSE x
    <3>1. FirstPiece(p, r) = TakePiece(y, r)
        BY <1>3 DEF FirstPiece
    <3>2. QED
        BY <3>1 DEF TakePiece
  <2>2. /\ y \in ProbeType /\ y.channels = p.channels /\ y.active = r.cid /\ y.cmd = r.cmd /\ y.size = r.size
        /\ y.rx = <<>> /\ y.seq = 0 /\ y.receiving = TRUE /\ y.processing = p.processing /\ y.reply = p.reply
    <3>1. <<>> \in Seq(PieceType)
        OBVIOUS
    <3>2. QED
        BY <1>1, <1>3, <3>1 DEF ProbeType
  <2>3. w \in PieceType /\ w.of = r.of /\ w.at = r.at
      BY <1>1 DEF PieceType
  <2> HIDE DEF w, y
  <2>4. Append(y.rx, w) = <<w>> /\ <<w>> \in Seq(PieceType)
      BY <2>2, <2>3
  <2>5. x = [y EXCEPT !.rx = <<w>>]
      BY <2>2, <2>4 DEF ProbeType
  <2> HIDE DEF x
  <2>6. /\ x \in ProbeType /\ x.channels = p.channels /\ x.active = r.cid /\ x.cmd = r.cmd /\ x.size = r.size
        /\ x.rx = <<w>> /\ x.seq = 0 /\ x.receiving = TRUE /\ x.processing = p.processing /\ x.reply = p.reply
      BY <2>2, <2>4, <2>5 DEF ProbeType
  <2>7. Len(x.rx) = 1 /\ x.rx[1] = w /\ Sender(x) = r.of
      BY <2>3, <2>6 DEF Sender
  <2>8. Part(r) /\ own[r.cid] = r.of.by /\ ReportSound(r, k[r.of.by], own) /\ r.cid # ToAll
      BY <1>3 DEF Arrives, Part, ReportSound, ToAll
  <2>9. MessageSound(x, q, k[own[x.active]], own[x.active])
    <3>1. r.of.n <= k[r.of.by].n /\ r.size >= 1 /\ r.at = 1
        BY <1>3, <2>8 DEF ReportSound
    <3>2. k[r.of.by].cid = r.cid => Busy(k[r.of.by], r.of)
        BY <2>8 DEF ReportSound
    <3>3. r.of.n = k[r.of.by].n => r.size = k[r.of.by].size /\ 1 <= k[r.of.by].sent
        BY <1>3, <2>8, <3>1 DEF ReportSound
    <3>4. \A i \in 1 .. Len(q) : Part(q[i]) /\ q[i].cid = r.cid => q[i].of = r.of /\ 1 < q[i].at /\ q[i].at <= r.size
        BY <1>3, <2>8, <3>1 DEF Arrives, Follows
    <3>5. QED
        BY <1>3, <2>3, <2>6, <2>7, <2>8, <3>1, <3>2, <3>3, <3>4 DEF MessageSound
  <2>10. ~Replying(x) /\ ~x.processing /\ x.active \in 1 .. m /\ x.seq = Len(x.rx) - 1
      BY <2>6, <2>7 DEF Replying
  <2>11. QED
    <3> DEFINE z == FirstPiece(p, r)
    <3>1. z = IF Len(x.rx) = x.size THEN CompleteRequest(x) ELSE x
        BY <2>1
    <3>2. /\ QueueSound(q, k, own) /\ \A c \in Programs : ProgramSound(k[c], c, own)
          /\ x \in ProbeType /\ x.receiving
        BY <2>6 DEF Given
    <3> HIDE DEF z
    <3>3. z \in ProbeType /\ z.channels = x.channels /\ Given(z, q, k, own)
        BY <2>9, <2>10, <3>1, <3>2, PieceSound
    <3>4. QED
        BY <2>6, <3>3 DEF z
<1>4. QED
    BY <1>2, <1>3

\* A continuation is of the message in reception, and the piece after its last.
LEMMA NextSound ==
    ASSUME NEW p \in ProbeType, NEW q \in Seq(ProbeReport), NEW k \in [Programs -> ProgramType], NEW m \in Nat,
           NEW own \in [1 .. m -> Programs], Given(p, q, k, own), ~p.processing, ~Replying(p),
           NEW r, Arrives(p, q, k, own, r), r.cmd = "cont", r.cid \in 1 .. m, p.receiving => r.cid = p.active
    PROVE  /\ NextPiece(p, r) \in ProbeType /\ NextPiece(p, r).channels = p.channels
           /\ Given(NextPiece(p, r), q, k, own)
<1>1. /\ r \in ProbeReport /\ r.of \in [by : Programs, n : Nat] /\ r.at \in Nat /\ r.seq \in Int /\ r.cid \in Int
    BY DEF Arrives, ProbeReport
<1>2. CASE ~p.receiving
    BY <1>2 DEF NextPiece
<1>3. CASE p.receiving /\ r.seq # p.seq
    BY <1>1, <1>3, DropSound, ErrorSound DEF NextPiece
<1>4. CASE p.receiving /\ r.seq = p.seq
  <2> DEFINE w == [of |-> r.of, at |-> r.at]
             n == p.seq + 1
             y == [p EXCEPT !.seq = n]
             x == [y EXCEPT !.rx = Append(@, w)]
  <2>1. NextPiece(p, r) = IF Len(x.rx) = x.size THEN CompleteRequest(x) ELSE x
    <3>1. NextPiece(p, r) = TakePiece([p EXCEPT !.seq = @ + 1], r)
        BY <1>4 DEF NextPiece
    <3>2. [p EXCEPT !.seq = @ + 1] = y
        BY DEF ProbeType
    <3>3. QED
        BY <3>1, <3>2 DEF TakePiece
  <2>2. p.seq \in Nat /\ n \in Nat /\ p.rx \in Seq(PieceType) /\ Len(p.rx) \in Nat
      BY LenProperties DEF ProbeType
  <2> HIDE DEF n
  <2>3. /\ y \in ProbeType /\ y.channels = p.channels /\ y.active = p.active /\ y.cmd = p.cmd /\ y.size = p.size
        /\ y.rx = p.rx /\ y.seq = n /\ y.receiving = p.receiving /\ y.processing = p.processing /\ y.reply = p.reply
      BY <2>2 DEF ProbeType
  <2>4. w \in PieceType /\ w.of = r.of /\ w.at = r.at
      BY <1>1 DEF PieceType
  <2> HIDE DEF w, y
  <2> DEFINE z == Append(p.rx, w)
  <2>5. /\ z \in Seq(PieceType) /\ Len(z) = Len(p.rx) + 1 /\ z[Len(p.rx) + 1] = w
        /\ \A i \in 1 .. Len(p.rx) : z[i] = p.rx[i]
    <3>1. p.rx \in Seq(PieceType) /\ w \in PieceType
        BY <2>2, <2>4
    <3>2. /\ z \in Seq(PieceType) /\ Len(z) = Len(p.rx) + 1 /\ \A i \in 1 .. Len(p.rx) : z[i] = p.rx[i]
        BY <3>1, AppendProperties
    <3>3. z[Len(p.rx) + 1] = w
        BY <3>1, AppendProperties
    <3>4. QED
        BY <3>2, <3>3
  <2>6. x = [y EXCEPT !.rx = z]
      BY <2>3 DEF ProbeType
  <2> HIDE DEF x, z
  <2>7. /\ x \in ProbeType /\ x.channels = p.channels /\ x.active = p.active /\ x.cmd = p.cmd /\ x.size = p.size
        /\ x.rx = z /\ x.seq = n /\ x.receiving = p.receiving /\ x.processing = p.processing /\ x.reply = p.reply
      BY <2>3, <2>5, <2>6 DEF ProbeType
  <2>8. /\ MessageSound(p, q, k[own[p.active]], own[p.active]) /\ p.active \in DOMAIN own
        /\ Len(p.rx) < p.size /\ p.seq = Len(p.rx) - 1
      BY <1>4 DEF Given, ReceptionSound
  <2>9. Part(r) /\ ReportSound(r, k[r.of.by], own) /\ own[r.cid] = r.of.by /\ r.cid = p.active
      BY <1>4 DEF Arrives, Part, ReportSound, ToAll
  <2>10. r.of = Sender(p) /\ r.at <= p.size /\ r.at = Len(p.rx) + 1
    <3>1. r.seq = r.at - 2
        BY <2>9 DEF ReportSound
    <3>2. r.of = Sender(p) /\ r.at <= p.size
        BY <1>4, <2>9, Zenon DEF Arrives
    <3>3. r.at = Len(p.rx) + 1
      <4>1. r.at \in Int /\ p.seq \in Int /\ Len(p.rx) \in Int
          BY <1>1, <2>2
      <4>2. QED
          BY <4>1, <1>4, <2>8, <3>1
    <3>4. QED
        BY <3>2, <3>3
  <2>11. Len(p.rx) >= 1 /\ Sender(x) = r.of
    <3>1. Len(p.rx) >= 1
        BY <2>8 DEF MessageSound
    <3>2. 1 \in 1 .. Len(p.rx)
        BY <2>2, <3>1
    <3>3. QED
        BY <2>5, <2>7, <2>10, <3>1, <3>2 DEF Sender
  <2>12. MessageSound(x, q, k[own[x.active]], own[x.active])
    <3> DEFINE s == k[own[p.active]]
    <3>1. /\ p.cmd \in {"ping", "cbor"} /\ Sender(p).by = own[p.active] /\ Sender(p).n <= s.n
          /\ s.cid = p.active => Busy(s, Sender(p))
          /\ Sender(p).n = s.n => p.size = s.size
        BY <2>8 DEF MessageSound
    <3>2. r.of.n = s.n => r.at <= s.sent
        BY <2>9 DEF ReportSound
    <3>3. \A i \in 1 .. Len(x.rx) : x.rx[i].at = i /\ x.rx[i].of = Sender(x)
      <4>1. \A i \in 1 .. Len(z) : i \in 1 .. Len(p.rx) \/ i = Len(p.rx) + 1
          BY <2>2, <2>5
      <4>2. \A i \in 1 .. Len(p.rx) : p.rx[i].at = i /\ p.rx[i].of = Sender(p)
          BY <2>8 DEF MessageSound
      <4>3. QED
          BY <2>4, <2>5, <2>7, <2>10, <2>11, <4>1, <4>2, SMTT(60)
    <3>4. \A i \in 1 .. Len(q) : Part(q[i]) /\ q[i].cid = p.active =>
             q[i].of = Sender(p) /\ r.at < q[i].at /\ q[i].at <= p.size
      <4>1. \A i \in 1 .. Len(q) : Follows(r, q[i])
          BY DEF Arrives
      <4>2. QED
          BY <2>8, <2>9, <4>1 DEF MessageSound, Follows
    <3>5. Len(x.rx) = r.at /\ Len(x.rx) >= 1 /\ Len(x.rx) <= x.size
        BY <2>2, <2>5, <2>7, <2>10, <2>11, SMTT(60)
    <3> HIDE DEF s
    <3>6. /\ Sender(x) = Sender(p) /\ x.cmd = p.cmd /\ x.size = p.size /\ x.active = p.active
        BY <2>7, <2>10, <2>11
    <3>7. MessageSound(x, q, s, own[p.active])
        BY <2>10, <3>1, <3>2, <3>3, <3>4, <3>5, <3>6 DEF MessageSound
    <3>8. QED
        BY <3>6, <3>7 DEF s
  <2>13. x.seq = Len(x.rx) - 1
      BY <2>2, <2>5, <2>7, <2>8 DEF n
  <2>14. ~Replying(x) /\ ~x.processing /\ x.active \in 1 .. m /\ x.receiving
      BY <1>4, <2>7, <2>9 DEF Replying
  <2>15. QED
      BY <2>1, <2>7, <2>12, <2>13, <2>14, PieceSound, SMTT(60) DEF Given
<1>5. QED
    BY <1>2, <1>3, <1>4

\* An owner stays one when a channel is given away.
LEMMA OwnersKeep ==
    ASSUME NEW q \in Seq(ProbeReport), NEW k, NEW m \in Nat, NEW own \in [1 .. m -> Programs],
           NEW n \in Nat, NEW new \in [1 .. n -> Programs], \A g \in 1 .. m : g \in 1 .. n /\ new[g] = own[g]
    PROVE  /\ \A c \in Programs : ProgramSound(k[c], c, own) => ProgramSound(k[c], c, new)
           /\ QueueSound(q, k, own) => QueueSound(q, k, new)
<1>1. DOMAIN own = 1 .. m /\ DOMAIN new = 1 .. n
    OBVIOUS
<1>2. \A c \in Programs : ProgramSound(k[c], c, own) => ProgramSound(k[c], c, new)
    BY <1>1 DEF ProgramSound
<1>3. \A i \in 1 .. Len(q) : ReportSound(q[i], k[q[i].of.by], own) => ReportSound(q[i], k[q[i].of.by], new)
    BY <1>1 DEF ReportSound
<1>4. QED
    BY <1>2, <1>3 DEF QueueSound

\* An answer to INIT is due on a channel of the program that asked.
LEMMA InitSound ==
    ASSUME NEW z, NEW q, NEW k, NEW own, QueueSound(q, k, own), \A c \in Programs : ProgramSound(k[c], c, own),
           ~z.receiving, ~z.processing, z.reply.cmd = "init", z.reply.left = 1,
           z.reply.gives \in DOMAIN own, own[z.reply.gives] = z.reply.of.by,
           Latest(k[z.reply.of.by], z.reply.of),
           z.reply.of.n = k[z.reply.of.by].n => \A i \in 1 .. Len(q) : Part(q[i]) => q[i].cid # z.reply.gives
    PROVE  Given(z, q, k, own)
<1>1. ReceptionSound(z, q, k, own)
    BY DEF ReceptionSound
<1>2. AnswerSound(z, q, k, own)
    BY DEF AnswerSound
<1>3. QED
    BY <1>1, <1>2 DEF Given

\* The channels are counted from one.
LEMMA IntervalSize == ASSUME NEW m \in Nat PROVE Cardinality(1 .. m) = m
<1>1. m \in Int /\ 1 \in Int
    OBVIOUS
<1>2. Cardinality(1 .. m) = IF 1 > m THEN 0 ELSE m - 1 + 1
    BY ONLY <1>1, FS_Interval, SMTT(30)
<1>3. QED
    BY <1>2

\* INIT: a channel is given to the program that asks, or it keeps its own.
LEMMA OpenSound ==
    ASSUME NEW p \in ProbeType, NEW q \in Seq(ProbeReport), NEW k \in [Programs -> ProgramType], NEW m \in Nat,
           NEW own \in [1 .. m -> Programs], Given(p, q, k, own), p.channels = 1 .. m, ~p.processing,
           NEW r, Arrives(p, q, k, own, r), r.cmd = "init"
    PROVE  OpenChannel(p, r) \in ProbeType /\ ProbeSound(OpenChannel(p, r), q, k)
<1> DEFINE new == r.cid = ToAll
           cid == IF new THEN m + 1 ELSE r.cid
           channels == 1 .. m \cup {cid}
           z == OpenChannel(p, r)
<1>1. /\ r \in ProbeReport /\ r.of \in [by : Programs, n : Nat] /\ r.of.by \in Programs /\ r.of.n \in Nat /\ r.cid \in Int
      /\ ReportSound(r, k[r.of.by], own) /\ DOMAIN own = 1 .. m
    BY DEF Arrives, ProbeReport
<1>2. ~new => r.cid \in 1 .. m /\ own[r.cid] = r.of.by
    BY <1>1 DEF ReportSound
<1>3. Cardinality(p.channels) = m
    BY IntervalSize, Zenon
<1>4. CASE (p.receiving /\ r.cid # p.active) \/ (new /\ m + 1 > ProbeChannels)
  <2>1. z = ErrorTo(p, r.cid)
      BY <1>3, <1>4 DEF OpenChannel
  <2> HIDE DEF z
  <2>2. z \in ProbeType /\ z.channels = 1 .. m /\ Given(z, q, k, own)
      BY <1>1, <2>1, ErrorSound
  <2>3. QED
      BY <2>2 DEF ProbeSound, z
<1>5. CASE ~((p.receiving /\ r.cid # p.active) \/ (new /\ m + 1 > ProbeChannels))
  <2> DEFINE y == [p EXCEPT !.channels = channels]
             dropped == Drop(y)
             a == [cid |-> r.cid, cmd |-> "init", of |-> r.of, gives |-> cid, left |-> 1]
  <2>0. cid \in Nat /\ channels \subseteq Nat
      BY <1>2
  <2>1. z = [[dropped EXCEPT !.reply = [cid |-> r.cid, cmd |-> "init", of |-> r.of, gives |-> 0, left |-> 1]]
                EXCEPT !.reply.gives = cid]
    <3>1. [p EXCEPT !.channels = @ \cup {cid}] = y
        BY DEF ProbeType
    <3>2. z = [ReplyWith(Drop([p EXCEPT !.channels = @ \cup {cid}]), r.cid, "init", r.of, 1) EXCEPT !.reply.gives = cid]
        BY <1>3, <1>5 DEF OpenChannel
    <3> HIDE DEF y, z, cid
    <3>3. z = [ReplyWith(Drop(y), r.cid, "init", r.of, 1) EXCEPT !.reply.gives = cid]
        BY <3>1, <3>2
    <3>4. QED
        BY <3>3, Zenon DEF ReplyWith
  <2>2. y \in ProbeType /\ y.channels = channels /\ y.processing = p.processing
      BY <2>0 DEF ProbeType
  <2> HIDE DEF y
  <2>3. dropped \in ProbeType /\ dropped.channels = channels /\ dropped.receiving = FALSE /\ dropped.processing = p.processing
      BY <2>2, DropFacts
  <2> HIDE DEF dropped
  <2>4. z = [dropped EXCEPT !.reply = a]
      BY <2>1, <2>3, ZenonT(60) DEF ProbeType
  <2>5. a \in ReplyType /\ a.cmd = "init" /\ a.left = 1 /\ a.gives = cid /\ a.of = r.of
      BY <1>1, <2>0 DEF ReplyType, ProbeAuthor
  <2> HIDE DEF a
  <2>6. /\ [dropped EXCEPT !.reply = a] \in ProbeType /\ [dropped EXCEPT !.reply = a].reply = a
        /\ [dropped EXCEPT !.reply = a].channels = dropped.channels /\ [dropped EXCEPT !.reply = a].receiving = dropped.receiving
        /\ [dropped EXCEPT !.reply = a].processing = dropped.processing
      BY <2>3, <2>5, ReplyFacts
  <2> HIDE DEF z
  <2>7. /\ z \in ProbeType /\ z.reply = a /\ z.channels = channels /\ z.receiving = FALSE /\ ~z.processing
      BY <2>3, <2>4, <2>6
  <2> DEFINE n == IF new THEN m + 1 ELSE m
             own2 == [g \in 1 .. n |-> IF g \in 1 .. m THEN own[g] ELSE r.of.by]
  <2>8. n \in Nat /\ channels = 1 .. n /\ own2 \in [1 .. n -> Programs] /\ cid \in 1 .. n /\ own2[cid] = r.of.by
        /\ \A g \in 1 .. m : g \in 1 .. n /\ own2[g] = own[g]
    <3>1. CASE new
      <4>1. n = m + 1 /\ cid = m + 1 /\ m + 1 \in Nat /\ m + 1 \notin 1 .. m /\ 1 .. m + 1 = 1 .. m \cup {m + 1}
          BY <3>1
      <4>2. QED
          BY <1>1, <4>1
    <3>2. CASE ~new
      <4>1. n = m /\ cid = r.cid /\ r.cid \in 1 .. m /\ own[r.cid] = r.of.by
          BY <1>2, <3>2
      <4>2. QED
          BY <1>1, <4>1
    <3>3. QED
        BY <3>1, <3>2
  <2>9. r.of.n = k[r.of.by].n => \A i \in 1 .. Len(q) : Part(q[i]) => q[i].cid # cid
    <3>1. ASSUME r.of.n = k[r.of.by].n, NEW i \in 1 .. Len(q), Part(q[i]), q[i].cid = cid
          PROVE  FALSE
      <4>1. q[i] \in ProbeReport
          OBVIOUS
      <4>2. q[i].of.by \in Programs /\ q[i].of.n \in Nat /\ q[i].cid \in Int /\ q[i].cmd # "init"
          BY <3>1, <4>1 DEF ProbeReport, Part
      <4>3. ReportSound(q[i], k[q[i].of.by], own) /\ Follows(r, q[i])
          BY DEF Given, QueueSound, Arrives
      <4>4. q[i].cid \in 1 .. m /\ own[q[i].cid] = q[i].of.by /\ q[i].of.n <= k[q[i].of.by].n
          BY <1>1, <4>2, <4>3 DEF ReportSound
      <4>5. ~new /\ cid = r.cid
          BY <3>1, <4>4
      <4>6. q[i].of.by = r.of.by
          BY <1>2, <3>1, <4>4, <4>5
      <4>7. r.of.n < q[i].of.n
          BY <3>1, <4>3, <4>6 DEF Follows
      <4>8. QED
          BY <1>1, <3>1, <4>2, <4>4, <4>6, <4>7
    <3>2. QED
        BY <3>1
  <2>10. Latest(k[r.of.by], r.of)
      BY <1>1 DEF ReportSound
  <2> HIDE DEF own2, n, cid, channels, new
  <2>11. QueueSound(q, k, own2) /\ \A c \in Programs : ProgramSound(k[c], c, own2)
    <3>1. QueueSound(q, k, own) /\ \A c \in Programs : ProgramSound(k[c], c, own)
        BY DEF Given
    <3>2. n \in Nat /\ own2 \in [1 .. n -> Programs] /\ \A g \in 1 .. m : g \in 1 .. n /\ own2[g] = own[g]
        BY <2>8
    <3>3. /\ \A c \in Programs : ProgramSound(k[c], c, own) => ProgramSound(k[c], c, own2)
          /\ QueueSound(q, k, own) => QueueSound(q, k, own2)
        BY <3>2, OwnersKeep, ZenonT(60)
    <3>4. QED
        BY <3>1, <3>3
  <2>12. Given(z, q, k, own2)
    <3>1. DOMAIN own2 = 1 .. n
        BY <2>8
    <3>2. /\ z.reply.cmd = "init" /\ z.reply.left = 1 /\ z.reply.gives = cid /\ z.reply.of = r.of
        BY <2>5, <2>7
    <3>3. QED
        BY <2>7, <2>8, <2>9, <2>10, <2>11, <3>1, <3>2, InitSound
  <2>13. QED
      BY <2>7, <2>8, <2>12 DEF ProbeSound, z
<1>6. QED
    BY <1>4, <1>5

\* A report during a request leaves its message alone.
LEMMA WhileSound ==
    ASSUME NEW p \in ProbeType, NEW q \in Seq(ProbeReport), NEW k \in [Programs -> ProgramType], NEW m \in Nat,
           NEW own \in [1 .. m -> Programs], Given(p, q, k, own), p.processing,
           NEW r \in ProbeReport, ReportSound(r, k[r.of.by], own)
    PROVE  /\ WhileProcessing(p, r) \in ProbeType /\ WhileProcessing(p, r).channels = p.channels
           /\ Given(WhileProcessing(p, r), q, k, own)
<1> DEFINE z == WhileProcessing(p, r)
<1>1. /\ r.of \in [by : Programs, n : Nat] /\ r.cid \in Int /\ r.of \in ProbeAuthor /\ DOMAIN own = 1 .. m
    BY DEF ProbeReport, ProbeAuthor
<1>2. p.active \in 1 .. m
    BY <1>1 DEF Given, ReceptionSound
<1>3. /\ z \in ProbeType /\ z.channels = p.channels /\ z.active = p.active /\ z.cmd = p.cmd /\ z.size = p.size
      /\ z.rx = p.rx /\ z.seq = p.seq /\ z.receiving = p.receiving /\ z.processing = p.processing /\ z.reply = p.reply
      /\ z.resync = p.resync \/ (z.resync = r.of /\ r.cmd = "init" /\ r.cid = p.active)
  <2>1. CASE r.cmd = "cancel"
    <3> DEFINE b == p.cancelled \/ r.cid = p.active
    <3>1. z = [p EXCEPT !.cancelled = b]
        BY <2>1 DEF WhileProcessing, ProbeType
    <3>2. b \in BOOLEAN
        OBVIOUS
    <3> HIDE DEF b, z
    <3>3. QED
        BY <3>1, <3>2 DEF ProbeType
  <2>2. CASE r.cmd = "init" /\ r.cid = p.active
    <3>1. z = [p EXCEPT !.cancelled = TRUE, !.resync = r.of]
        BY <2>2 DEF WhileProcessing
    <3> HIDE DEF z
    <3>2. QED
        BY <1>1, <2>2, <3>1 DEF ProbeType
  <2>3. CASE r.cmd \notin {"cancel", "cont"} /\ ~(r.cmd = "init" /\ r.cid = p.active)
    <3> DEFINE b == IF p.control = 0 THEN r.cid ELSE p.control
    <3>1. z = [p EXCEPT !.control = b]
        BY <2>3 DEF WhileProcessing, ProbeType
    <3>2. b \in Int
        BY <1>1 DEF ProbeType
    <3> HIDE DEF b, z
    <3>3. QED
        BY <3>1, <3>2 DEF ProbeType
  <2>4. CASE r.cmd = "cont"
    <3>1. z = p
        BY <2>4 DEF WhileProcessing
    <3>2. QED
        BY <3>1
  <2>5. QED
      BY <2>1, <2>2, <2>3, <2>4
<1> HIDE DEF z
<1>4. ReceptionSound(z, q, k, own)
  <2>1. /\ MessageSound(z, q, k[own[z.active]], own[z.active]) /\ z.active \in DOMAIN own
        /\ Len(z.rx) = z.size /\ ~Replying(z) /\ ~z.receiving
      BY <1>3 DEF Given, ReceptionSound, MessageSound, Sender, Replying
  <2>2. z.resync # Nobody => z.resync.by = own[z.active] /\ Latest(k[own[z.active]], z.resync)
    <3>1. CASE z.resync = p.resync
        BY <1>3, <3>1 DEF Given, ReceptionSound
    <3>2. CASE z.resync = r.of /\ r.cmd = "init" /\ r.cid = p.active
      <4>1. own[r.cid] = r.of.by /\ Latest(k[r.of.by], r.of)
          BY <1>2, <3>2 DEF ReportSound, ToAll
      <4>2. QED
          BY <1>3, <3>2, <4>1
    <3>3. QED
        BY <1>3, <3>1, <3>2
  <2>3. QED
      BY <2>1, <2>2 DEF ReceptionSound
<1>5. AnswerSound(z, q, k, own)
    BY <1>3 DEF Given, AnswerSound, Replying
<1>6. QED
    BY <1>3, <1>4, <1>5 DEF Given, z

\* fv_fido_probe_receive between requests.
LEMMA ReceiveSound ==
    ASSUME NEW p \in ProbeType, NEW q \in Seq(ProbeReport), NEW k \in [Programs -> ProgramType], NEW m \in Nat,
           NEW own \in [1 .. m -> Programs], Given(p, q, k, own), p.channels = 1 .. m, ~p.processing,
           NEW r, Arrives(p, q, k, own, r)
    PROVE  ProbeReceive(p, r) \in ProbeType /\ ProbeSound(ProbeReceive(p, r), q, k)
<1> DEFINE z == ProbeReceive(p, r)
<1>1. /\ r \in ProbeReport /\ r.cid \in Int /\ r.cmd \in {"init", "ping", "cbor", "cont", "cancel", "bad"}
    BY DEF Arrives, ProbeReport
<1>2. \A y \in ProbeType : y.channels = p.channels /\ Given(y, q, k, own) => ProbeSound(y, q, k)
    BY DEF ProbeSound
<1>3. CASE Replying(p)
  <2>1. z = p
      BY <1>3 DEF ProbeReceive
  <2>2. QED
      BY <1>2, <2>1
<1>4. CASE ~Replying(p)
  <2>1. z = IF r.cid = 0 \/ (r.cid = ToAll /\ r.cmd # "init") \/ (r.cid # ToAll /\ r.cid \notin p.channels)
            THEN ErrorTo(p, r.cid)
            ELSE IF r.cmd = "init" THEN OpenChannel(p, r)
            ELSE IF r.cmd = "cancel" THEN (IF r.cid = p.active THEN Drop(p) ELSE p)
            ELSE IF Intruder(p, r) THEN ErrorTo(p, r.cid)
            ELSE IF r.cmd = "cont" THEN NextPiece(p, r) ELSE FirstPiece(p, r)
      BY <1>4 DEF ProbeReceive
  <2> HIDE DEF z
  <2>2. ErrorTo(p, r.cid) \in ProbeType /\ ProbeSound(ErrorTo(p, r.cid), q, k)
      BY <1>1, <1>2, ErrorSound
  <2>3. Drop(p) \in ProbeType /\ ProbeSound(Drop(p), q, k) /\ ProbeSound(p, q, k)
      BY <1>2, DropSound
  <2>4. r.cmd = "init" => OpenChannel(p, r) \in ProbeType /\ ProbeSound(OpenChannel(p, r), q, k)
      BY OpenSound
  <2>5. r.cid \in 1 .. m /\ r.cmd = "cont" /\ ~Intruder(p, r) => NextPiece(p, r) \in ProbeType /\ ProbeSound(NextPiece(p, r), q, k)
      BY <1>2, <1>4, NextSound DEF Intruder
  <2>6. r.cid \in 1 .. m /\ r.cmd \in {"ping", "cbor", "bad"} => FirstPiece(p, r) \in ProbeType /\ ProbeSound(FirstPiece(p, r), q, k)
      BY <1>2, <1>4, FirstSound
  <2>7. r.cmd # "init" /\ ~(r.cid = 0 \/ (r.cid = ToAll /\ r.cmd # "init") \/ (r.cid # ToAll /\ r.cid \notin p.channels))
            => r.cid \in 1 .. m
      OBVIOUS
  <2>8. r.cmd # "init" /\ r.cmd # "cancel" /\ r.cmd # "cont" => r.cmd \in {"ping", "cbor", "bad"}
      BY <1>1
  <2>9. z \in ProbeType /\ ProbeSound(z, q, k)
      BY <2>1, <2>2, <2>3, <2>4, <2>5, <2>6, <2>7, <2>8, Zenon
  <2>10. QED
      BY <2>9 DEF z
<1>5. QED
    BY <1>3, <1>4

-----------------------------------------------------------------------------
(* The steps of the device *)

\* Nothing that the programs are told depends on the other fields.
LEMMA FieldsKeep ==
    ASSUME NEW p, NEW g, NEW q, NEW k, NEW own, Given(p, q, k, own),
           g.active = p.active, g.cmd = p.cmd, g.size = p.size, g.rx = p.rx, g.seq = p.seq,
           g.receiving = p.receiving, g.processing = p.processing, g.resync = p.resync, g.reply = p.reply
    PROVE  Given(g, q, k, own)
<1>1. ReceptionSound(g, q, k, own)
    BY DEF Given, ReceptionSound, MessageSound, Sender, Replying
<1>2. AnswerSound(g, q, k, own)
    BY DEF Given, AnswerSound, Replying
<1>3. QED
    BY <1>1, <1>2 DEF Given

\* The engine's answer, or the answer to an INIT that came meanwhile, is due
\* to the program that sent the request.
LEMMA DispatchedSound ==
    ASSUME NEW p \in ProbeType, NEW q \in Seq(ProbeReport), NEW k \in [Programs -> ProgramType], NEW m \in Nat,
           NEW own \in [1 .. m -> Programs], Given(p, q, k, own), p.processing
    PROVE  /\ Dispatched(p, 2) \in ProbeType /\ Dispatched(p, 2).channels = p.channels
           /\ Given(Dispatched(p, 2), q, k, own)
<1> DEFINE dropped == Drop(p)
           y == [dropped EXCEPT !.processing = FALSE]
           z == Dispatched(p, 2)
           s == k[own[p.active]]
<1>1. /\ DOMAIN own = 1 .. m /\ p.active \in 1 .. m /\ own[p.active] \in Programs /\ Len(p.rx) = p.size
      /\ MessageSound(p, q, s, own[p.active]) /\ ~Replying(p) /\ p.processing /\ ~p.receiving
      /\ p.resync # Nobody => p.resync.by = own[p.active] /\ Latest(s, p.resync)
    BY DEF Given, ReceptionSound
<1>2. /\ p.rx \in Seq(PieceType) /\ p.size \in Nat /\ Len(p.rx) \in Nat /\ Len(p.rx) >= 1 /\ p.resync \in ProbeAuthor
      /\ s \in ProgramType /\ ProgramSound(s, own[p.active], own)
    BY <1>1, LenProperties DEF ProbeType, MessageSound, Given
<1>3. Sender(p) \in [by : Programs, n : Nat]
  <2>1. p.rx[1] \in PieceType
      BY <1>2
  <2>2. QED
      BY <2>1 DEF Sender, PieceType
<1>4. \A i \in 1 .. Len(q) : Part(q[i]) => q[i].cid # p.active
  <2>1. ASSUME NEW i \in 1 .. Len(q), Part(q[i]), q[i].cid = p.active
        PROVE  FALSE
    <3>1. q[i] \in ProbeReport
        OBVIOUS
    <3>2. q[i].at \in Nat
        BY <3>1 DEF ProbeReport
    <3>3. Len(p.rx) < q[i].at /\ q[i].at <= p.size
        BY <1>1, <2>1 DEF MessageSound
    <3>4. QED
        BY <1>1, <1>2, <3>2, <3>3
  <2>2. QED
      BY <2>1
<1>5. s.cid = p.active => s.st # "sending" /\ Busy(s, Sender(p))
  <2>1. ASSUME s.cid = p.active, s.st = "sending"
        PROVE  FALSE
    <3>1. Sender(p).n = s.n
        BY <1>1, <2>1 DEF MessageSound, Busy
    <3>2. p.size = s.size /\ Len(p.rx) <= s.sent
        BY <1>1, <3>1 DEF MessageSound
    <3>3. s.sent < s.size /\ s.sent \in Nat /\ s.size \in Nat
        BY <1>2, <2>1 DEF ProgramSound, ProgramType
    <3>4. QED
        BY <1>1, <1>2, <3>2, <3>3
  <2>2. QED
      BY <1>1, <2>1 DEF MessageSound
<1>6. /\ QueueSound(q, k, own) /\ \A c \in Programs : ProgramSound(k[c], c, own)
      /\ Sender(p).by = own[p.active]
    BY <1>1 DEF Given, MessageSound
<1> HIDE DEF s
<1>7. dropped \in ProbeType /\ dropped.channels = p.channels /\ dropped.receiving = FALSE
    BY DropFacts
<1> HIDE DEF dropped
<1>8. y \in ProbeType /\ y.channels = p.channels /\ y.receiving = FALSE /\ y.processing = FALSE
    BY <1>7 DEF ProbeType
<1>9. z = IF p.resync # Nobody
          THEN [[y EXCEPT !.reply = [cid |-> p.active, cmd |-> "init", of |-> p.resync, gives |-> 0, left |-> 1]]
                   EXCEPT !.reply.gives = p.active]
          ELSE [y EXCEPT !.reply = [cid |-> p.active, cmd |-> "cbor", of |-> Sender(p), gives |-> 0,
                                    left |-> IF p.cancelled THEN 1 ELSE 2]]
    BY Zenon DEF Dispatched, ReplyWith, y, dropped
<1> HIDE DEF y, z
<1>10. CASE p.resync # Nobody
  <2> DEFINE a == [cid |-> p.active, cmd |-> "init", of |-> p.resync, gives |-> p.active, left |-> 1]
  <2>1. z = [y EXCEPT !.reply = a]
    <3> DEFINE r == [cid |-> p.active, cmd |-> "init", of |-> p.resync, gives |-> 0, left |-> 1]
               x == [y EXCEPT !.reply = r]
    <3>1. z = [x EXCEPT !.reply.gives = p.active]
        BY <1>9, <1>10
    <3>2. [r EXCEPT !.gives = p.active] = a
        OBVIOUS
    <3>3. r \in ReplyType
        BY <1>1, <1>2 DEF ReplyType
    <3> HIDE DEF r, a
    <3>4. x \in ProbeType /\ x.reply = r
        BY <1>8, <3>3, ReplyFacts
    <3>5. [x EXCEPT !.reply.gives = p.active] = [x EXCEPT !.reply = [x.reply EXCEPT !.gives = p.active]]
        BY Zenon
    <3>6. [x EXCEPT !.reply = a] = [y EXCEPT !.reply = a]
        BY <1>8 DEF ProbeType
    <3>7. QED
        BY <3>1, <3>2, <3>4, <3>5, <3>6
  <2>2. /\ a \in ReplyType /\ a.cmd = "init" /\ a.left = 1 /\ a.gives = p.active /\ a.of = p.resync
      BY <1>1, <1>2 DEF ReplyType
  <2> HIDE DEF a
  <2>3. /\ [y EXCEPT !.reply = a] \in ProbeType /\ [y EXCEPT !.reply = a].reply = a
        /\ [y EXCEPT !.reply = a].channels = y.channels /\ [y EXCEPT !.reply = a].receiving = y.receiving
        /\ [y EXCEPT !.reply = a].processing = y.processing
      BY <1>8, <2>2, ReplyFacts
  <2>4. z \in ProbeType /\ z.reply = a /\ z.channels = p.channels /\ ~z.receiving /\ ~z.processing
      BY <1>8, <2>1, <2>3
  <2>5. Given(z, q, k, own)
    <3>1. /\ z.reply.gives = p.active /\ z.reply.of = p.resync /\ z.reply.cmd = "init" /\ z.reply.left = 1
          /\ own[p.active] = p.resync.by /\ Latest(k[p.resync.by], p.resync)
        BY <1>1, <1>10, <2>2, <2>4 DEF s
    <3>2. QED
        BY <1>1, <1>4, <1>6, <2>4, <3>1, InitSound
  <2>6. QED
      BY <2>4, <2>5 DEF z
<1>11. CASE p.resync = Nobody
  <2> DEFINE n == IF p.cancelled THEN 1 ELSE 2
             a == [cid |-> p.active, cmd |-> "cbor", of |-> Sender(p), gives |-> 0, left |-> n]
  <2>1. z = [y EXCEPT !.reply = a]
      BY <1>9, <1>11
  <2>2. n \in Nat
      OBVIOUS
  <2> HIDE DEF n
  <2>3. a \in ReplyType /\ a.cmd = "cbor" /\ a.cid = p.active /\ a.of = Sender(p)
      BY <1>1, <1>3, <2>2 DEF ReplyType, ProbeAuthor
  <2> HIDE DEF a
  <2>4. /\ [y EXCEPT !.reply = a] \in ProbeType /\ [y EXCEPT !.reply = a].reply = a
        /\ [y EXCEPT !.reply = a].channels = y.channels /\ [y EXCEPT !.reply = a].receiving = y.receiving
        /\ [y EXCEPT !.reply = a].processing = y.processing
      BY <1>8, <2>3, ReplyFacts
  <2>5. z \in ProbeType /\ z.reply = a /\ z.channels = p.channels /\ ~z.receiving /\ ~z.processing
      BY <1>8, <2>1, <2>4
  <2>6. AnswerSound(z, q, k, own)
    <3>1. z.reply.cid = p.active /\ z.reply.of = Sender(p) /\ z.reply.cmd = "cbor" /\ Sender(p).by = own[p.active]
        BY <1>6, <2>3, <2>5
    <3>2. k[z.reply.of.by] = s
        BY <3>1 DEF s
    <3>3. QED
        BY <1>1, <1>4, <1>5, <2>5, <3>1, <3>2 DEF AnswerSound
  <2>7. ReceptionSound(z, q, k, own)
      BY <2>5 DEF ReceptionSound
  <2>8. QED
      BY <1>6, <2>5, <2>6, <2>7 DEF Given, z
<1>12. QED
    BY <1>10, <1>11

\* The invariant, with the owners of the channels at hand.
ProbeLinked(p, q, k, m, own) ==
    /\ p \in ProbeType /\ q \in Seq(ProbeReport) /\ k \in [Programs -> ProgramType]
    /\ m \in Nat /\ own \in [1 .. m -> Programs] /\ p.channels = 1 .. m
    /\ Given(p, q, k, own)

\* A step that finds no channel of another program.
LEMMA InvLinked == ProbeInv => \E m, own : ProbeLinked(probe, queue, programs, m, own)
    BY DEF ProbeInv, ProbeSound, ProbeLinked

\* And back.
LEMMA LinkedInv ==
    ASSUME NEW m, NEW own, ProbeLinked(probe, queue, programs, m, own), overflow \in BOOLEAN, mistaken = FALSE
    PROVE  ProbeInv
    BY DEF ProbeInv, ProbeSound, ProbeLinked

\* The interface reads reports, and the time passes.
LEMMA DrainStep == ProbeInv /\ (DrainReport \/ TimeOut) => ProbeInv'
<1> SUFFICES ASSUME ProbeInv, DrainReport \/ TimeOut PROVE ProbeInv'
    OBVIOUS
<1>1. PICK m, own : ProbeLinked(probe, queue, programs, m, own)
    BY InvLinked
<1>2. /\ probe \in ProbeType /\ queue \in Seq(ProbeReport) /\ programs \in [Programs -> ProgramType]
      /\ m \in Nat /\ own \in [1 .. m -> Programs] /\ probe.channels = 1 .. m /\ Given(probe, queue, programs, own)
      /\ ~probe.processing
    BY <1>1 DEF ProbeLinked, DrainReport, TimeOut
<1>3. UNCHANGED <<overflow, programs, mistaken>> /\ overflow \in BOOLEAN /\ mistaken = FALSE
    BY DEF ProbeInv, DrainReport, TimeOut
<1> DEFINE p == ProbeTick(probe)
<1>4. /\ p \in ProbeType /\ p.channels = 1 .. m /\ ~p.processing /\ Given(p, queue, programs, own)
      /\ p # probe => Replying(p)
    BY <1>2, TickSound
<1> HIDE DEF p
<1>5. CASE TimeOut
  <2>1. probe' = p /\ queue' = queue
      BY <1>5 DEF TimeOut, p
  <2>2. QED
      BY <1>2, <1>3, <1>4, <2>1 DEF ProbeInv, ProbeSound
<1>6. CASE DrainReport
  <2>1. PICK late \in BOOLEAN :
            LET x == IF late THEN p ELSE probe
            IN /\ late => x # probe
               /\ IF Replying(x) THEN probe' = x /\ UNCHANGED queue
                  ELSE probe' = ProbeReceive(x, Head(queue)) /\ queue' = Tail(queue)
      BY <1>6 DEF DrainReport, p
  <2>2. CASE late
    <3>1. probe' = p /\ queue' = queue
        BY <1>4, <2>1, <2>2
    <3>2. QED
        BY <1>2, <1>3, <1>4, <3>1 DEF ProbeInv, ProbeSound
  <2>3. CASE ~late
    <3>1. probe' = ProbeReceive(probe, Head(queue)) /\ queue' = Tail(queue) /\ queue # <<>>
        BY <1>6, <2>1, <2>3 DEF DrainReport
    <3>2. /\ Tail(queue) \in Seq(ProbeReport) /\ Given(probe, Tail(queue), programs, own)
          /\ Arrives(probe, Tail(queue), programs, own, Head(queue))
        BY <1>2, <3>1, LeavesQueue
    <3>3. /\ ProbeReceive(probe, Head(queue)) \in ProbeType
          /\ ProbeSound(ProbeReceive(probe, Head(queue)), Tail(queue), programs)
        BY <1>2, <3>2, ReceiveSound
    <3>4. QED
        BY <1>2, <1>3, <3>1, <3>2, <3>3 DEF ProbeInv
  <2>4. QED
      BY <2>2, <2>3
<1>7. QED
    BY <1>5, <1>6

\* The engine returns.
LEMMA EngineStep == ProbeInv /\ EngineAnswers => ProbeInv'
<1> SUFFICES ASSUME ProbeInv, EngineAnswers PROVE ProbeInv'
    OBVIOUS
<1>1. PICK m, own : ProbeLinked(probe, queue, programs, m, own)
    BY InvLinked
<1>2. /\ probe \in ProbeType /\ queue \in Seq(ProbeReport) /\ programs \in [Programs -> ProgramType]
      /\ m \in Nat /\ own \in [1 .. m -> Programs] /\ probe.channels = 1 .. m /\ Given(probe, queue, programs, own)
      /\ probe.processing /\ probe' = Dispatched(probe, 2)
    BY <1>1 DEF ProbeLinked, EngineAnswers
<1>3. UNCHANGED <<queue, overflow, programs, mistaken>> /\ overflow \in BOOLEAN /\ mistaken = FALSE
    BY DEF ProbeInv, EngineAnswers
<1>4. /\ probe' \in ProbeType /\ probe'.channels = 1 .. m /\ Given(probe', queue, programs, own)
    BY <1>2, DispatchedSound
<1>5. QED
    BY <1>2, <1>3, <1>4 DEF ProbeInv, ProbeSound

\* The interface went away and came back.
LEMMA ReattachStep == ProbeInv /\ Reattach => ProbeInv'
<1> SUFFICES ASSUME ProbeInv, Reattach PROVE ProbeInv'
    OBVIOUS
<1>1. /\ probe' = ProbeReset /\ queue' = <<>> /\ overflow' = FALSE /\ mistaken' = mistaken /\ mistaken = FALSE
      /\ programs' = [c \in Programs |-> [NewProgram EXCEPT !.n = programs[c].n]]
      /\ programs \in [Programs -> ProgramType]
    BY DEF Reattach, ProbeInv
<1>2. \A c \in Programs : /\ programs'[c] \in ProgramType /\ programs'[c].st = "new" /\ programs'[c].cid = 0
    BY <1>1 DEF NewProgram, ProgramType
<1>3. programs' \in [Programs -> ProgramType]
    BY <1>1, <1>2
<1>4. /\ probe' \in ProbeType /\ probe'.channels = {} /\ ~probe'.receiving /\ ~probe'.processing /\ probe'.reply.left = 0
  <2>1. <<>> \in Seq(PieceType) /\ {} \in SUBSET Nat /\ Nobody \in ProbeAuthor
      BY DEF Nobody, ProbeAuthor
  <2>2. NoReply \in ReplyType /\ NoReply.left = 0
      BY <2>1 DEF NoReply, ReplyType
  <2>3. QED
      BY <1>1, <2>1, <2>2 DEF ProbeReset, ProbeType
<1>5. queue' \in Seq(ProbeReport) /\ Len(queue') = 0
    BY <1>1
<1> DEFINE own == [g \in 1 .. 0 |-> g]
<1>6. own \in [1 .. 0 -> Programs] /\ probe'.channels = 1 .. 0
    BY <1>4
<1> HIDE DEF own
<1>7. Given(probe', queue', programs', own)
  <2>1. \A c \in Programs : ProgramSound(programs'[c], c, own)
      BY <1>2 DEF ProgramSound
  <2>2. QueueSound(queue', programs', own)
      BY <1>5 DEF QueueSound
  <2>3. ReceptionSound(probe', queue', programs', own) /\ AnswerSound(probe', queue', programs', own)
      BY <1>4 DEF ReceptionSound, AnswerSound, Replying
  <2>4. QED
      BY <2>1, <2>2, <2>3 DEF Given
<1>8. QED
    BY <1>1, <1>3, <1>4, <1>5, <1>6, <1>7 DEF ProbeInv, ProbeSound

-----------------------------------------------------------------------------
(* What the programs make of a report *)

\* A program that hears an error, or nothing for it, gives up at most.
LEMMA HearsMoves ==
    ASSUME NEW s \in ProgramType, NEW t \in ProgramType, NEW c, NEW own, ProgramSound(s, c, own),
           t.n = s.n, t.cid = s.cid, t.size = s.size, t.sent = s.sent,
           t.st = s.st \/ (s.st = "waiting" /\ t.st = "opening")
    PROVE  Moves(s, t) /\ ProgramSound(t, c, own)
<1>1. s.n \in Nat /\ s.sent \in Nat /\ s.st \in {"new", "opening", "ready", "sending", "waiting"}
    BY DEF ProgramType
<1>2. ProgramSound(t, c, own)
    BY DEF ProgramSound
<1>3. s.st = "new" => t.cid = 0
    BY DEF ProgramSound
<1>4. \/ t.cid = 0 \/ t.st = "opening" \/ s.st = "ready"
      \/ {s.st, t.st} \subseteq {"sending", "waiting"} /\ t.n = s.n
    BY <1>1, <1>3
<1>5. QED
    BY <1>1, <1>2, <1>4 DEF Moves

\* An error.
LEMMA HearsError ==
    ASSUME NEW k \in [Programs -> ProgramType], NEW c \in Programs, NEW own, ProgramSound(k[c], c, own),
           programs = k, NEW r, r.cmd = "error"
    PROVE  /\ Hears(c, r) \in ProgramType /\ Moves(k[c], Hears(c, r)) /\ ProgramSound(Hears(c, r), c, own)
           /\ ~Mistakes(c, r)
<1> DEFINE s == k[c]
           t == Hears(c, r)
<1>1. s \in ProgramType
    OBVIOUS
<1>2. t = IF s.cid = r.cid /\ s.st = "waiting" THEN [s EXCEPT !.st = "opening"]
          ELSE IF s.cid = r.cid /\ s.st = "sending" THEN [s EXCEPT !.failed = TRUE] ELSE s
    BY DEF Hears
<1> HIDE DEF s, t
<1>3. /\ t \in ProgramType /\ t.n = s.n /\ t.cid = s.cid /\ t.size = s.size /\ t.sent = s.sent
      /\ t.st = s.st \/ (s.st = "waiting" /\ t.st = "opening")
    BY <1>1, <1>2 DEF ProgramType
<1>4. Moves(s, t) /\ ProgramSound(t, c, own)
    BY <1>1, <1>3, HearsMoves DEF s
<1>5. ~Mistakes(c, r)
    BY DEF Mistakes
<1>6. QED
    BY <1>3, <1>4, <1>5 DEF s, t

\* A program becomes ready on a channel on which no piece waits.
Readied(t, s, c, q, m, own) ==
    /\ t.st = "ready" /\ t.n = s.n /\ t.size = s.size /\ t.sent = s.sent
    /\ t.cid \in 1 .. m /\ own[t.cid] = c
    /\ \A i \in 1 .. Len(q) : Part(q[i]) => q[i].cid # t.cid

\* Nothing else is disturbed by it.
LEMMA ReadyKeeps ==
    ASSUME NEW z, NEW q \in Seq(ProbeReport), NEW k \in [Programs -> ProgramType], NEW l \in [Programs -> ProgramType],
           NEW m \in Nat, NEW own \in [1 .. m -> Programs],
           QueueSound(q, k, own), \A c \in Programs : ProgramSound(k[c], c, own),
           ~z.receiving, ~z.processing, ~Replying(z),
           \A c \in Programs : l[c] = k[c] \/ Readied(l[c], k[c], c, q, m, own)
    PROVE  Given(z, q, l, own)
<1>1. ASSUME NEW i \in 1 .. Len(q)
      PROVE  ReportSound(q[i], l[q[i].of.by], own)
  <2> DEFINE r == q[i]
             s == k[r.of.by]
             t == l[r.of.by]
  <2>1. r \in ProbeReport
      OBVIOUS
  <2>2. r.of.by \in Programs
      BY <2>1 DEF ProbeReport
  <2>3. ReportSound(r, s, own)
      BY DEF QueueSound
  <2>4. CASE t = s
      BY <2>3, <2>4
  <2>5. CASE Readied(t, s, r.of.by, q, m, own)
    <3>1. Part(r) => r.cid # t.cid
        BY <2>5, SMTT(60) DEF Readied
    <3>2. t.st = "ready" /\ t.n = s.n /\ t.size = s.size /\ t.sent = s.sent
        BY <2>5 DEF Readied
    <3> HIDE DEF r, s, t
    <3>3. ReportSound(r, t, own)
        BY <2>3, <3>1, <3>2 DEF ReportSound, Latest
    <3>4. QED
        BY <3>3 DEF r, s, t
  <2>6. QED
      BY <2>2, <2>4, <2>5
<1>2. QueueSound(q, l, own)
    BY <1>1 DEF QueueSound
<1>3. \A c \in Programs : ProgramSound(l[c], c, own)
  <2>1. DOMAIN own = 1 .. m /\ \A g \in 1 .. m : g # 0
      OBVIOUS
  <2>2. QED
      BY <2>1 DEF ProgramSound, Readied
<1>4. ReceptionSound(z, q, l, own) /\ AnswerSound(z, q, l, own)
    BY DEF ReceptionSound, AnswerSound
<1>5. QED
    BY <1>2, <1>3, <1>4 DEF Given

\* Every answer is heard by the program it is for, and by no other.
LEMMA HearsAnswer ==
    ASSUME NEW p \in ProbeType, NEW q \in Seq(ProbeReport), NEW k \in [Programs -> ProgramType], NEW m \in Nat,
           NEW own \in [1 .. m -> Programs], Given(p, q, k, own), Replying(p), p.reply.cmd # "error",
           programs = k, NEW c \in Programs
    PROVE  /\ Hears(c, p.reply) \in ProgramType /\ ~Mistakes(c, p.reply)
           /\ \/ Hears(c, p.reply) = k[c]
              \/ p.reply.left = 1 /\ Readied(Hears(c, p.reply), k[c], c, q, m, own)
<1> DEFINE r == p.reply
           s == k[c]
           t == Hears(c, r)
<1>1. /\ r \in ReplyType /\ r.cmd \in {"init", "ping", "cbor"} /\ r.cid \in Int /\ r.gives \in Nat
      /\ r.of \in ProbeAuthor /\ s \in ProgramType /\ DOMAIN own = 1 .. m /\ ProgramSound(s, c, own)
  <2>1. r \in ReplyType /\ s \in ProgramType /\ DOMAIN own = 1 .. m /\ ProgramSound(s, c, own)
      BY DEF ProbeType, Given
  <2>2. r.cmd # "none" /\ r.cmd # "error"
      BY DEF Given, AnswerSound
  <2>3. QED
      BY <2>1, <2>2 DEF ReplyType
<1>2. CASE r.cmd = "init"
  <2>1. /\ r.left = 1 /\ r.gives \in 1 .. m /\ own[r.gives] = r.of.by
        /\ r.of.n = k[r.of.by].n => \A i \in 1 .. Len(q) : Part(q[i]) => q[i].cid # r.gives
      BY <1>1, <1>2 DEF Given, AnswerSound
  <2>2. ~Mistakes(c, r)
      BY <1>2 DEF Mistakes
  <2>3. t = IF s.st = "opening" /\ r.of = [by |-> c, n |-> s.n] THEN [s EXCEPT !.st = "ready", !.cid = r.gives] ELSE s
      BY <1>2 DEF Hears
  <2> HIDE DEF r, s, t
  <2>4. CASE s.st = "opening" /\ r.of = [by |-> c, n |-> s.n]
    <3>1. r.of.by = c /\ r.of.n = k[c].n
        BY <2>4 DEF s
    <3>2. t \in ProgramType /\ t.st = "ready" /\ t.n = s.n /\ t.size = s.size /\ t.sent = s.sent /\ t.cid = r.gives
        BY <1>1, <2>3, <2>4 DEF ProgramType
    <3>3. Readied(t, s, c, q, m, own)
        BY <2>1, <3>1, <3>2 DEF Readied, r, s
    <3>4. QED
        BY <2>1, <2>2, <3>2, <3>3 DEF r, s, t
  <2>5. CASE ~(s.st = "opening" /\ r.of = [by |-> c, n |-> s.n])
      BY <1>1, <2>2, <2>3, <2>5 DEF r, s, t
  <2>6. QED
      BY <2>4, <2>5
<1>3. CASE r.cmd \in {"ping", "cbor"}
  <2>1. /\ r.cid \in 1 .. m /\ own[r.cid] = r.of.by
        /\ k[r.of.by].cid = r.cid => k[r.of.by].st # "sending" /\ Busy(k[r.of.by], r.of)
        /\ \A i \in 1 .. Len(q) : Part(q[i]) => q[i].cid # r.cid
      BY <1>1, <1>3 DEF Given, AnswerSound
  <2>2. ASSUME s.cid = r.cid
        PROVE  r.of.by = c /\ s.st \in {"opening", "waiting"} /\ (s.st = "waiting" => r.of = [by |-> c, n |-> s.n])
    <3>1. own[s.cid] = c
        BY <1>1, <2>1, <2>2 DEF ProgramSound
    <3>2. r.of.by = c
        BY <2>1, <2>2, <3>1
    <3>3. s.st # "sending" /\ Busy(s, r.of)
        BY <2>1, <2>2, <3>2
    <3>4. s.st = "waiting" => r.of.n = s.n
        BY <3>3 DEF Busy
    <3>5. r.of = [by |-> r.of.by, n |-> r.of.n]
        BY <1>1 DEF ProbeAuthor
    <3>6. s.st \in {"opening", "waiting"}
        BY <3>3 DEF Busy
    <3>7. QED
        BY <3>2, <3>4, <3>5, <3>6
  <2>3. ~Mistakes(c, r)
      BY <2>2 DEF Mistakes
  <2>4. t = IF s.cid = r.cid /\ s.st = "waiting" /\ r.left = 1 THEN [s EXCEPT !.st = "ready"] ELSE s
      BY <1>3 DEF Hears
  <2> HIDE DEF r, s, t
  <2>5. CASE s.cid = r.cid /\ s.st = "waiting" /\ r.left = 1
    <3>1. t \in ProgramType /\ t.st = "ready" /\ t.n = s.n /\ t.size = s.size /\ t.sent = s.sent /\ t.cid = r.cid
        BY <1>1, <2>4, <2>5 DEF ProgramType
    <3>2. own[r.cid] = c
        BY <2>1, <2>2, <2>5
    <3>3. Readied(t, s, c, q, m, own)
        BY <2>1, <3>1, <3>2 DEF Readied, r
    <3>4. QED
        BY <2>3, <2>5, <3>1, <3>3 DEF r, s, t
  <2>6. CASE ~(s.cid = r.cid /\ s.st = "waiting" /\ r.left = 1)
      BY <1>1, <2>3, <2>4, <2>6 DEF r, s, t
  <2>7. QED
      BY <2>5, <2>6
<1>4. QED
    BY <1>1, <1>2, <1>3

\* One report of an answer, or a control report, reaches the host.
LEMMA SendStep == ProbeInv /\ SendToHost => ProbeInv'
<1> SUFFICES ASSUME ProbeInv, SendToHost PROVE ProbeInv'
    OBVIOUS
<1>1. PICK m, own : ProbeLinked(probe, queue, programs, m, own)
    BY InvLinked
<1>2. /\ probe \in ProbeType /\ queue \in Seq(ProbeReport) /\ programs \in [Programs -> ProgramType]
      /\ m \in Nat /\ own \in [1 .. m -> Programs] /\ probe.channels = 1 .. m /\ Given(probe, queue, programs, own)
      /\ \A c \in Programs : ProgramSound(programs[c], c, own)
    BY <1>1 DEF ProbeLinked, Given
<1>3. UNCHANGED <<queue, overflow>> /\ overflow \in BOOLEAN /\ mistaken = FALSE
    BY DEF ProbeInv, SendToHost
<1>4. CASE HasControl(probe)
  <2> DEFINE r == [NoReply EXCEPT !.cid = probe.control, !.cmd = "error", !.left = 1]
  <2>1. /\ probe' = [probe EXCEPT !.control = 0] /\ programs' = [c \in Programs |-> Hears(c, r)]
        /\ mistaken' = (mistaken \/ \E c \in Programs : Mistakes(c, r))
      BY <1>4 DEF SendToHost
  <2>2. r.cmd = "error"
      BY DEF NoReply
  <2> HIDE DEF r
  <2>3. \A c \in Programs : /\ Hears(c, r) \in ProgramType /\ Moves(programs[c], Hears(c, r))
                            /\ ProgramSound(Hears(c, r), c, own) /\ ~Mistakes(c, r)
      BY <1>2, <2>2, HearsError
  <2>4. programs' \in [Programs -> ProgramType] /\ \A c \in Programs : programs'[c] = Hears(c, r)
      BY <2>1, <2>3
  <2>5. Given(probe, queue, programs', own)
      BY <1>2, <2>3, <2>4, MovesKeep
  <2>6. /\ probe' \in ProbeType /\ probe'.channels = probe.channels /\ probe'.active = probe.active
        /\ probe'.cmd = probe.cmd /\ probe'.size = probe.size /\ probe'.rx = probe.rx /\ probe'.seq = probe.seq
        /\ probe'.receiving = probe.receiving /\ probe'.processing = probe.processing
        /\ probe'.resync = probe.resync /\ probe'.reply = probe.reply
    <3>1. probe \in ProbeType /\ probe' = [probe EXCEPT !.control = 0]
        BY <1>2, <2>1
    <3>2. QED
        BY <3>1, SMTT(60) DEF ProbeType
  <2>7. Given(probe', queue, programs', own)
      BY <2>5, <2>6, FieldsKeep
  <2>8. mistaken' = FALSE
      BY <1>3, <2>1, <2>3
  <2>9. QED
      BY <1>2, <1>3, <2>4, <2>6, <2>7, <2>8 DEF ProbeInv, ProbeSound
<1>5. CASE ~HasControl(probe)
  <2> DEFINE r == probe.reply
  <2>1. /\ probe' = IF r.left = 1 THEN [probe EXCEPT !.reply = NoReply] ELSE [probe EXCEPT !.reply.left = @ - 1]
        /\ programs' = [c \in Programs |-> Hears(c, r)] /\ Replying(probe)
        /\ mistaken' = (mistaken \/ \E c \in Programs : Mistakes(c, r))
      BY <1>5 DEF SendToHost
  <2>2. r \in ReplyType /\ r.left \in Nat /\ r.left > 0
      BY <1>2, <2>1 DEF ProbeType, ReplyType, Replying
  <2> DEFINE a == IF r.left = 1 THEN NoReply ELSE [r EXCEPT !.left = @ - 1]
  <2>3. /\ a \in ReplyType /\ (r.left = 1 => a.left = 0)
        /\ r.left # 1 => a.cmd = r.cmd /\ a.cid = r.cid /\ a.of = r.of /\ a.gives = r.gives /\ a.left = r.left - 1
    <3>1. NoReply \in ReplyType /\ NoReply.left = 0
        BY DEF NoReply, ReplyType, ProbeAuthor, Nobody
    <3>2. r.left # 1 => r.left - 1 \in Nat
        BY <2>2
    <3>3. QED
        BY <2>2, <3>1, <3>2 DEF ReplyType
  <2>4. probe' = [probe EXCEPT !.reply = a]
      BY <1>2, <2>1 DEF ProbeType
  <2> HIDE DEF a
  <2>5. /\ [probe EXCEPT !.reply = a] \in ProbeType /\ [probe EXCEPT !.reply = a].reply = a
        /\ [probe EXCEPT !.reply = a].channels = probe.channels /\ [probe EXCEPT !.reply = a].active = probe.active
        /\ [probe EXCEPT !.reply = a].cmd = probe.cmd /\ [probe EXCEPT !.reply = a].size = probe.size
        /\ [probe EXCEPT !.reply = a].rx = probe.rx /\ [probe EXCEPT !.reply = a].seq = probe.seq
        /\ [probe EXCEPT !.reply = a].receiving = probe.receiving /\ [probe EXCEPT !.reply = a].processing = probe.processing
      BY <1>2, <2>3, ReplyFacts
  <2>6. /\ probe' \in ProbeType /\ probe'.reply = a /\ probe'.channels = probe.channels /\ probe'.active = probe.active
        /\ probe'.cmd = probe.cmd /\ probe'.size = probe.size /\ probe'.rx = probe.rx /\ probe'.seq = probe.seq
        /\ probe'.receiving = probe.receiving /\ probe'.processing = probe.processing
      BY <2>4, <2>5
  <2>7. ~probe.processing
      BY <1>2, <2>1 DEF Given, ReceptionSound
  <2>8. CASE r.cmd = "error"
    <3>1. \A c \in Programs : /\ Hears(c, r) \in ProgramType /\ Moves(programs[c], Hears(c, r))
                              /\ ProgramSound(Hears(c, r), c, own) /\ ~Mistakes(c, r)
        BY <1>2, <2>8, HearsError
    <3>2. programs' \in [Programs -> ProgramType] /\ \A c \in Programs : programs'[c] = Hears(c, r)
        BY <2>1, <3>1
    <3>3. Given(probe, queue, programs', own)
        BY <1>2, <3>1, <3>2, MovesKeep
    <3>4. probe'.reply.cmd = "error" \/ ~Replying(probe')
        BY <2>3, <2>6, <2>8 DEF Replying
    <3>5. Given(probe', queue, programs', own)
        BY <2>6, <2>7, <3>3, <3>4, ErrorKeeps
    <3>6. mistaken' = FALSE
        BY <1>3, <2>1, <3>1
    <3>7. QED
        BY <1>2, <1>3, <2>6, <3>2, <3>5, <3>6 DEF ProbeInv, ProbeSound
  <2>9. CASE r.cmd # "error"
    <3>1. ASSUME NEW c \in Programs
          PROVE  /\ Hears(c, r) \in ProgramType /\ ~Mistakes(c, r)
                 /\ \/ Hears(c, r) = programs[c]
                    \/ r.left = 1 /\ Readied(Hears(c, r), programs[c], c, queue, m, own)
      <4>1. /\ probe \in ProbeType /\ queue \in Seq(ProbeReport) /\ programs \in [Programs -> ProgramType]
            /\ m \in Nat /\ own \in [1 .. m -> Programs] /\ Given(probe, queue, programs, own)
            /\ Replying(probe) /\ probe.reply.cmd # "error"
          BY <1>2, <2>1, <2>9
      <4>2. QED
          BY <4>1, HearsAnswer
    <3>2. programs' \in [Programs -> ProgramType] /\ \A c \in Programs : programs'[c] = Hears(c, r)
        BY <2>1, <3>1
    <3>3. mistaken' = FALSE
        BY <1>3, <2>1, <3>1
    <3>4. ~probe'.receiving /\ ~probe'.processing /\ QueueSound(queue, programs, own)
        BY <1>2, <2>1, <2>6, <2>9 DEF Given, AnswerSound
    <3>5. Given(probe', queue, programs', own)
      <4>1. CASE r.left = 1
        <5>1. ~Replying(probe')
            BY <2>3, <2>6, <4>1 DEF Replying
        <5> DEFINE l == programs'
        <5>2. l \in [Programs -> ProgramType]
            BY <3>2
        <5>3. \A c \in Programs : l[c] = programs[c] \/ Readied(l[c], programs[c], c, queue, m, own)
            BY <3>1, <3>2
        <5> HIDE DEF l
        <5> DEFINE z == probe'
        <5>4. ~z.receiving /\ ~z.processing /\ ~Replying(z) /\ QueueSound(queue, programs, own)
            BY <3>4, <5>1
        <5> HIDE DEF z
        <5>5. Given(z, queue, l, own)
          <6>1. /\ queue \in Seq(ProbeReport) /\ programs \in [Programs -> ProgramType] /\ m \in Nat
                /\ own \in [1 .. m -> Programs] /\ \A c \in Programs : ProgramSound(programs[c], c, own)
              BY <1>2
          <6>2. QED
              BY <5>2, <5>3, <5>4, <6>1, ReadyKeeps
        <5>6. QED
            BY <5>5 DEF l, z
      <4>2. CASE r.left # 1
        <5>1. programs' = programs
          <6>1. \A c \in Programs : programs'[c] = programs[c]
              BY <3>1, <3>2, <4>2
          <6>2. QED
              BY <1>2, <3>2, <6>1
        <5>2. ReceptionSound(probe', queue, programs, own)
            BY <3>4 DEF ReceptionSound
        <5>3. a.cmd = r.cmd /\ a.cid = r.cid /\ a.of = r.of /\ r.cmd # "init"
            BY <1>2, <2>1, <2>3, <2>9, <4>2 DEF Given, AnswerSound
        <5>4. AnswerSound(probe', queue, programs, own)
          <6>1. AnswerSound(probe, queue, programs, own)
              BY <1>2 DEF Given
          <6>2. QED
              BY <2>1, <2>6, <2>9, <3>4, <5>3, <6>1 DEF AnswerSound
        <5>5. QED
            BY <1>2, <5>1, <5>2, <5>4 DEF Given
      <4>3. QED
          BY <4>1, <4>2
    <3>6. QED
        BY <1>2, <1>3, <2>6, <3>2, <3>3, <3>5 DEF ProbeInv, ProbeSound
  <2>10. QED
      BY <2>8, <2>9
<1>6. QED
    BY <1>4, <1>5

-----------------------------------------------------------------------------
(* The reports of the programs *)

\* The report may go to the end of the queue.
MayJoin(p, q, k, r) ==
    /\ \A i \in 1 .. Len(q) : Follows(q[i], r)
    /\ p.receiving /\ Part(r) /\ r.cid = p.active =>
          r.of = Sender(p) /\ Len(p.rx) < r.at /\ r.at <= p.size
    /\ Replying(p) /\ p.reply.cmd = "init" /\ p.reply.of.n = k[p.reply.of.by].n /\ Part(r) =>
          r.cid # p.reply.gives
    /\ Replying(p) /\ p.reply.cmd \in {"ping", "cbor"} /\ Part(r) => r.cid # p.reply.cid

\* A report that is no piece of a message always may.
LEMMA OtherMayJoin ==
    ASSUME NEW p, NEW q, NEW k, NEW r, ~Part(r)
    PROVE  MayJoin(p, q, k, r)
    BY DEF MayJoin, Follows

\* What a report that waits says to the program that holds its channel.
Waits(e, s, c) ==
    /\ e.of \in [by : Programs, n : Nat] /\ e.at \in Nat
    /\ e.of.by = c /\ e.cmd = "init" => Latest(s, e.of)
    /\ Part(e) /\ e.cid = s.cid =>
          /\ e.of.by = c /\ Busy(s, e.of)
          /\ e.of.n = s.n => e.at <= s.sent /\ (e.cmd # "cont" => e.size = s.size)

\* What the transport knows of the program whose message or answer it holds.
Serves(p, s, c) ==
    /\ p.receiving /\ s.cid = p.active =>
          /\ Sender(p) \in [by : Programs, n : Nat] /\ Sender(p).by = c /\ Busy(s, Sender(p))
          /\ Sender(p).n = s.n => p.size = s.size /\ Len(p.rx) <= s.sent
          /\ Len(p.rx) \in Nat
    /\ Replying(p) /\ p.reply.cmd = "init" /\ s.cid = p.reply.gives =>
          p.reply.of.by = c /\ Latest(s, p.reply.of)
    /\ Replying(p) /\ p.reply.cmd \in {"ping", "cbor"} /\ s.cid = p.reply.cid =>
          s.st # "sending" /\ Busy(s, p.reply.of)

\* What the queue says of the pieces on the channel of a program.
LEMMA OwnPieces ==
    ASSUME NEW q \in Seq(ProbeReport), NEW k \in [Programs -> ProgramType], NEW m \in Nat,
           NEW own \in [1 .. m -> Programs], QueueSound(q, k, own), NEW c \in Programs,
           k[c].cid \in 1 .. m, own[k[c].cid] = c, NEW i \in 1 .. Len(q)
    PROVE  Waits(q[i], k[c], c)
<1> DEFINE e == q[i]
<1>1. e \in ProbeReport
    OBVIOUS
<1>2. e.of \in [by : Programs, n : Nat] /\ e.at \in Nat /\ e.of.by \in Programs
    BY <1>1 DEF ProbeReport
<1>3. ReportSound(e, k[e.of.by], own)
    BY DEF QueueSound
<1> HIDE DEF e
<1>4. e.of.by = c /\ e.cmd = "init" => Latest(k[c], e.of)
    BY <1>3 DEF ReportSound
<1>5. ASSUME Part(e), e.cid = k[c].cid
      PROVE  /\ e.of.by = c /\ Busy(k[c], e.of)
             /\ e.of.n = k[c].n => e.at <= k[c].sent /\ (e.cmd # "cont" => e.size = k[c].size)
  <2>1. e.cmd # "init" /\ e.cid # ToAll
      BY <1>5 DEF Part, ToAll
  <2>2. e.of.by = c
      BY <1>3, <1>5, <2>1 DEF ReportSound
  <2>3. ReportSound(e, k[c], own)
      BY <1>3, <2>2
  <2>4. QED
      BY <1>5, <2>2, <2>3 DEF ReportSound
<1>6. QED
    BY <1>2, <1>4, <1>5 DEF Waits, e

\* Nor does the transport work at another message on it.
LEMMA OwnReception ==
    ASSUME NEW p \in ProbeType, NEW q, NEW k \in [Programs -> ProgramType], NEW m \in Nat,
           NEW own \in [1 .. m -> Programs], Given(p, q, k, own), NEW c \in Programs,
           k[c].cid \in 1 .. m, own[k[c].cid] = c
    PROVE  Serves(p, k[c], c)
<1>1. ASSUME p.receiving, k[c].cid = p.active
      PROVE  /\ Sender(p) \in [by : Programs, n : Nat] /\ Sender(p).by = c /\ Busy(k[c], Sender(p))
             /\ Sender(p).n = k[c].n => p.size = k[c].size /\ Len(p.rx) <= k[c].sent
             /\ Len(p.rx) \in Nat
  <2>1. MessageSound(p, q, k[c], c)
      BY <1>1 DEF Given, ReceptionSound
  <2>2. p.rx \in Seq(PieceType) /\ Len(p.rx) \in Nat /\ Len(p.rx) >= 1
      BY <2>1, LenProperties DEF ProbeType, MessageSound
  <2>3. p.rx[1] \in PieceType
      BY <2>2
  <2>4. Sender(p) \in [by : Programs, n : Nat]
      BY <2>3 DEF Sender, PieceType
  <2>5. QED
      BY <1>1, <2>1, <2>2, <2>4 DEF MessageSound
<1>2. AnswerSound(p, q, k, own)
    BY DEF Given
<1>3. Replying(p) /\ p.reply.cmd = "init" /\ k[c].cid = p.reply.gives =>
         p.reply.of.by = c /\ Latest(k[c], p.reply.of)
    BY <1>2 DEF AnswerSound
<1>4. Replying(p) /\ p.reply.cmd \in {"ping", "cbor"} /\ k[c].cid = p.reply.cid =>
         k[c].st # "sending" /\ Busy(k[c], p.reply.of)
    BY <1>2 DEF AnswerSound
<1>5. QED
    BY <1>1, <1>3, <1>4 DEF Serves

\* The first piece of the next message of a program that rests.
LEMMA FirstMayJoin ==
    ASSUME NEW p \in ProbeType, NEW q \in Seq(ProbeReport), NEW k \in [Programs -> ProgramType], NEW l, NEW m \in Nat,
           NEW own \in [1 .. m -> Programs], Given(p, q, k, own), NEW c \in Programs,
           k[c].cid \in 1 .. m, own[k[c].cid] = c, k[c].st = "ready",
           NEW r \in ProbeReport, r.cid = k[c].cid, r.of = [by |-> c, n |-> k[c].n + 1], l[c].n = k[c].n + 1
    PROVE  MayJoin(p, q, l, r)
<1>1. k[c].n \in Nat /\ r.of.by = c /\ r.of.n = k[c].n + 1 /\ \A of : ~Busy(k[c], of)
    BY DEF ProgramType, Busy
<1>2. QueueSound(q, k, own)
    BY DEF Given
<1>3. ASSUME NEW i \in 1 .. Len(q)
      PROVE  Follows(q[i], r)
  <2>0. Waits(q[i], k[c], c)
      BY <1>2, OwnPieces
  <2>1. /\ q[i].of \in [by : Programs, n : Nat]
        /\ q[i].of.by = c /\ q[i].cmd = "init" => Latest(k[c], q[i].of)
        /\ ~(Part(q[i]) /\ q[i].cid = k[c].cid)
      BY <1>1, <2>0 DEF Waits
  <2>2. q[i].cmd = "init" /\ q[i].of.by = c => q[i].of.n < r.of.n
      BY <1>1, <2>1 DEF Latest
  <2>3. QED
      BY <1>1, <2>1, <2>2 DEF Follows
<1>0. Serves(p, k[c], c)
    BY OwnReception
<1>4. /\ ~(p.receiving /\ k[c].cid = p.active)
      /\ Replying(p) /\ p.reply.cmd = "init" /\ k[c].cid = p.reply.gives =>
            p.reply.of.by = c /\ Latest(k[c], p.reply.of)
      /\ ~(Replying(p) /\ p.reply.cmd \in {"ping", "cbor"} /\ k[c].cid = p.reply.cid)
    BY <1>0, <1>1 DEF Serves
<1>5. p.reply.of.n \in Nat
    BY DEF ProbeType, ReplyType, ProbeAuthor
<1>6. Replying(p) /\ p.reply.cmd = "init" /\ k[c].cid = p.reply.gives => p.reply.of.n # l[p.reply.of.by].n
    BY <1>1, <1>4, <1>5 DEF Latest
<1>7. QED
    BY <1>3, <1>4, <1>6 DEF MayJoin

\* The next piece of a message.
LEMMA RestMayJoin ==
    ASSUME NEW p \in ProbeType, NEW q \in Seq(ProbeReport), NEW k \in [Programs -> ProgramType], NEW l, NEW m \in Nat,
           NEW own \in [1 .. m -> Programs], Given(p, q, k, own), NEW c \in Programs,
           k[c].cid \in 1 .. m, own[k[c].cid] = c, k[c].st = "sending", k[c].sent < k[c].size,
           NEW r \in ProbeReport, r.cid = k[c].cid, r.of = [by |-> c, n |-> k[c].n], r.at = k[c].sent + 1, l[c].n = k[c].n
    PROVE  MayJoin(p, q, l, r)
<1>1. /\ k[c].n \in Nat /\ k[c].sent \in Nat /\ k[c].size \in Nat /\ r.of.by = c /\ r.of.n = k[c].n
      /\ \A of : Busy(k[c], of) => of.n = k[c].n
      /\ \A of : Latest(k[c], of) => of.n <= k[c].n /\ of.n # k[c].n
    BY DEF ProgramType, Busy, Latest
<1>2. QueueSound(q, k, own)
    BY DEF Given
<1>3. ASSUME NEW i \in 1 .. Len(q)
      PROVE  Follows(q[i], r)
  <2>0. Waits(q[i], k[c], c)
      BY <1>2, OwnPieces
  <2>1. /\ q[i].of \in [by : Programs, n : Nat] /\ q[i].at \in Nat
        /\ q[i].of.by = c /\ q[i].cmd = "init" => Latest(k[c], q[i].of)
        /\ Part(q[i]) /\ q[i].cid = k[c].cid =>
              /\ q[i].of.by = c /\ Busy(k[c], q[i].of)
              /\ q[i].of.n = k[c].n => q[i].at <= k[c].sent /\ (q[i].cmd # "cont" => q[i].size = k[c].size)
      BY <2>0 DEF Waits
  <2>2. q[i].cmd = "init" /\ q[i].of.by = c => q[i].of.n < r.of.n
      BY <1>1, <2>1
  <2>3. ASSUME Part(q[i]), q[i].cid = k[c].cid
        PROVE  q[i].of = r.of /\ q[i].at < r.at /\ (q[i].cmd # "cont" => r.at <= q[i].size)
    <3>1. q[i].of.by = c /\ q[i].of.n = k[c].n
        BY <1>1, <2>1, <2>3
    <3>2. q[i].of = r.of
        BY <2>1, <3>1
    <3>3. QED
        BY <1>1, <2>1, <2>3, <3>1, <3>2
  <2>4. QED
      BY <1>1, <2>2, <2>3 DEF Follows
<1>0. Serves(p, k[c], c)
    BY OwnReception
<1>4. /\ p.receiving /\ k[c].cid = p.active =>
            /\ Sender(p) \in [by : Programs, n : Nat] /\ Sender(p).by = c /\ Busy(k[c], Sender(p))
            /\ Sender(p).n = k[c].n => p.size = k[c].size /\ Len(p.rx) <= k[c].sent
            /\ Len(p.rx) \in Nat
      /\ Replying(p) /\ p.reply.cmd = "init" /\ k[c].cid = p.reply.gives =>
            p.reply.of.by = c /\ Latest(k[c], p.reply.of)
      /\ ~(Replying(p) /\ p.reply.cmd \in {"ping", "cbor"} /\ k[c].cid = p.reply.cid)
    BY <1>0 DEF Serves
<1>5. ASSUME p.receiving, k[c].cid = p.active
      PROVE  r.of = Sender(p) /\ Len(p.rx) < r.at /\ r.at <= p.size
  <2>1. Sender(p) \in [by : Programs, n : Nat] /\ Sender(p).by = c /\ Sender(p).n = k[c].n
      BY <1>1, <1>4, <1>5
  <2>2. Sender(p) = r.of
      BY <2>1
  <2>3. QED
      BY <1>1, <1>4, <1>5, <2>1, <2>2
<1>6. Replying(p) /\ p.reply.cmd = "init" /\ k[c].cid = p.reply.gives => p.reply.of.n # l[p.reply.of.by].n
    BY <1>1, <1>4
<1>7. QED
    BY <1>3, <1>4, <1>5, <1>6 DEF MayJoin

-----------------------------------------------------------------------------
(* The steps of the host *)

\* What a step of a program does to the transport, in terms of its new state.
LEMMA HostSound ==
    ASSUME ProbeInv, NEW m, NEW own, ProbeLinked(probe, queue, programs, m, own), NEW l \in [Programs -> ProgramType],
           programs' = l, \A c \in Programs : Moves(programs[c], l[c]) /\ ProgramSound(l[c], c, own),
           NEW r \in ProbeReport, ReportSound(r, l[r.of.by], own), MayJoin(probe, queue, l, r), FromHost(r)
    PROVE  ProbeInv'
<1>1. /\ probe \in ProbeType /\ queue \in Seq(ProbeReport) /\ programs \in [Programs -> ProgramType]
      /\ m \in Nat /\ own \in [1 .. m -> Programs] /\ probe.channels = 1 .. m /\ Given(probe, queue, programs, own)
    BY DEF ProbeLinked
<1>2. overflow \in BOOLEAN /\ mistaken' = FALSE
    BY DEF ProbeInv, FromHost
<1>3. Given(probe, queue, l, own)
    BY <1>1, MovesKeep
<1>4. CASE probe.processing
  <2>1. probe' = ProbeReceive(probe, r) /\ UNCHANGED <<queue, overflow>>
      BY <1>4 DEF FromHost
  <2>2. ProbeReceive(probe, r) = WhileProcessing(probe, r)
      BY <1>4 DEF ProbeReceive
  <2>3. /\ WhileProcessing(probe, r) \in ProbeType /\ WhileProcessing(probe, r).channels = probe.channels
        /\ Given(WhileProcessing(probe, r), queue, l, own)
      BY <1>1, <1>3, <1>4, WhileSound
  <2>4. probe' \in ProbeType /\ probe'.channels = 1 .. m /\ Given(probe', queue, l, own)
      BY <1>1, <2>1, <2>2, <2>3
  <2>5. QED
      BY <1>1, <1>2, <2>1, <2>4 DEF ProbeInv, ProbeSound
<1>5. CASE ~probe.processing /\ Len(queue) = QueueSize
  <2>1. UNCHANGED <<queue, probe>> /\ overflow' = TRUE
      BY <1>5 DEF FromHost
  <2>2. QED
      BY <1>1, <1>2, <1>3, <2>1 DEF ProbeInv, ProbeSound
<1>6. CASE ~probe.processing /\ Len(queue) # QueueSize
  <2>1. queue' = Append(queue, r) /\ UNCHANGED <<overflow, probe>>
      BY <1>6 DEF FromHost
  <2>2. Append(queue, r) \in Seq(ProbeReport)
      BY <1>1, AppendProperties
  <2>3. /\ \A i \in 1 .. Len(queue) : Follows(queue[i], r)
        /\ probe.receiving /\ Part(r) /\ r.cid = probe.active =>
              r.of = Sender(probe) /\ Len(probe.rx) < r.at /\ r.at <= probe.size
        /\ Replying(probe) /\ probe.reply.cmd = "init" /\ probe.reply.of.n = l[probe.reply.of.by].n /\ Part(r) =>
              r.cid # probe.reply.gives
        /\ Replying(probe) /\ probe.reply.cmd \in {"ping", "cbor"} /\ Part(r) => r.cid # probe.reply.cid
      BY DEF MayJoin
  <2>4. Given(probe, Append(queue, r), l, own)
      BY <1>1, <1>3, <1>6, <2>3, JoinsQueue
  <2>5. QED
      BY <1>1, <1>2, <2>1, <2>2, <2>4 DEF ProbeInv, ProbeSound
<1>7. QED
    BY <1>4, <1>5, <1>6

\* The same for the step of one program.
LEMMA ProgramStep ==
    ASSUME ProbeInv, NEW m, NEW own, ProbeLinked(probe, queue, programs, m, own), NEW c \in Programs,
           NEW t \in ProgramType, programs' = [programs EXCEPT ![c] = t],
           Moves(programs[c], t), ProgramSound(t, c, own),
           NEW r \in ProbeReport, r.of.by = c, ReportSound(r, t, own),
           \A l \in [Programs -> ProgramType] : l[c] = t => MayJoin(probe, queue, l, r), FromHost(r)
    PROVE  ProbeInv'
<1> DEFINE l == programs'
<1>1. programs \in [Programs -> ProgramType] /\ Given(probe, queue, programs, own)
    BY DEF ProbeLinked
<1>2. l \in [Programs -> ProgramType] /\ l[c] = t /\ \A o \in Programs : o # c => l[o] = programs[o]
    BY <1>1
<1> HIDE DEF l
<1>3. \A o \in Programs : Moves(programs[o], l[o]) /\ ProgramSound(l[o], o, own)
  <2>1. ASSUME NEW o \in Programs, o # c
        PROVE  Moves(programs[o], l[o]) /\ ProgramSound(l[o], o, own)
    <3>1. l[o] = programs[o] /\ ProgramSound(programs[o], o, own) /\ programs[o] \in ProgramType
        BY <1>1, <1>2, <2>1 DEF Given
    <3>2. Moves(programs[o], programs[o])
      <4> DEFINE s == programs[o]
      <4>1. s.n \in Nat /\ s.sent \in Nat /\ s.st \in {"new", "opening", "ready", "sending", "waiting"}
          BY <3>1 DEF ProgramType
      <4>2. s.st = "new" => s.cid = 0
          BY <3>1 DEF ProgramSound
      <4> HIDE DEF s
      <4>3. Moves(s, s)
          BY <4>1, <4>2 DEF Moves
      <4>4. QED
          BY <4>3 DEF s
    <3>3. QED
        BY <3>1, <3>2
  <2>2. QED
      BY <1>2, <2>1
<1>4. ReportSound(r, l[r.of.by], own) /\ MayJoin(probe, queue, l, r)
    BY <1>2
<1>5. programs' = l
    BY DEF l
<1>6. QED
    BY <1>2, <1>3, <1>4, <1>5, HostSound

\* The channel a program holds is its own.
LEMMA ChannelHeld ==
    ASSUME NEW m, NEW own, ProbeLinked(probe, queue, programs, m, own), NEW c \in Programs
    PROVE  /\ programs[c] \in ProgramType /\ ProgramSound(programs[c], c, own)
           /\ DOMAIN own = 1 .. m /\ m \in Nat
           /\ programs[c].cid # 0 => programs[c].cid \in 1 .. m /\ own[programs[c].cid] = c
    BY DEF ProbeLinked, Given, ProgramSound

\* What the reports look like.
LEMMA ReportOfType ==
    ASSUME NEW c \in Programs, NEW n \in Nat, NEW cid \in Int,
           NEW cmd \in {"init", "ping", "cbor", "cont", "cancel", "bad"}
    PROVE  /\ ReportOf(c, n, cid, cmd) \in ProbeReport
           /\ ReportOf(c, n, cid, cmd).cid = cid /\ ReportOf(c, n, cid, cmd).cmd = cmd
           /\ ReportOf(c, n, cid, cmd).of = [by |-> c, n |-> n]
    BY DEF ReportOf, ProbeReport

\* A report without a piece of a message is sound if its channel is.
LEMMA OtherSound ==
    ASSUME NEW s \in ProgramType, NEW own, NEW r \in ProbeReport, ~Part(r), r.of.n = s.n,
           IF r.cid = ToAll THEN r.cmd = "init" ELSE r.cid \in DOMAIN own /\ own[r.cid] = r.of.by,
           r.cmd = "init" => s.st \in {"opening", "ready"}
    PROVE  ReportSound(r, s, own)
<1>1. r.of.n \in Nat
    BY DEF ProbeReport
<1>2. r.of.n <= s.n
    BY <1>1
<1>3. QED
    BY <1>2 DEF ReportSound, Latest

\* A program that asks.
LEMMA Asking ==
    ASSUME NEW n \in Nat, NEW g \in Nat
    PROVE  LET t == [NewProgram EXCEPT !.st = "opening", !.n = n, !.cid = g]
           IN t \in ProgramType /\ t.st = "opening" /\ t.n = n /\ t.cid = g
<1>1. NewProgram \in ProgramType
    BY DEF NewProgram, ProgramType
<1>2. QED
    BY <1>1 DEF ProgramType

\* A program asks for a channel or to have its own back.
LEMMA AskStep == ASSUME ProbeInv, NEW c \in Programs, AskChannel(c) PROVE ProbeInv'
<1>1. PICK m, own : ProbeLinked(probe, queue, programs, m, own)
    BY InvLinked
<1> DEFINE s == programs[c]
           n == s.n + 1
<1>2. /\ s \in ProgramType /\ s.cid \in Nat /\ s.n \in Nat /\ n \in Nat /\ n > s.n /\ DOMAIN own = 1 .. m /\ m \in Nat
      /\ s.cid # 0 => s.cid \in 1 .. m /\ own[s.cid] = c
    BY <1>1, ChannelHeld DEF ProgramType
<1>3. PICK cid : /\ cid \in {ToAll, s.cid} \ {0}
                 /\ programs' = [programs EXCEPT ![c] =
                       [NewProgram EXCEPT !.st = "opening", !.n = n, !.cid = IF cid = ToAll THEN 0 ELSE cid]]
                 /\ FromHost(ReportOf(c, n, cid, "init"))
    BY DEF AskChannel
<1> DEFINE g == IF cid = ToAll THEN 0 ELSE cid
           t == [NewProgram EXCEPT !.st = "opening", !.n = n, !.cid = g]
           r == ReportOf(c, n, cid, "init")
<1>4. cid \in Int /\ g \in Nat /\ (cid # ToAll => cid = s.cid /\ cid # 0 /\ g = s.cid) /\ (cid = ToAll => g = 0)
  <2> HIDE DEF s, n
  <2>1. cid \in {ToAll, s.cid} /\ cid # 0
      BY <1>3
  <2>2. QED
      BY <1>2, <2>1 DEF ToAll
<1>5. programs' = [programs EXCEPT ![c] = t] /\ FromHost(r)
    BY <1>3
<1> HIDE DEF g, n
<1>6. t \in ProgramType /\ t.st = "opening" /\ t.n = n /\ t.cid = g
    BY <1>2, <1>4, Asking
<1>7. r \in ProbeReport /\ r.cid = cid /\ r.cmd = "init" /\ r.of = [by |-> c, n |-> n]
    BY <1>2, <1>4, ReportOfType
<1> HIDE DEF r, s, t
<1>8. r.of.by = c /\ r.of.n = n /\ ~Part(r)
    BY <1>7 DEF Part
<1>9. Moves(s, t)
    BY <1>2, <1>4, <1>6 DEF Moves
<1>10. ProgramSound(t, c, own)
    BY <1>2, <1>4, <1>6 DEF ProgramSound
<1>11. ReportSound(r, t, own)
  <2>1. IF r.cid = ToAll THEN r.cmd = "init" ELSE r.cid \in DOMAIN own /\ own[r.cid] = r.of.by
      BY <1>2, <1>4, <1>7, <1>8
  <2>2. QED
      BY <1>6, <1>7, <1>8, <2>1, OtherSound
<1>12. \A l \in [Programs -> ProgramType] : l[c] = t => MayJoin(probe, queue, l, r)
    BY <1>8, OtherMayJoin
<1>13. Moves(programs[c], t)
    BY <1>9 DEF s
<1>14. QED
    BY <1>1, <1>5, <1>6, <1>7, <1>8, <1>10, <1>11, <1>12, <1>13, ProgramStep

\* A program is now in state t, with piece sent of a message.
Becomes(k, l, c, t, n, size, w, st) ==
    /\ t \in ProgramType /\ l = [k EXCEPT ![c] = t]
    /\ t.n = n /\ t.size = size /\ t.sent = w /\ t.st = st /\ t.cid = k[c].cid

\* The programs once one has sent the first piece of a message.
Begin(k, c, n, size, st) ==
    [k EXCEPT ![c].n = n, ![c].size = size, ![c].sent = 1, ![c].failed = FALSE, ![c].st = st]

\* A program that begins a message.
LEMMA Beginning ==
    ASSUME NEW k \in [Programs -> ProgramType], NEW c \in Programs, NEW n \in Nat, NEW size \in Nat,
           NEW st \in {"sending", "waiting"}, NEW l,
           l = Begin(k, c, n, size, st)
    PROVE  \E t : Becomes(k, l, c, t, n, size, 1, st)
<1> DEFINE s == k[c]
<1>1. l = [k EXCEPT ![c] = [k[c] EXCEPT !.n = n, !.size = size, !.sent = 1, !.failed = FALSE, !.st = st]]
    BY DEF Begin
<1>2. s \in ProgramType
    OBVIOUS
<1> HIDE DEF s
<1>3. LET t == [s EXCEPT !.n = n, !.size = size, !.sent = 1, !.failed = FALSE, !.st = st]
      IN t \in ProgramType /\ t.n = n /\ t.size = size /\ t.sent = 1 /\ t.st = st /\ t.cid = s.cid
    BY <1>2 DEF ProgramType
<1> DEFINE t == [s EXCEPT !.n = n, !.size = size, !.sent = 1, !.failed = FALSE, !.st = st]
<1>4. l = [k EXCEPT ![c] = t]
    BY <1>1 DEF s
<1>5. t \in ProgramType /\ t.n = n /\ t.size = size /\ t.sent = 1 /\ t.st = st /\ t.cid = k[c].cid
    BY <1>3 DEF s
<1> HIDE DEF t
<1>6. QED
    BY <1>4, <1>5 DEF Becomes

\* A program sends the first report of a request.
LEMMA RequestStep == ASSUME ProbeInv, NEW c \in Programs, SendRequest(c) PROVE ProbeInv'
<1>1. PICK m, own : ProbeLinked(probe, queue, programs, m, own)
    BY InvLinked
<1> DEFINE s == programs[c]
           n == s.n + 1
<1>2. /\ s \in ProgramType /\ s.cid \in Nat /\ s.n \in Nat /\ n \in Nat /\ n > s.n /\ DOMAIN own = 1 .. m /\ m \in Nat
      /\ s.cid # 0 => s.cid \in 1 .. m /\ own[s.cid] = c
      /\ programs \in [Programs -> ProgramType] /\ ProgramSound(s, c, own)
    BY <1>1, ChannelHeld, SMTT(60) DEF ProgramType, ProbeLinked
<1>3. PICK cmd, size :
         /\ cmd \in {"ping", "cbor"} /\ size \in 1 .. Pieces
         /\ programs' = [programs EXCEPT ![c].n = n, ![c].size = size, ![c].sent = 1, ![c].failed = FALSE,
                                         ![c].st = IF size = 1 THEN "waiting" ELSE "sending"]
         /\ FromHost([ReportOf(c, n, programs[c].cid, cmd) EXCEPT !.size = size])
    BY DEF SendRequest
<1> DEFINE st == IF size = 1 THEN "waiting" ELSE "sending"
           b == ReportOf(c, n, programs[c].cid, cmd)
           r == [b EXCEPT !.size = size]
<1>4. size \in Nat /\ size >= 1 /\ st \in {"sending", "waiting"} /\ (st = "sending" => size > 1)
    BY <1>3, ProbeBounds
<1>5. programs' = Begin(programs, c, n, size, st)
    BY <1>3 DEF Begin
<1>6. s.st = "ready" /\ FromHost(r)
    BY <1>3 DEF SendRequest
<1>7. s.cid \in 1 .. m /\ own[s.cid] = c /\ s.cid # 0 /\ s.cid # ToAll
    BY <1>2, <1>6 DEF ProgramSound, ToAll
<1> HIDE DEF st, n
<1> DEFINE l == programs'
<1>a. PICK t : Becomes(programs, l, c, t, n, size, 1, st)
  <2>0. l = Begin(programs, c, n, size, st)
      BY <1>5
  <2> HIDE DEF l
  <2>1. programs \in [Programs -> ProgramType] /\ n \in Nat /\ size \in Nat /\ st \in {"sending", "waiting"}
      BY <1>2, <1>4
  <2>2. QED
      BY <2>0, <2>1, Beginning
<1>8. /\ t \in ProgramType /\ programs' = [programs EXCEPT ![c] = t]
      /\ t.n = n /\ t.size = size /\ t.sent = 1 /\ t.st = st /\ t.cid = s.cid
    BY <1>a DEF Becomes
<1>9. b \in ProbeReport /\ b.cid = s.cid /\ b.cmd = cmd /\ b.of = [by |-> c, n |-> n] /\ b.at = 1
  <2>1. b.at = 1
      BY DEF ReportOf
  <2>2. cmd \in {"init", "ping", "cbor", "cont", "cancel", "bad"} /\ s.cid \in Int
      BY <1>2, <1>3
  <2>3. QED
      BY <1>2, <2>1, <2>2, ReportOfType
<1> HIDE DEF b, s
<1>10. r \in ProbeReport /\ r.cid = s.cid /\ r.cmd = cmd /\ r.of = [by |-> c, n |-> n] /\ r.at = 1 /\ r.size = size
    BY <1>4, <1>9 DEF ProbeReport
<1> HIDE DEF r
<1>11. r.of.by = c /\ r.of.n = n /\ Part(r) /\ r.cmd # "cont" /\ r.cmd # "init"
    BY <1>3, <1>10 DEF Part
<1>12. Moves(s, t)
    BY <1>2, <1>6, <1>8 DEF Moves
<1>13. ProgramSound(t, c, own)
    BY <1>2, <1>4, <1>7, <1>8 DEF ProgramSound
<1>14. ReportSound(r, t, own)
  <2>1. Busy(t, r.of)
      BY <1>4, <1>8, <1>11 DEF Busy
  <2>2. QED
      BY <1>2, <1>4, <1>7, <1>8, <1>10, <1>11, <2>1 DEF ReportSound
<1>15. \A k \in [Programs -> ProgramType] : k[c] = t => MayJoin(probe, queue, k, r)
  <2>1. ASSUME NEW k \in [Programs -> ProgramType], k[c] = t
        PROVE  MayJoin(probe, queue, k, r)
    <3>1. /\ probe \in ProbeType /\ queue \in Seq(ProbeReport) /\ programs \in [Programs -> ProgramType] /\ m \in Nat
          /\ own \in [1 .. m -> Programs] /\ Given(probe, queue, programs, own)
        BY <1>1 DEF ProbeLinked
    <3>2. /\ programs[c].cid \in 1 .. m /\ own[programs[c].cid] = c /\ programs[c].st = "ready"
          /\ r.cid = programs[c].cid /\ r.of = [by |-> c, n |-> programs[c].n + 1] /\ k[c].n = programs[c].n + 1
        BY <1>6, <1>7, <1>8, <1>10, <2>1 DEF s, n
    <3>3. QED
        BY <1>10, <3>1, <3>2, FirstMayJoin
  <2>2. QED
      BY <2>1
<1>16. Moves(programs[c], t)
    BY <1>12 DEF s
<1>17. QED
    BY <1>1, <1>6, <1>8, <1>10, <1>11, <1>13, <1>14, <1>15, <1>16, ProgramStep

\* A program goes on with its message.
LEMMA Continuing ==
    ASSUME NEW k \in [Programs -> ProgramType], NEW c \in Programs,
           NEW st \in {"sending", "waiting", "opening"}, NEW l,
           l = [k EXCEPT ![c].sent = k[c].sent + 1, ![c].st = st]
    PROVE  \E t : Becomes(k, l, c, t, k[c].n, k[c].size, k[c].sent + 1, st)
<1> DEFINE s == k[c]
           w == s.sent + 1
<1>1. s \in ProgramType
    OBVIOUS
<1>2. w \in Nat
    BY <1>1 DEF ProgramType
<1> HIDE DEF w
<1>3. [k EXCEPT ![c].sent = w, ![c].st = st] = [k EXCEPT ![c] = [k[c] EXCEPT !.sent = w, !.st = st]]
    OBVIOUS
<1> HIDE DEF s
<1>4. LET t == [s EXCEPT !.sent = w, !.st = st]
      IN t \in ProgramType /\ t.n = s.n /\ t.size = s.size /\ t.sent = w /\ t.st = st /\ t.cid = s.cid
    BY <1>1, <1>2 DEF ProgramType
<1> DEFINE t == [s EXCEPT !.sent = w, !.st = st]
<1>5. l = [k EXCEPT ![c] = t]
    BY <1>3 DEF s, w
<1>6. t \in ProgramType /\ t.n = k[c].n /\ t.size = k[c].size /\ t.sent = k[c].sent + 1 /\ t.st = st /\ t.cid = k[c].cid
    BY <1>4 DEF s, w
<1> HIDE DEF t
<1>7. QED
    BY <1>5, <1>6 DEF Becomes

\* A program sends the next report of a request.
LEMMA RestStep == ASSUME ProbeInv, NEW c \in Programs, SendRest(c) PROVE ProbeInv'
<1>1. PICK m, own : ProbeLinked(probe, queue, programs, m, own)
    BY InvLinked
<1> DEFINE s == programs[c]
           st == IF s.sent + 1 < s.size THEN "sending" ELSE IF s.failed THEN "opening" ELSE "waiting"
           b == ReportOf(c, s.n, s.cid, "cont")
           r == [b EXCEPT !.at = s.sent + 1, !.seq = s.sent - 1]
<1>2. /\ s \in ProgramType /\ s.cid \in Nat /\ s.n \in Nat /\ s.sent \in Nat /\ s.size \in Nat
      /\ DOMAIN own = 1 .. m /\ m \in Nat /\ (s.cid # 0 => s.cid \in 1 .. m /\ own[s.cid] = c)
      /\ programs \in [Programs -> ProgramType] /\ ProgramSound(s, c, own)
  <2>1. /\ s \in ProgramType /\ DOMAIN own = 1 .. m /\ m \in Nat /\ ProgramSound(s, c, own)
        /\ s.cid # 0 => s.cid \in 1 .. m /\ own[s.cid] = c
      BY <1>1, ChannelHeld
  <2>2. programs \in [Programs -> ProgramType]
      BY <1>1 DEF ProbeLinked
  <2> HIDE DEF s
  <2>3. s.cid \in Nat /\ s.n \in Nat /\ s.sent \in Nat /\ s.size \in Nat
      BY <2>1 DEF ProgramType
  <2>4. QED
      BY <2>1, <2>2, <2>3
<1>3. s.st = "sending" /\ FromHost(r)
    BY DEF SendRest
<1>4. programs' = [programs EXCEPT ![c].sent = programs[c].sent + 1, ![c].st = st]
  <2>1. programs' = [programs EXCEPT ![c].sent = @ + 1,
                       ![c].st = IF s.sent + 1 < s.size THEN @
                                 ELSE IF s.failed THEN "opening" ELSE "waiting"]
      BY DEF SendRest
  <2>2. QED
      BY <1>2, <1>3, <2>1
<1>5. s.cid \in 1 .. m /\ own[s.cid] = c /\ s.cid # 0 /\ s.cid # ToAll /\ s.sent >= 1 /\ s.sent < s.size
    BY <1>2, <1>3 DEF ProgramSound, ToAll
<1>6. st \in {"sending", "waiting", "opening"} /\ (st = "sending" => s.sent + 1 < s.size)
    OBVIOUS
<1> HIDE DEF st
<1> DEFINE l == programs'
<1>a. PICK t : Becomes(programs, l, c, t, programs[c].n, programs[c].size, programs[c].sent + 1, st)
  <2>0. l = [programs EXCEPT ![c].sent = programs[c].sent + 1, ![c].st = st]
      BY <1>4
  <2> HIDE DEF l
  <2>1. programs \in [Programs -> ProgramType] /\ st \in {"sending", "waiting", "opening"}
      BY <1>2, <1>6
  <2>2. QED
      BY <2>0, <2>1, Continuing, Zenon
<1>7. /\ t \in ProgramType /\ programs' = [programs EXCEPT ![c] = t]
      /\ t.n = s.n /\ t.size = s.size /\ t.sent = s.sent + 1 /\ t.st = st /\ t.cid = s.cid
    BY <1>a DEF Becomes
<1>8. b \in ProbeReport /\ b.cid = s.cid /\ b.cmd = "cont" /\ b.of = [by |-> c, n |-> s.n]
    BY <1>2, ReportOfType
<1> HIDE DEF b
<1>9. /\ r \in ProbeReport /\ r.cid = s.cid /\ r.cmd = "cont" /\ r.of = [by |-> c, n |-> s.n]
      /\ r.at = s.sent + 1 /\ r.seq = s.sent - 1
  <2> DEFINE x == s.sent + 1
             y == s.sent - 1
  <2>1. x \in Nat /\ y \in Int
      BY <1>2
  <2> HIDE DEF x, y, s
  <2>2. LET z == [b EXCEPT !.at = x, !.seq = y]
        IN z \in ProbeReport /\ z.cid = b.cid /\ z.cmd = b.cmd /\ z.of = b.of /\ z.at = x /\ z.seq = y
      BY <1>8, <2>1 DEF ProbeReport
  <2>3. QED
      BY <1>8, <2>2 DEF x, y
<1> HIDE DEF r, s
<1>10. r.of.by = c /\ r.of.n = s.n /\ Part(r)
    BY <1>9 DEF Part
<1>11. Moves(s, t)
    BY <1>2, <1>3, <1>6, <1>7 DEF Moves
<1>12. ProgramSound(t, c, own)
    BY <1>2, <1>5, <1>6, <1>7 DEF ProgramSound
<1>13. ReportSound(r, t, own)
  <2>1. Busy(t, r.of)
      BY <1>6, <1>7, <1>10 DEF Busy
  <2>2. r.of.n <= t.n /\ r.at >= 1 /\ r.at >= 2 /\ r.seq = r.at - 2 /\ r.at <= t.sent
      BY <1>2, <1>5, <1>7, <1>9, <1>10
  <2>3. QED
      BY <1>2, <1>5, <1>7, <1>9, <1>10, <2>1, <2>2 DEF ReportSound
<1>14. \A k \in [Programs -> ProgramType] : k[c] = t => MayJoin(probe, queue, k, r)
  <2>1. ASSUME NEW k \in [Programs -> ProgramType], k[c] = t
        PROVE  MayJoin(probe, queue, k, r)
    <3>1. /\ probe \in ProbeType /\ queue \in Seq(ProbeReport) /\ programs \in [Programs -> ProgramType] /\ m \in Nat
          /\ own \in [1 .. m -> Programs] /\ Given(probe, queue, programs, own)
        BY <1>1 DEF ProbeLinked
    <3>2. /\ programs[c].cid \in 1 .. m /\ own[programs[c].cid] = c /\ programs[c].st = "sending"
          /\ programs[c].sent < programs[c].size
          /\ r.cid = programs[c].cid /\ r.of = [by |-> c, n |-> programs[c].n] /\ k[c].n = programs[c].n
          /\ r.at = programs[c].sent + 1
        BY <1>3, <1>5, <1>7, <1>9, <2>1 DEF s
    <3>3. QED
        BY <1>9, <3>1, <3>2, RestMayJoin
  <2>2. QED
      BY <2>1
<1>15. Moves(programs[c], t)
    BY <1>11 DEF s
<1>16. QED
    BY <1>1, <1>3, <1>7, <1>9, <1>10, <1>12, <1>13, <1>14, <1>15, ProgramStep

\* A program cancels its request, or sends a command the probe does not know.
LEMMA OtherStep == ASSUME ProbeInv, NEW c \in Programs, Cancels(c) \/ SendUnknown(c) PROVE ProbeInv'
<1>1. PICK m, own : ProbeLinked(probe, queue, programs, m, own)
    BY InvLinked
<1> DEFINE s == programs[c]
<1>2. /\ s \in ProgramType /\ ProgramSound(s, c, own) /\ DOMAIN own = 1 .. m /\ m \in Nat
      /\ s.cid # 0 => s.cid \in 1 .. m /\ own[s.cid] = c
    BY <1>1, ChannelHeld
<1>3. programs \in [Programs -> ProgramType]
    BY <1>1 DEF ProbeLinked
<1>4. PICK cmd \in {"cancel", "bad"} :
         /\ FromHost(ReportOf(c, s.n, s.cid, cmd))
         /\ \/ cmd = "cancel" /\ s.st = "waiting" /\ programs' = programs
            \/ cmd = "bad" /\ s.st = "ready" /\ programs' = [programs EXCEPT ![c].st = "opening"]
    BY DEF Cancels, SendUnknown
<1> DEFINE r == ReportOf(c, s.n, s.cid, cmd)
           t == IF cmd = "bad" THEN [s EXCEPT !.st = "opening"] ELSE s
<1>5. programs' = [programs EXCEPT ![c] = t]
    BY <1>3, <1>4
<1>6. FromHost(r)
    BY <1>4
<1>7. s.st \in {"waiting", "ready"} /\ (cmd = "cancel" => s.st = "waiting") /\ (cmd = "bad" => s.st = "ready")
    BY <1>4
<1> HIDE DEF s
<1>8. s.n \in Nat /\ s.cid \in Nat /\ s.sent \in Nat
    BY <1>2 DEF ProgramType
<1>9. r \in ProbeReport /\ r.cid = s.cid /\ r.cmd = cmd /\ r.of = [by |-> c, n |-> s.n]
    BY <1>8, ReportOfType
<1>10. /\ t \in ProgramType /\ t.n = s.n /\ t.cid = s.cid /\ t.size = s.size /\ t.sent = s.sent
       /\ t.st = IF cmd = "bad" THEN "opening" ELSE s.st
    BY <1>2 DEF ProgramType
<1> HIDE DEF r, t
<1>11. r.of.by = c /\ r.of.n = t.n /\ ~Part(r) /\ r.cmd # "init"
    BY <1>9, <1>10 DEF Part
<1>12. s.cid \in 1 .. m /\ own[s.cid] = c /\ s.cid # ToAll
    BY <1>2, <1>7, <1>8 DEF ProgramSound, ToAll
<1>13. Moves(s, t)
    BY <1>7, <1>8, <1>10 DEF Moves
<1>14. ProgramSound(t, c, own)
    BY <1>7, <1>10, <1>2, <1>12 DEF ProgramSound
<1>15. ReportSound(r, t, own)
  <2>1. IF r.cid = ToAll THEN r.cmd = "init" ELSE r.cid \in DOMAIN own /\ own[r.cid] = r.of.by
      BY <1>2, <1>9, <1>11, <1>12
  <2>2. QED
      BY <1>9, <1>10, <1>11, <2>1, OtherSound
<1>16. \A l \in [Programs -> ProgramType] : l[c] = t => MayJoin(probe, queue, l, r)
    BY <1>11, OtherMayJoin
<1>17. Moves(programs[c], t)
    BY <1>13 DEF s
<1>18. QED
    BY <1>1, <1>5, <1>6, <1>9, <1>10, <1>11, <1>14, <1>15, <1>16, <1>17, ProgramStep

-----------------------------------------------------------------------------
(* The theorems *)

\* At the start no channel is given.
LEMMA ProbeInitInv == PInit => ProbeInv
<1> SUFFICES ASSUME PInit PROVE ProbeInv
    OBVIOUS
<1>1. probe = ProbeReset /\ queue = <<>> /\ overflow = FALSE /\ mistaken = FALSE
      /\ programs = [c \in Programs |-> NewProgram]
    BY DEF PInit
<1>2. programs \in [Programs -> ProgramType] /\ \A c \in Programs : programs[c].st = "new" /\ programs[c].cid = 0
  <2>1. NewProgram \in ProgramType /\ NewProgram.st = "new" /\ NewProgram.cid = 0
      BY DEF NewProgram, ProgramType
  <2>2. QED
      BY <1>1, <2>1
<1>3. /\ probe \in ProbeType /\ probe.channels = {} /\ ~probe.receiving /\ ~probe.processing /\ probe.reply.left = 0
  <2>1. <<>> \in Seq(PieceType) /\ {} \in SUBSET Nat /\ Nobody \in ProbeAuthor
      BY DEF Nobody, ProbeAuthor
  <2>2. NoReply \in ReplyType /\ NoReply.left = 0
      BY <2>1 DEF NoReply, ReplyType
  <2>3. QED
      BY <1>1, <2>1, <2>2 DEF ProbeReset, ProbeType
<1>4. queue \in Seq(ProbeReport) /\ Len(queue) = 0
    BY <1>1
<1> DEFINE own == [g \in 1 .. 0 |-> g]
<1>5. own \in [1 .. 0 -> Programs] /\ probe.channels = 1 .. 0
    BY <1>3
<1> HIDE DEF own
<1>6. Given(probe, queue, programs, own)
  <2>1. \A c \in Programs : ProgramSound(programs[c], c, own)
      BY <1>2 DEF ProgramSound
  <2>2. QueueSound(queue, programs, own)
      BY <1>4 DEF QueueSound
  <2>3. ReceptionSound(probe, queue, programs, own) /\ AnswerSound(probe, queue, programs, own)
      BY <1>3 DEF ReceptionSound, AnswerSound, Replying
  <2>4. QED
      BY <2>1, <2>2, <2>3 DEF Given
<1>7. QED
    BY <1>1, <1>2, <1>3, <1>4, <1>5, <1>6 DEF ProbeInv, ProbeSound

\* Every step of the transport and of the programs keeps the invariant.
LEMMA ProbeStep == ProbeInv /\ [PNext]_pvars => ProbeInv'
<1> SUFFICES ASSUME ProbeInv, [PNext]_pvars PROVE ProbeInv'
    OBVIOUS
<1>1. CASE DrainReport \/ TimeOut
    BY <1>1, DrainStep
<1>2. CASE EngineAnswers
    BY <1>2, EngineStep
<1>3. CASE SendToHost
    BY <1>3, SendStep
<1>4. CASE Reattach
    BY <1>4, ReattachStep
<1>5. ASSUME NEW c \in Programs, AskChannel(c)
      PROVE  ProbeInv'
    BY <1>5, AskStep
<1>6. ASSUME NEW c \in Programs, SendRequest(c)
      PROVE  ProbeInv'
    BY <1>6, RequestStep
<1>7. ASSUME NEW c \in Programs, SendRest(c)
      PROVE  ProbeInv'
    BY <1>7, RestStep
<1>8. ASSUME NEW c \in Programs, Cancels(c) \/ SendUnknown(c)
      PROVE  ProbeInv'
    BY <1>8, OtherStep
<1>9. CASE UNCHANGED pvars
    BY <1>9 DEF pvars, ProbeInv
<1>10. QED
    BY <1>1, <1>2, <1>3, <1>4, <1>5, <1>6, <1>7, <1>8, <1>9 DEF PNext

\* The invariant gives the property of the run.
LEMMA ProbeInvServes == ProbeInv => ServesOwnRequests
<1> SUFFICES ASSUME ProbeInv, probe.processing
             PROVE  /\ Len(probe.rx) = probe.size
                    /\ \A i \in 1 .. probe.size : probe.rx[i].at = i /\ probe.rx[i].of = Sender(probe)
    BY DEF ProbeInv, ServesOwnRequests
<1>1. PICK m, own : ProbeLinked(probe, queue, programs, m, own)
    BY InvLinked
<1>2. ReceptionSound(probe, queue, programs, own)
    BY <1>1 DEF ProbeLinked, Given
<1>3. QED
    BY <1>2 DEF ReceptionSound, MessageSound

\* Every channel belongs to one program, the reports that wait and the message
\* in reception are pieces of its messages in order, and the answer in progress
\* is to the message its program waits for or gave up (fv_fido_probe_receive,
\* tud_hid_set_report_cb).
THEOREM ProbeInvariant == PSpec => []ProbeInv
<1>1. QED
    BY ProbeInitInv, ProbeStep, PTL DEF PSpec

\* The engine is given whole messages of one program, and no program takes the
\* answer to another message for its own, with any number of programs, channels
\* and pieces (fv_fido_probe_receive, complete, fv_fido_probe_peek).
THEOREM ProbeServesOwnRequests == PSpec => []ServesOwnRequests
<1>1. QED
    BY ProbeInvariant, ProbeInvServes, PTL

-----------------------------------------------------------------------------
(* The storage of credentials (FidoStore) *)

\* The steps of the journal and of the older image store.
JournalSteps == {"records", "ready", "replay", "clean", "reset", "blank", "copy", "mark", "move", "first"}
ImageSteps == {"clear", "void", "image", "manifest"}

\* What may be in a sector.
Fits(a) ==
    {None} \cup
    CASE a[1] = "data" -> Plain
      [] a[1] = "slot" -> SlotRecord
      [] a[1] = "control" -> {r \in ControlRecord : r.seq % 2 = a[2] /\ Cardinality(r.records) \in 0 .. RecordSlots}
      [] a[1] = "manifest" -> ManifestRecord
      [] OTHER -> Image

\* What a cut may leave fits, and what is written now is part of it.
RegionOk ==
    /\ MayRemain(card.now)
    /\ \A a \in Address : card.may[a] \subseteq Fits(a)

\* The open store, and the arguments of a call.
StoreRecord ==
    [st : {"closed", "ready", "image"}, seq : Nat, bank : 0 .. 1, targets : Seq(Home),
     cache : [0 .. CacheSlots - 1 -> [lba : Int, value : Plain \cup {None}]]]
JobRecord == [policy : {Blank, Policy}, image : Image, bank : 0 .. 1, gen : Nat]

StoreType ==
    /\ era \in {"images", "journal"}
    /\ store \in StoreRecord
    /\ job \in JobRecord
    /\ pc \in {"idle"} \cup JournalSteps \cup ImageSteps
    /\ phase \in {"write", "sync"}
    /\ view \in Image

\* The newest control sector has sequence number n.
Top(c, n) ==
    /\ c[Control(n % 2)] # None /\ c[Control(n % 2)].seq = n
    /\ c[Control((n + 1) % 2)] # None => c[Control((n + 1) % 2)].seq < n
TopSector(n) == card.now[Control(n % 2)]

\* A restart that finds c serves an image the caller may find.
Safe(c) == Recovered(c) \in allowed /\ (Found(c) # {} => Recovered(c) \in Image)

\* The cache holds nothing but sectors of the image.
Agrees(image) ==
    \A x \in Data : Cached(x) => store.cache[x % CacheSlots].value = image[x]

\* What home sector a holds for an image.
Wanted(image, a) == IF a = Tag THEN image ELSE image[a[2]]

\* Every sector the transaction wrote has its record, and every other one its
\* content in its place.
Txn(n) ==
    LET t == store.targets
    IN /\ Len(t) <= RecordSlots
       /\ \A k, j \in 1 .. Len(t) : t[k] = t[j] => k = j
       /\ \A k \in 1 .. Len(t) :
             card.now[Slot(k)] = [seq |-> n + 1, target |-> t[k], value |-> Wanted(view, t[k])]
       /\ \A a \in Home : (\A k \in 1 .. Len(t) : t[k] # a) => card.now[a] = Wanted(view, a)

\* A cut leaves the sectors A as they are.
Settled(A) == \A a \in A : card.may[a] = {card.now[a]}
Reused == Records \cup {Source}

\* Outside of a sync only the record slots may be unsettled.
SettledInv ==
    phase = "write" =>
       /\ Settled(Address \ Reused)
       /\ pc \notin {"idle", "reset"} => Settled(Address)
       /\ Settled(Address) \/ (Found(card.now) # {} /\ Newest(card.now).state = "CLEAN")

\* A region without control sectors: that of the older firmware, or a blank one.
Unmarked(c) == \A i \in 0 .. 1 : c[Control(i)] = None

\* The older firmware has banks only, the newer one runs steps of the journal.
EraInv ==
    /\ era = "images" => /\ \A i \in 0 .. 1 : card.may[Control(i)] = {None}
                         /\ store.st \in {"closed", "image"} /\ pc \in {"idle"} \cup ImageSteps
    /\ era = "journal" => store.st \in {"closed", "ready"} /\ pc \in {"idle"} \cup JournalSteps
    /\ pc \in JournalSteps => store.st = "ready"
    /\ pc = "idle" => phase = "write" /\ job = NoJob
    /\ pc = "records" => phase = "sync"

\* The steps that bring the home sectors to what a restart would find.
Finishing == {"replay", "blank", "move", "first", "clean"}
FinishingFacts(p, n) ==
    /\ Top(card.now, n) /\ Agrees(Recovered(card.now))
    /\ p = "replay" => TopSector(n).state = "READY"
    /\ p = "blank" => TopSector(n).state = "RESET" /\ TopSector(n).policy = job.policy
    /\ p \in {"move", "first"} => TopSector(n).state = "MIGRATE"
    /\ p = "move" => TopSector(n).image = job.image
    /\ p \in {"first", "clean"} => Content(card.now) = Recovered(card.now)

\* The transaction is staged as a whole before it is marked.
CommitFacts(n) ==
    /\ Top(card.now, n) /\ TopSector(n).state = "CLEAN" /\ Txn(n) /\ Agrees(view) /\ view \in allowed
    /\ Cardinality(Entries(card.now, n + 1, Len(store.targets))) = Len(store.targets)

\* A reset may begin on a region in any state.
ResetFacts(n) ==
    /\ Top(card.now, n) \/ (Unmarked(card.now) /\ n = 0)
    /\ Erased(job.policy) \in allowed /\ store.cache = Empty

\* A migration is marked once the older image was copied.
CopyFacts(p, n) ==
    /\ Unmarked(card.now) /\ n = 0 /\ Snapshot(card.now) = job.image /\ store.cache = Empty
    /\ p = "mark" => card.now[Source] = job.image

\* While an image commit writes its bank, the other bank stays the latest.
ImageFacts(p) ==
    LET b == 1 - job.bank
        m == card.now[Manifest(b)]
    IN /\ job.image \in allowed
       /\ p = "clear" => {None} \cup {card.now[Manifest(i)].image : i \in Manifests(card.now)} \subseteq allowed
       /\ p # "clear" => m = None \/ (m.gen < job.gen /\ card.now[Bank(b)] = m.image)
       /\ p = "void" => IF m = None THEN card.now[Manifest(job.bank)] = None
                        ELSE card.now[Manifest(job.bank)] = None \/ card.now[Manifest(job.bank)].gen < m.gen
       /\ p \in {"image", "manifest"} => card.now[Manifest(job.bank)] = None
       /\ p = "manifest" => card.now[Bank(job.bank)] = job.image

\* What step p needs when the newest control sector has sequence number n.
Facts(p, n) ==
    /\ p = "ready" => CommitFacts(n)
    /\ p = "reset" => ResetFacts(n)
    /\ p \in {"copy", "mark"} => CopyFacts(p, n)
    /\ p \in Finishing => FinishingFacts(p, n)
    /\ p \in ImageSteps => ImageFacts(p)
    /\ p = "idle" => IF era = "journal"
                     THEN Top(card.now, n) /\ TopSector(n).state = "CLEAN" /\ Agrees(Content(card.now))
                     ELSE Snapshot(card.now) = job.image

\* Whatever a power cut leaves is an image the caller may find.
SafeInv == \A c : MayRemain(c) => Safe(c)

\* In a transaction the records and the cache agree with what was written.
OpenInv ==
    pc = "idle" /\ store.st = "ready" =>
        Top(card.now, store.seq) /\ TopSector(store.seq).state = "CLEAN" /\ Txn(store.seq) /\ Agrees(view)

\* Each step finds what it needs, and leaves what the next one needs.
StepInv ==
    /\ pc # "idle" /\ phase = "write" => Facts(pc, store.seq)
    /\ pc # "idle" /\ phase = "sync" => Facts(After(pc), IF pc \in Markers THEN store.seq + 1 ELSE store.seq)

StoreInv == StoreType /\ RegionOk /\ SettledInv /\ EraInv /\ SafeInv /\ OpenInv /\ StepInv

-----------------------------------------------------------------------------
(* Addresses *)

\* Every kind of sector lies in the region.
LEMMA AddressParts ==
    /\ \A x \in Data : D(x) \in Home
    /\ Tag \in Home
    /\ Home \subseteq Address /\ Banks \subseteq Address /\ Reused \subseteq Address
    /\ \A i \in 0 .. 1 : Control(i) \in Address /\ Manifest(i) \in Banks /\ Bank(i) \in Banks
    /\ \A k \in 1 .. RecordSlots : Slot(k) \in Reused
    /\ Source \in Reused
    /\ \A a \in Home : a = Tag \/ \E x \in Data : a = D(x)
    /\ \A a \in Banks : \E i \in 0 .. 1 : a = Manifest(i) \/ a = Bank(i)
    /\ \A a \in Reused : a = Source \/ \E k \in 1 .. RecordSlots : a = Slot(k)
    /\ \A a \in Address : a \in Home \/ a \in Banks \/ a \in Reused \/ \E i \in 0 .. 1 : a = Control(i)
PROOF
<1>1. Control(0) \in Address /\ Control(1) \in Address
  BY DEF Address
<1>2. \A i \in 0 .. 1 : i = 0 \/ i = 1
  OBVIOUS
<1>3. \A a \in Address : a \in Home \/ a \in Banks \/ a \in Reused \/ a = Control(0) \/ a = Control(1)
  BY DEF Address, Reused
<1>4. 0 \in 0 .. 1 /\ 1 \in 0 .. 1
  OBVIOUS
<1> QED
  BY <1>1, <1>2, <1>3, <1>4 DEF Home, Banks, Reused, Records, Address

\* The kinds of sectors are apart.
LEMMA AddressesApart ==
    /\ \A a \in Home : a \notin Banks /\ a \notin Reused /\ \A i \in 0 .. 1 : a # Control(i)
    /\ \A a \in Banks : a \notin Reused /\ \A i \in 0 .. 1 : a # Control(i)
    /\ \A i \in 0 .. 1 : Control(i) \notin Reused
    /\ \A i, j \in 0 .. 1 : /\ (Control(i) = Control(j) => i = j) /\ (Manifest(i) = Manifest(j) => i = j)
                           /\ (Bank(i) = Bank(j) => i = j) /\ Manifest(i) # Bank(j)
    /\ \A x \in Data : D(x) # Tag /\ D(x)[2] = x /\ \A y \in Data : D(x) = D(y) => x = y
    /\ \A k \in 1 .. RecordSlots : Slot(k) # Source /\ \A j \in 1 .. RecordSlots : Slot(k) = Slot(j) => k = j
PROOF
<1>1. \A a \in Home : a[1] = "data" \/ a[1] = "tag"
  BY DEF Home, D, Tag
<1>2. \A a \in Banks : a[1] = "manifest" \/ a[1] = "bank"
  BY DEF Banks, Manifest, Bank
<1>3. \A a \in Reused : a[1] = "slot" \/ a[1] = "source"
  BY DEF Reused, Records, Slot, Source
<1>4. \A i \in 0 .. 1 : Control(i)[1] = "control"
  BY DEF Control
<1>5. \A i, j \in 0 .. 1 : /\ (Control(i) = Control(j) => i = j) /\ (Manifest(i) = Manifest(j) => i = j)
                           /\ (Bank(i) = Bank(j) => i = j) /\ Manifest(i) # Bank(j)
  BY DEF Control, Manifest, Bank
<1>6. \A x \in Data : D(x) # Tag /\ D(x)[2] = x /\ \A y \in Data : D(x) = D(y) => x = y
  BY DEF D, Tag
<1>7. \A k \in 1 .. RecordSlots : Slot(k) # Source /\ \A j \in 1 .. RecordSlots : Slot(k) = Slot(j) => k = j
  BY DEF Slot, Source
<1> QED
  BY <1>1, <1>2, <1>3, <1>4, <1>5, <1>6, <1>7

Controls(i) == {r \in ControlRecord : r.seq % 2 = i /\ Cardinality(r.records) \in 0 .. RecordSlots}

\* What each kind of sector holds.
LEMMA FitsIs ==
    /\ \A x \in Data : Fits(D(x)) = {None} \cup Plain
    /\ Fits(Tag) = {None} \cup Image /\ Fits(Source) = {None} \cup Image
    /\ \A k \in 1 .. RecordSlots : Fits(Slot(k)) = {None} \cup SlotRecord
    /\ \A i \in 0 .. 1 : /\ Fits(Bank(i)) = {None} \cup Image /\ Fits(Manifest(i)) = {None} \cup ManifestRecord
                         /\ Fits(Control(i)) = {None} \cup Controls(i)
    /\ \A a : None \in Fits(a)
PROOF
<1>1. \A x \in Data : Fits(D(x)) = {None} \cup Plain
  BY DEF Fits, D
<1>2. Fits(Tag) = {None} \cup Image /\ Fits(Source) = {None} \cup Image
  BY DEF Fits, Tag, Source
<1>3. \A k \in 1 .. RecordSlots : Fits(Slot(k)) = {None} \cup SlotRecord
  BY DEF Fits, Slot
<1>4. \A i \in 0 .. 1 : Fits(Bank(i)) = {None} \cup Image /\ Fits(Manifest(i)) = {None} \cup ManifestRecord
  BY DEF Fits, Bank, Manifest
<1>5. \A i \in 0 .. 1 : Fits(Control(i)) = {None} \cup Controls(i)
  BY DEF Fits, Control, Controls
<1>6. \A a : None \in Fits(a)
  BY DEF Fits
<1> QED
  BY <1>1, <1>2, <1>3, <1>4, <1>5, <1>6

\* The images the store makes itself.
LEMMA ErasedIsImage ==
    /\ \A policy \in {Blank, Policy} : Erased(policy) \in Image
    /\ None \notin Image /\ None \notin Plain /\ 0 \in Data
    /\ \A image \in Image : image # None /\ \A x \in Data : image[x] \in Plain
    /\ NoJob \in JobRecord
PROOF
<1>1. \A policy \in {Blank, Policy} : Erased(policy) \in Image
  BY DEF Erased, Image, Plain
<1>2. None \notin Image /\ None \notin Plain
  BY RegionAuthentic
<1>3. 0 \in Data
  BY RegionGeometry DEF Data
<1>4. \A image \in Image : \A x \in Data : image[x] \in Plain
  BY DEF Image
<1>5. NoJob \in JobRecord
  BY <1>1 DEF NoJob, JobRecord
<1> QED
  BY <1>1, <1>2, <1>3, <1>4, <1>5

-----------------------------------------------------------------------------
(* Control sectors *)

\* The two control sectors alternate.
LEMMA Parity ==
    ASSUME NEW n \in Nat
    PROVE  /\ n % 2 \in 0 .. 1 /\ (n + 1) % 2 \in 0 .. 1 /\ n % 2 # (n + 1) % 2
           /\ (n + 1 + 1) % 2 = n % 2
           /\ \A i \in 0 .. 1 : i = n % 2 \/ i = (n + 1) % 2
OBVIOUS

\* Contents a card can have.
Fitting(c) == \A a \in Address : c[a] \in Fits(a)

\* What a control sector holds, in contents a card can have.
LEMMA ControlFits ==
    ASSUME NEW c, Fitting(c), NEW i \in 0 .. 1, c[Control(i)] # None
    PROVE  /\ c[Control(i)] \in ControlRecord /\ c[Control(i)].seq % 2 = i /\ c[Control(i)].seq \in Nat
           /\ Cardinality(c[Control(i)].records) \in 0 .. RecordSlots
<1>1. c[Control(i)] \in Controls(i)
  BY AddressParts, FitsIs DEF Fitting
<1> QED
  BY <1>1 DEF Controls, ControlRecord

\* The one with the higher number is the newest.
LEMMA TopIsNewest ==
    ASSUME NEW c, Fitting(c), NEW n \in Nat, Top(c, n)
    PROVE  Found(c) # {} /\ Newest(c) = c[Control(n % 2)] /\ ~Unmarked(c)
<1> DEFINE good(i) == i \in Found(c) /\ \A j \in Found(c) : c[Control(j)].seq <= c[Control(i)].seq
<1>1. n % 2 \in Found(c) /\ Found(c) \subseteq 0 .. 1
  BY Parity DEF Top, Found
<1>2. good(n % 2)
  <2> SUFFICES ASSUME NEW j \in Found(c) PROVE c[Control(j)].seq <= n
    BY <1>1 DEF Top
  <2>1. c[Control(j)].seq \in Nat /\ (j = n % 2 \/ j = (n + 1) % 2)
    BY <1>1, ControlFits, Parity DEF Found
  <2> QED
    BY <2>1 DEF Top, Found
<1>3. \A i : good(i) => i = n % 2
  <2> SUFFICES ASSUME NEW i, good(i) PROVE i = n % 2
    OBVIOUS
  <2>1. CASE i = (n + 1) % 2
    <3>1. c[Control(i)].seq < n /\ c[Control(n % 2)].seq = n
      BY <2>1 DEF Top, Found
    <3>2. c[Control(i)].seq \in Nat
      BY <1>1, ControlFits DEF Found
    <3> QED
      BY <3>1, <3>2, <1>1
  <2> QED
    BY <2>1, <1>1, Parity
<1>4. (CHOOSE i \in Found(c) : \A j \in Found(c) : c[Control(j)].seq <= c[Control(i)].seq) = n % 2
  BY <1>2, <1>3
<1> QED
  BY <1>1, <1>4 DEF Newest, Unmarked, Found

\* Found and Unmarked are opposites.
LEMMA UnmarkedIs ==
    ASSUME NEW c
    PROVE  Unmarked(c) <=> Found(c) = {}
BY DEF Unmarked, Found

\* Where a control sector is found, one is the newest.
LEMMA NewestIsTop ==
    ASSUME NEW c, Fitting(c), Found(c) # {}
    PROVE  Newest(c).seq \in Nat /\ Top(c, Newest(c).seq) /\ Newest(c) \in ControlRecord
<1> DEFINE q(i) == c[Control(i)].seq
<1>1. PICK i \in 0 .. 1 : c[Control(i)] # None /\ \A j \in 0 .. 1 : c[Control(j)] # None => q(j) <= q(i)
  <2>1. \A i \in 0 .. 1 : c[Control(i)] # None => q(i) \in Nat
    BY ControlFits
  <2>2. \A i \in 0 .. 1 : i = 0 \/ i = 1
    OBVIOUS
  <2>3. PICK i \in 0 .. 1 : c[Control(i)] # None
    BY DEF Found
  <2> QED
    BY <2>1, <2>2, <2>3
<1>2. q(i) \in Nat /\ q(i) % 2 = i
  BY <1>1, ControlFits
<1>3. Top(c, q(i))
  <2>1. (q(i) + 1) % 2 \in 0 .. 1 /\ (q(i) + 1) % 2 # i
    BY <1>2, Parity
  <2>2. ASSUME c[Control((q(i) + 1) % 2)] # None PROVE q((q(i) + 1) % 2) < q(i)
    <3> DEFINE j == (q(i) + 1) % 2
    <3>1. q(j) \in Nat /\ q(j) % 2 = j /\ q(j) <= q(i)
      BY <2>1, <2>2, <1>1, ControlFits
    <3> QED
      BY <3>1, <1>2, <2>1
  <2> QED
    BY <1>1, <1>2, <2>2 DEF Top
<1>4. Newest(c) = c[Control(i)]
  BY <1>3, <1>2, TopIsNewest
<1> QED
  BY <1>1, <1>2, <1>3, <1>4, ControlFits

-----------------------------------------------------------------------------
(* What a restart finds *)

\* The content of the home sectors, when they hold an image.
LEMMA ContentIs ==
    ASSUME NEW c, Fitting(c)
    PROVE  /\ Content(c) # None => /\ Content(c) \in Image /\ c[Tag] = Content(c)
                                   /\ \A x \in Data : c[D(x)] = Content(c)[x]
           /\ \A image \in Image : c[Tag] = image /\ (\A x \in Data : c[D(x)] = image[x]) => Content(c) = image
           /\ Content(c) \in Image \cup {None}
<1>1. c[Tag] \in Image \cup {None}
  BY AddressParts, FitsIs DEF Fitting
<1> QED
  BY <1>1, ErasedIsImage DEF Content

\* It depends on the home sectors only.
LEMMA ContentSame ==
    ASSUME NEW c, NEW e, \A a \in Home : c[a] = e[a]
    PROVE  Content(c) = Content(e)
BY AddressParts DEF Content

\* What a manifest holds, in contents a card can have.
LEMMA ManifestFits ==
    ASSUME NEW c, Fitting(c), NEW i \in 0 .. 1
    PROVE  /\ c[Manifest(i)] # None =>
                 c[Manifest(i)] \in ManifestRecord /\ c[Manifest(i)].gen \in Nat /\ c[Manifest(i)].image \in Image
           /\ c[Bank(i)] \in Image \cup {None}
<1>1. c[Manifest(i)] \in {None} \cup ManifestRecord /\ c[Bank(i)] \in {None} \cup Image
  BY AddressParts, FitsIs DEF Fitting
<1> QED
  BY <1>1 DEF ManifestRecord

\* One of the manifests is the latest.
LEMMA LatestIs ==
    ASSUME NEW c, Manifests(c) # {}, \A i \in Manifests(c) : c[Manifest(i)].gen \in Nat
    PROVE  /\ LatestBank(c) \in Manifests(c) /\ LatestBank(c) \in 0 .. 1
           /\ \A e \in Manifests(c) : c[Manifest(e)].gen <= c[Manifest(LatestBank(c))].gen
<1>1. \E b \in Manifests(c) : \A e \in Manifests(c) : c[Manifest(e)].gen <= c[Manifest(b)].gen
  <2>1. \A i \in Manifests(c) : i = 0 \/ i = 1
    BY DEF Manifests
  <2> QED
    BY <2>1
<1>2. Manifests(c) \subseteq 0 .. 1
  BY DEF Manifests
<1> QED
  BY <1>1, <1>2 DEF LatestBank

\* The older image depends on the banks only.
LEMMA SnapshotSame ==
    ASSUME NEW c, NEW e, Fitting(c), \A a \in Banks : c[a] = e[a]
    PROVE  Snapshot(c) = Snapshot(e)
<1>1. \A i \in 0 .. 1 : c[Manifest(i)] = e[Manifest(i)] /\ c[Bank(i)] = e[Bank(i)]
  BY AddressParts
<1>2. Manifests(c) = Manifests(e) /\ Manifests(c) \subseteq 0 .. 1
  BY <1>1 DEF Manifests
<1>3. LatestBank(c) = LatestBank(e)
  BY <1>1, <1>2 DEF LatestBank
<1>4. {c[Manifest(b)].gen : b \in Manifests(c)} = {e[Manifest(b)].gen : b \in Manifests(e)}
  BY <1>1, <1>2
<1>5. CASE Manifests(c) = {}
  BY <1>2, <1>5 DEF Snapshot
<1>6. CASE Manifests(c) # {} /\ Cardinality({c[Manifest(b)].gen : b \in Manifests(c)}) < Cardinality(Manifests(c))
  <2>1. Cardinality({e[Manifest(b)].gen : b \in Manifests(e)}) < Cardinality(Manifests(e))
    BY <1>2, <1>4, <1>6
  <2> QED
    BY <1>6, <2>1 DEF Snapshot
<1>7. CASE Manifests(c) # {} /\ ~(Cardinality({c[Manifest(b)].gen : b \in Manifests(c)}) < Cardinality(Manifests(c)))
  <2>1. ~(Cardinality({e[Manifest(b)].gen : b \in Manifests(e)}) < Cardinality(Manifests(e)))
    BY <1>2, <1>4, <1>7
  <2> DEFINE r(y) == IF y[Bank(LatestBank(y))] # y[Manifest(LatestBank(y))].image THEN None ELSE y[Bank(LatestBank(y))]
  <2>2. Snapshot(c) = r(c) /\ Snapshot(e) = r(e)
    BY <1>7, <1>2, <2>1 DEF Snapshot
  <2>3. ASSUME LatestBank(c) \in 0 .. 1 PROVE r(c) = r(e)
    BY <1>1, <1>3, <2>3
  <2>4. \A i \in Manifests(c) : c[Manifest(i)].gen \in Nat
    BY ManifestFits DEF Manifests
  <2> QED
    BY <2>2, <2>3, <2>4, <1>7, LatestIs
<1> QED
  BY <1>5, <1>6, <1>7

\* The records depend on their slots only.
LEMMA EntriesSame ==
    ASSUME NEW c, NEW e, NEW seq, NEW n \in 0 .. RecordSlots, \A a \in Reused : c[a] = e[a]
    PROVE  Entries(c, seq, n) = Entries(e, seq, n)
<1>1. \A k \in 1 .. n : k \in 1 .. RecordSlots /\ c[Slot(k)] = e[Slot(k)]
  BY AddressParts, RegionGeometry
<1> QED
  BY <1>1 DEF Entries

\* The home sectors after a replay depend on those it does not write.
LEMMA AppliedSame ==
    ASSUME NEW c, NEW e, NEW R, NEW a \in Address,
           c[a] = e[a] \/ \E r \in R : r.target = a
    PROVE  Applied(c, R)[a] = Applied(e, R)[a]
<1>1. CASE \E r \in R : r.target = a
  <2>1. {r \in R : r.target = a} # {}
    BY <1>1
  <2> QED
    BY <2>1 DEF Applied
<1>2. CASE c[a] = e[a]
  BY <1>2 DEF Applied
<1> QED
  BY <1>1, <1>2

\* Recovered, by the state of the newest control sector.
LEMMA RecoveredIs ==
    ASSUME NEW c, Fitting(c), NEW n \in Nat, Top(c, n), NEW r, r = c[Control(n % 2)]
    PROVE  /\ Found(c) # {} /\ Newest(c) = r /\ r \in ControlRecord /\ r.seq = n
           /\ r.state = "CLEAN" => Recovered(c) = Content(c)
           /\ r.state = "READY" =>
                 Recovered(c) = IF Replayable(c, r) THEN Content(Applied(c, r.records)) ELSE None
           /\ r.state = "RESET" => Recovered(c) = Erased(r.policy)
           /\ r.state = "MIGRATE" => Recovered(c) = IF c[Source] = r.image THEN r.image ELSE None
<1>1. Found(c) # {} /\ Newest(c) = r
  BY TopIsNewest
<1>2. r \in ControlRecord /\ r.seq = n
  BY Parity, ControlFits DEF Top
<1> QED
  BY <1>1, <1>2 DEF Recovered

\* Two contents that differ in the control sectors only, with the same newest
\* one, recover to the same image.
LEMMA RecoveredSame ==
    ASSUME NEW c, NEW e, Fitting(c), Fitting(e),
           \A a \in Address : (\A i \in 0 .. 1 : a # Control(i)) => c[a] = e[a],
           (Found(c) = {} /\ Found(e) = {}) \/ (Found(c) # {} /\ Found(e) # {} /\ Newest(c) = Newest(e))
    PROVE  Recovered(c) = Recovered(e)
<1>1. \A a \in Home \cup Banks \cup Reused : c[a] = e[a]
  BY AddressParts, AddressesApart
<1>2. Content(c) = Content(e)
  BY <1>1, ContentSame
<1>3. Snapshot(c) = Snapshot(e)
  BY <1>1, SnapshotSame
<1>4. CASE Found(c) = {}
  BY <1>4, <1>3 DEF Recovered
<1>5. CASE Found(c) # {}
  <2> DEFINE r == Newest(c)
  <2>1. Top(c, r.seq) /\ Top(e, r.seq) /\ r.seq \in Nat /\ r = c[Control(r.seq % 2)] /\ r = e[Control(r.seq % 2)]
    BY <1>5, NewestIsTop, TopIsNewest
  <2>2. r \in ControlRecord /\ Cardinality(r.records) \in 0 .. RecordSlots
    BY <2>1, Parity, ControlFits DEF Top
  <2>3. Replayable(c, r) <=> Replayable(e, r)
    BY <2>2, <1>1, EntriesSame DEF Replayable
  <2>4. Content(Applied(c, r.records)) = Content(Applied(e, r.records))
    BY <1>1, AppliedSame, AddressParts, ContentSame
  <2>5. c[Source] = e[Source]
    BY <1>1, AddressParts
  <2>6. r.state \in {"CLEAN", "READY", "RESET", "MIGRATE"}
    BY <2>2 DEF ControlRecord, States
  <2> HIDE DEF r
  <2> QED
    BY <2>1, <2>3, <2>4, <2>5, <2>6, <1>2, RecoveredIs
<1> QED
  BY <1>4, <1>5

-----------------------------------------------------------------------------
(* Writing sectors *)

\* A step from before to after may leave new, or what may have been there, or
\* nothing that passes its check, in the sectors it writes.
LEMMA WrittenIs ==
    ASSUME RegionOk, NEW new, card' = Written(new), \A a \in Address : a \in DOMAIN new => new[a] \in Fits(a)
    PROVE  /\ RegionOk'
           /\ \A a \in Address : card'.now[a] = IF a \in DOMAIN new THEN new[a] ELSE card.now[a]
           /\ \A c : MayRemain(c)' => \A a \in Address : c[a] \in card.may[a] \/ (a \in DOMAIN new /\ c[a] \in {new[a], None})
           /\ \A A : (Settled(A) /\ A \subseteq Address /\ A \cap DOMAIN new = {}) => Settled(A)'
<1>1. /\ card'.now = [a \in Address |-> IF a \in DOMAIN new THEN new[a] ELSE card.now[a]]
      /\ card'.may = [a \in Address |-> card.may[a] \cup IF a \in DOMAIN new THEN {new[a], None} ELSE {}]
  BY DEF Written
<1>2. \A a \in Address : card'.now[a] = IF a \in DOMAIN new THEN new[a] ELSE card.now[a]
  BY <1>1
<1>3. \A a \in Address : card'.may[a] = card.may[a] \cup IF a \in DOMAIN new THEN {new[a], None} ELSE {}
  BY <1>1
<1>4. \A a \in Address : card'.now[a] \in card'.may[a]
  BY <1>2, <1>3 DEF RegionOk, MayRemain
<1>5. card'.now = [a \in Address |-> card'.now[a]]
  BY <1>1
<1>6. \A a \in Address : card'.may[a] \subseteq Fits(a)
  BY <1>3, FitsIs DEF RegionOk
<1>7. \A c : MayRemain(c)' => \A a \in Address : c[a] \in card.may[a] \/ (a \in DOMAIN new /\ c[a] \in {new[a], None})
  BY <1>3 DEF MayRemain
<1>8. ASSUME NEW A, Settled(A), A \subseteq Address, A \cap DOMAIN new = {} PROVE Settled(A)'
  BY <1>2, <1>3, <1>8 DEF Settled
<1> QED
  BY <1>2, <1>4, <1>5, <1>6, <1>7, <1>8 DEF RegionOk, MayRemain

\* After a sync nothing but what is there may be left.
LEMMA SyncedIs ==
    ASSUME RegionOk, card' = Synced
    PROVE  RegionOk' /\ card'.now = card.now /\ Settled(Address)' /\ \A c : MayRemain(c)' => c = card.now
<1>1. card'.now = card.now /\ card'.may = [a \in Address |-> {card.now[a]}]
  BY DEF Synced
<1>2. card.now = [a \in Address |-> card.now[a]]
  BY DEF RegionOk, MayRemain
<1>3. \A a \in Address : card.now[a] \in Fits(a)
  BY DEF RegionOk, MayRemain
<1>4. \A c : MayRemain(c)' => c = card.now
  <2> SUFFICES ASSUME NEW c, MayRemain(c)' PROVE c = card.now
    OBVIOUS
  <2>1. c = [a \in Address |-> c[a]] /\ \A a \in Address : c[a] = card.now[a]
    BY <1>1 DEF MayRemain
  <2> QED
    BY <2>1, <1>2
<1> QED
  BY <1>1, <1>2, <1>3, <1>4 DEF RegionOk, MayRemain, Settled

\* What may remain fits.
LEMMA RemainsFit ==
    ASSUME RegionOk
    PROVE  Fitting(card.now) /\ MayRemain(card.now) /\ \A c : MayRemain(c) => Fitting(c)
BY DEF RegionOk, MayRemain, Fitting

\* A control sector is written beside the newest one: a restart finds the one
\* or the other.
LEMMA MarkerWritten ==
    ASSUME RegionOk, NEW n \in Nat, Settled(Address \ Reused),
           Top(card.now, n) \/ (Unmarked(card.now) /\ n = 0),
           NEW m \in ControlRecord, m.seq = n + 1, Cardinality(m.records) \in 0 .. RecordSlots,
           card' = Written([a \in {Control((n + 1) % 2)} |-> m])
    PROVE  /\ RegionOk'
           /\ Top(card'.now, n + 1) /\ card'.now[Control((n + 1) % 2)] = m
           /\ \A a \in Address : a # Control((n + 1) % 2) => card'.now[a] = card.now[a]
           /\ \A c : MayRemain(c)' =>
                 /\ \A a \in Address : a # Control((n + 1) % 2) => c[a] \in card.may[a]
                 /\ \/ Top(c, n + 1) /\ c[Control((n + 1) % 2)] = m
                    \/ \E e : MayRemain(e) /\ Recovered(c) = Recovered(e) /\ (Found(c) # {} => Found(e) # {})
<1> DEFINE j == Control((n + 1) % 2)
           i == Control(n % 2)
           new == [a \in {j} |-> m]
<1>0. /\ n % 2 \in 0 .. 1 /\ (n + 1) % 2 \in 0 .. 1 /\ n % 2 # (n + 1) % 2 /\ (n + 1 + 1) % 2 = n % 2
      /\ \A k \in 0 .. 1 : k = n % 2 \/ k = (n + 1) % 2
  BY Parity
<1>1. i \in Address /\ j \in Address /\ i # j /\ i \notin Reused /\ j \notin Reused
  BY <1>0, AddressParts, AddressesApart
<1>2. m # None /\ m \in Fits(j)
  <2>1. m \in Controls((n + 1) % 2)
    BY DEF Controls
  <2> QED
    BY <2>1, <1>0, FitsIs, RegionAuthentic
<1>3. \A a \in Address : a \in DOMAIN new => new[a] \in Fits(a)
  BY <1>2
<1> HIDE DEF i, j
<1>4. /\ RegionOk'
      /\ \A a \in Address : card'.now[a] = IF a = j THEN m ELSE card.now[a]
      /\ \A c : MayRemain(c)' => \A a \in Address : c[a] \in card.may[a] \/ (a = j /\ c[a] \in {m, None})
  <2>1. card' = Written(new)
    BY DEF j
  <2>2. DOMAIN new = {j} /\ new[j] = m
    OBVIOUS
  <2> HIDE DEF new
  <2> QED
    BY <2>1, <2>2, <1>3, WrittenIs
<1>5. card.may[i] = {card.now[i]} /\ card.may[j] = {card.now[j]}
  BY <1>1 DEF Settled
<1>6. ASSUME NEW c, c[j] = m, c[i] = card.now[i] PROVE Top(c, n + 1)
  <2>1. c[i] # None => c[i].seq < n + 1
    BY <1>6, <1>0 DEF Top, Unmarked, i
  <2> QED
    BY <1>6, <2>1, <1>0, <1>2 DEF Top, i, j
<1>7. Top(card'.now, n + 1) /\ card'.now[j] = m
  BY <1>6, <1>4, <1>1
<1>8. ASSUME NEW c, MayRemain(c)', ~(Top(c, n + 1) /\ c[j] = m)
      PROVE  \E e : MayRemain(e) /\ Recovered(c) = Recovered(e) /\ (Found(c) # {} => Found(e) # {})
  <2> DEFINE e == [a \in Address |-> IF a = j THEN card.now[j] ELSE c[a]]
  <2>1. c = [a \in Address |-> c[a]]
    BY <1>8 DEF MayRemain
  <2>2. c[i] = card.now[i] /\ \A a \in Address : a # j => c[a] \in card.may[a]
    BY <1>8, <1>4, <1>5, <1>1
  <2>3. c[j] = card.now[j] \/ c[j] = None
    BY <1>8, <1>4, <1>5, <1>1, <1>6, <2>2
  <2>4. MayRemain(e)
    BY <2>2, <1>5 DEF MayRemain
  <2>5. Fitting(c) /\ Fitting(e)
    <3>1. Fitting(e)
      BY <2>4, RemainsFit
    <3>2. Fitting(c)
      BY <1>8, <1>4, RemainsFit DEF RegionOk, MayRemain, Fitting
    <3> QED
      BY <3>1, <3>2
  <2>6. e[i] = card.now[i] /\ e[j] = card.now[j] /\ \A a \in Address : a # j => e[a] = c[a]
    BY <1>1, <2>2
  <2> HIDE DEF e
  <2>7. CASE Top(card.now, n)
    <3>1. Top(c, n) /\ Top(e, n)
      BY <2>7, <2>2, <2>3, <2>6 DEF Top, i, j
    <3>2. Found(c) # {} /\ Found(e) # {} /\ Newest(c) = c[i] /\ Newest(e) = e[i]
      BY <3>1, <2>5, TopIsNewest DEF i
    <3>3. Recovered(c) = Recovered(e)
      <4>1. \A a \in Address : (\A k \in 0 .. 1 : a # Control(k)) => c[a] = e[a]
        BY <2>6, <1>0 DEF j
      <4> QED
        BY <4>1, <3>2, <2>2, <2>6, <2>5, RecoveredSame
    <3> QED
      BY <3>2, <3>3, <2>4
  <2>8. CASE Unmarked(card.now)
    <3>1. Unmarked(c) /\ Unmarked(e)
      <4>1. card.now[i] = None /\ card.now[j] = None
        BY <2>8, <1>0 DEF Unmarked, i, j
      <4> QED
        BY <4>1, <2>2, <2>3, <2>6, <1>0 DEF Unmarked, i, j
    <3>2. Found(c) = {} /\ Found(e) = {}
      BY <3>1, UnmarkedIs
    <3>3. Recovered(c) = Recovered(e)
      <4>1. \A a \in Address : (\A k \in 0 .. 1 : a # Control(k)) => c[a] = e[a]
        BY <2>6, <1>0 DEF j
      <4> QED
        BY <4>1, <3>2, <2>5, RecoveredSame
    <3> QED
      BY <3>2, <3>3, <2>4
  <2> QED
    BY <2>7, <2>8
<1>9. \A c : MayRemain(c)' => \A a \in Address : a # j => c[a] \in card.may[a]
  BY <1>4
<1> QED
  BY <1>4, <1>7, <1>8, <1>9 DEF j

-----------------------------------------------------------------------------
(* Reading in a transaction *)

\* Where a sector is in the cache.
LEMMA CacheIndex ==
    /\ \A x \in Data : x \in Nat /\ x % CacheSlots \in 0 .. CacheSlots - 1
    /\ \A x \in Data : x # -1
BY RegionGeometry DEF Data

\* The slot of a staged sector, or the next free one.
LEMMA SlotOfIs ==
    ASSUME NEW t, t \in Seq(Home), NEW a
    PROVE  /\ (\E k \in 1 .. Len(t) : t[k] = a) => SlotOf(t, a) \in 1 .. Len(t) /\ t[SlotOf(t, a)] = a
           /\ ~(\E k \in 1 .. Len(t) : t[k] = a) => SlotOf(t, a) = Len(t) + 1
           /\ Len(t) \in Nat /\ \A k \in 1 .. Len(t) : t[k] \in Home
<1>1. DOMAIN t = 1 .. Len(t) /\ Len(t) \in Nat /\ \A k \in 1 .. Len(t) : t[k] \in Home
  OBVIOUS
<1> QED
  BY <1>1 DEF SlotOf

\* What the sectors of an image hold.
LEMMA WantedIs ==
    ASSUME NEW image \in Image
    PROVE  /\ Wanted(image, Tag) = image /\ \A x \in Data : Wanted(image, D(x)) = image[x]
           /\ \A a \in Home : Wanted(image, a) \in Plain \cup Image
<1>1. Wanted(image, Tag) = image /\ \A x \in Data : Wanted(image, D(x)) = image[x]
  BY AddressesApart DEF Wanted
<1> QED
  BY <1>1, AddressParts, ErasedIsImage

\* Through the records every home sector reads as last written.
LEMMA OverlayIs ==
    ASSUME StoreType, Txn(store.seq), NEW a \in Home
    PROVE  Overlay(a) = Wanted(view, a)
<1> DEFINE t == store.targets
           k == SlotOf(t, a)
<1>0. t \in Seq(Home) /\ store.seq \in Nat /\ view \in Image
  BY DEF StoreType, StoreRecord, JobRecord
<1>1. CASE \E i \in 1 .. Len(t) : t[i] = a
  <2>1. k \in 1 .. Len(t) /\ t[k] = a /\ Len(t) \in Nat
    BY <1>0, <1>1, SlotOfIs
  <2>2. card.now[Slot(k)] = [seq |-> store.seq + 1, target |-> a, value |-> Wanted(view, a)]
    BY <2>1 DEF Txn
  <2>3. card.now[Slot(k)] \in SlotRecord
    BY <2>2, <1>0, WantedIs DEF SlotRecord
  <2> HIDE DEF k
  <2>4. card.now[Slot(k)] # None /\ ~(k > Len(t))
    BY <2>1, <2>3, RegionAuthentic
  <2> QED
    BY <2>2, <2>4 DEF Overlay, k
<1>2. CASE ~\E i \in 1 .. Len(t) : t[i] = a
  <2>1. k = Len(t) + 1 /\ Len(t) \in Nat
    BY <1>0, <1>2, SlotOfIs
  <2>2. k > Len(t)
    BY <2>1
  <2>3. card.now[a] = Wanted(view, a)
    BY <1>2 DEF Txn
  <2> QED
    BY <2>2, <2>3 DEF Overlay
<1> QED
  BY <1>1, <1>2

\* And so does every sector through the cache.
LEMMA SectorIs ==
    ASSUME StoreType, Txn(store.seq), Agrees(view), NEW x \in Data
    PROVE  Sector(x) = view[x] /\ view[x] \in Plain /\ view[x] # None
<1>1. view \in Image /\ view # None /\ view[x] \in Plain /\ view[x] # None
  BY ErasedIsImage DEF StoreType, StoreRecord, JobRecord
<1>2. Overlay(Tag) = view /\ Overlay(D(x)) = view[x]
  BY <1>1, OverlayIs, WantedIs, AddressParts
<1>3. Cached(x) => store.cache[x % CacheSlots].value = view[x]
  BY DEF Agrees
<1> QED
  BY <1>1, <1>2, <1>3 DEF Sector

\* The facts about the card are kept with it.
LEMMA SameCard ==
    ASSUME card' = card
    PROVE  /\ (RegionOk <=> RegionOk') /\ (\A A : Settled(A) <=> Settled(A)')
           /\ (\A n : TopSector(n)' = TopSector(n))
           /\ (allowed \subseteq allowed' => (SafeInv => SafeInv'))
BY DEF RegionOk, MayRemain, Settled, TopSector, SafeInv, Safe

\* A read fills the cache with what it read.
LEMMA ReadKeeps ==
    ASSUME StoreInv, NEW x \in Data, Read(x)
    PROVE  StoreInv'
<1> DEFINE i == x % CacheSlots
<1>1. /\ pc = "idle" /\ store.st = "ready" /\ UNCHANGED <<card, era, pc, phase, job, view, allowed>>
      /\ store' = [store EXCEPT !.cache = Filled(x)]
  BY DEF Read, history
<1>2. StoreType /\ Txn(store.seq) /\ Agrees(view) /\ Top(card.now, store.seq) /\ TopSector(store.seq).state = "CLEAN"
  BY <1>1 DEF StoreInv, OpenInv
<1>3. Sector(x) = view[x] /\ view[x] \in Plain
  BY <1>2, SectorIs
<1>4. i \in 0 .. CacheSlots - 1 /\ x \in Int
  BY CacheIndex
<1>5. /\ store' = [store EXCEPT !.cache = [store.cache EXCEPT ![i] = [lba |-> x, value |-> view[x]]]]
      /\ store.cache \in [0 .. CacheSlots - 1 -> [lba : Int, value : Plain \cup {None}]]
  BY <1>1, <1>2, <1>3 DEF Filled, StoreType, StoreRecord, JobRecord
<1>6. /\ store'.cache = [store.cache EXCEPT ![i] = [lba |-> x, value |-> view[x]]] /\ store'.seq = store.seq
      /\ store'.targets = store.targets /\ store'.st = store.st
  BY <1>5, <1>2 DEF StoreType, StoreRecord, JobRecord
<1>7. StoreType'
  <2>1. store'.cache \in [0 .. CacheSlots - 1 -> [lba : Int, value : Plain \cup {None}]]
    BY <1>6, <1>5, <1>3, <1>4
  <2> QED
    BY <2>1, <1>1, <1>2, <1>5, <1>6 DEF StoreType, StoreRecord, JobRecord
<1>8. Agrees(view)'
  <2> SUFFICES ASSUME NEW y \in Data, store'.cache[y % CacheSlots].lba = y
               PROVE  store'.cache[y % CacheSlots].value = view[y]
    BY <1>1 DEF Agrees, Cached
  <2>1. y % CacheSlots \in 0 .. CacheSlots - 1
    BY CacheIndex
  <2>2. CASE y % CacheSlots = i
    <3>2. store'.cache[i].lba = y
      BY <2>2
    <3> HIDE DEF i
    <3>1. store'.cache[i] = [lba |-> x, value |-> view[x]]
      <4>1. store.cache \in [0 .. CacheSlots - 1 -> [lba : Int, value : Plain \cup {None}]]
        BY <1>5
      <4>2. store'.cache = [store.cache EXCEPT ![i] = [lba |-> x, value |-> view[x]]]
        BY <1>6
      <4> QED
        BY <1>4, <4>1, <4>2
    <3>3. x = y /\ store'.cache[i].value = view[x]
      BY <3>1, <3>2
    <3>4. store'.cache[y % CacheSlots].value = store'.cache[i].value
      BY <2>2 DEF i
    <3> QED
      BY <3>3, <3>4
  <2>3. CASE y % CacheSlots # i
    <3>1. store'.cache[y % CacheSlots] = store.cache[y % CacheSlots]
      BY <2>1, <2>3, <1>4, <1>5, <1>6
    <3> QED
      BY <3>1, <1>2 DEF Agrees, Cached
  <2> QED
    BY <2>2, <2>3
<1>9. Txn(store.seq)'
  BY <1>1, <1>2, <1>6 DEF Txn
<1>10. RegionOk' /\ SafeInv' /\ SettledInv'
  BY <1>1, SameCard DEF StoreInv, SettledInv
<1>11. EraInv' /\ OpenInv' /\ StepInv'
  BY <1>1, <1>2, <1>6, <1>8, <1>9, SameCard DEF StoreInv, EraInv, OpenInv, StepInv
<1> QED
  BY <1>7, <1>10, <1>11 DEF StoreInv

-----------------------------------------------------------------------------
(* Writing in a transaction *)

\* While the newest control sector says CLEAN, what a restart finds is in the
\* home sectors.
LEMMA CleanSame ==
    ASSUME NEW c, NEW e, Fitting(c), Fitting(e), NEW n \in Nat, Top(e, n), e[Control(n % 2)].state = "CLEAN",
           \A a \in Address \ Reused : c[a] = e[a]
    PROVE  Top(c, n) /\ c[Control(n % 2)] = e[Control(n % 2)] /\ Found(c) # {} /\ Recovered(c) = Recovered(e)
<1>1. \A i \in 0 .. 1 : c[Control(i)] = e[Control(i)]
  BY AddressParts, AddressesApart
<1>2. \A a \in Home : c[a] = e[a]
  BY AddressParts, AddressesApart
<1>3. Top(c, n) /\ c[Control(n % 2)] = e[Control(n % 2)]
  BY <1>1, Parity DEF Top
<1>4. Recovered(c) = Content(c) /\ Recovered(e) = Content(e) /\ Found(c) # {}
  BY <1>3, RecoveredIs
<1> QED
  BY <1>2, <1>3, <1>4, ContentSame

\* Record slots are written without effect on what a restart finds.
LEMMA ReusedWritten ==
    ASSUME RegionOk, SafeInv, Settled(Address \ Reused), NEW n \in Nat, Top(card.now, n), TopSector(n).state = "CLEAN",
           NEW new, card' = Written(new), DOMAIN new \subseteq Reused, \A a \in DOMAIN new : new[a] \in Fits(a),
           allowed' = allowed
    PROVE  /\ RegionOk' /\ SafeInv' /\ Settled(Address \ Reused)' /\ Top(card'.now, n)
           /\ card'.now[Control(n % 2)] = card.now[Control(n % 2)]
           /\ \A a \in Address : card'.now[a] = IF a \in DOMAIN new THEN new[a] ELSE card.now[a]
<1>1. /\ RegionOk'
      /\ \A a \in Address : card'.now[a] = IF a \in DOMAIN new THEN new[a] ELSE card.now[a]
      /\ \A c : MayRemain(c)' => \A a \in Address : c[a] \in card.may[a] \/ (a \in DOMAIN new /\ c[a] \in {new[a], None})
      /\ Settled(Address \ Reused)'
  BY WrittenIs
<1>2. Fitting(card.now) /\ Fitting(card'.now) /\ MayRemain(card.now) /\ \A c : MayRemain(c)' => Fitting(c)
  BY <1>1, RemainsFit DEF RegionOk, MayRemain, Fitting
<1>3. \A a \in Address \ Reused : card'.now[a] = card.now[a]
  BY <1>1
<1>4. Safe(card.now)
  BY <1>2 DEF SafeInv
<1>5. SafeInv'
  <2> SUFFICES ASSUME NEW c, MayRemain(c)' PROVE Safe(c)'
    BY DEF SafeInv
  <2>1. \A a \in Address \ Reused : c[a] = card.now[a]
    BY <1>1 DEF Settled
  <2>2. Found(c) # {} /\ Recovered(c) = Recovered(card.now)
    BY <2>1, <1>2, CleanSame DEF TopSector
  <2>3. Found(card.now) # {}
    BY <1>2, TopIsNewest
  <2> QED
    BY <2>2, <2>3, <1>4 DEF Safe
<1>6. Top(card'.now, n) /\ card'.now[Control(n % 2)] = card.now[Control(n % 2)]
  BY <1>2, <1>3, CleanSame DEF TopSector
<1> QED
  BY <1>1, <1>5, <1>6

\* The store when it is closed, and when it was just opened.
LEMMA StoreStarts ==
    /\ Closed = [st |-> "closed", seq |-> 0, bank |-> 0, targets |-> <<>>, cache |-> Empty]
    /\ Closed \in StoreRecord
    /\ \A n \in Nat : /\ Ready(n) = [st |-> "ready", seq |-> n, bank |-> 0, targets |-> <<>>, cache |-> Empty]
                      /\ Ready(n) \in StoreRecord
PROOF
<1>1. Empty \in [0 .. CacheSlots - 1 -> [lba : Int, value : Plain \cup {None}]]
  BY DEF Empty, NoEntry
<1>2. <<>> \in Seq(Home)
  OBVIOUS
<1>5. Closed = [st |-> "closed", seq |-> 0, bank |-> 0, targets |-> <<>>, cache |-> Empty]
  BY DEF Closed
<1>6. Closed \in StoreRecord
  BY <1>1, <1>2, <1>5 DEF StoreRecord
<1>3. ASSUME NEW n \in Nat
      PROVE  /\ Ready(n) = [st |-> "ready", seq |-> n, bank |-> 0, targets |-> <<>>, cache |-> Empty]
             /\ Ready(n) \in StoreRecord
  <2>1. Ready(n) = [st |-> "ready", seq |-> n, bank |-> 0, targets |-> <<>>, cache |-> Empty]
    BY DEF Ready
  <2> QED
    BY <1>1, <1>2, <2>1 DEF StoreRecord
<1> QED
  BY <1>3, <1>5, <1>6

\* A store that closes leaves nothing but the card.
LEMMA Closes ==
    ASSUME StoreInv, store' = Closed, pc' = "idle", phase' = "write", job' = NoJob, era' = era, view' \in Image,
           RegionOk', SettledInv', SafeInv',
           era = "images" => \A i \in 0 .. 1 : card'.may[Control(i)] = {None}
    PROVE  StoreInv'
<1>1. StoreType'
  BY StoreStarts, ErasedIsImage DEF StoreInv, StoreType
<1>2. EraInv'
  BY DEF StoreInv, EraInv, Closed, StoreType, StoreRecord, JobRecord, JournalSteps
<1>3. OpenInv' /\ StepInv'
  BY DEF OpenInv, StepInv, Closed
<1> QED
  BY <1>1, <1>2, <1>3 DEF StoreInv

\* A step that leaves the card and closes the store keeps the invariant.
LEMMA ClosesOnly ==
    ASSUME StoreInv, store' = Closed, pc' = "idle", phase' = "write", job' = NoJob,
           phase = "write", UNCHANGED <<card, era, view, allowed>>
    PROVE  StoreInv'
<1>1. RegionOk' /\ SafeInv'
  BY SameCard DEF StoreInv
<1>2. SettledInv'
  <2>1. card' = card
    OBVIOUS
  <2>2. (\A A : Settled(A) <=> Settled(A)') /\ (Found(card.now)' <=> Found(card.now)) /\ Newest(card.now)' = Newest(card.now)
    BY <2>1, SameCard
  <2> QED
    BY <2>1, <2>2 DEF StoreInv, SettledInv
<1>3. era = "images" => \A i \in 0 .. 1 : card'.may[Control(i)] = {None}
  BY DEF StoreInv, EraInv
<1> QED
  BY <1>1, <1>2, <1>3, Closes DEF StoreInv, StoreType, StoreRecord, JobRecord

\* The store closes with its transaction discarded.
LEMMA CloseKeeps ==
    ASSUME StoreInv, Close
    PROVE  StoreInv'
<1>1. phase = "write" /\ job = NoJob
  BY DEF StoreInv, EraInv, Close
<1> QED
  BY <1>1, ClosesOnly DEF Close, history

\* The newest control sector says CLEAN while the store is ready.
LEMMA CurrentIs ==
    ASSUME StoreInv, store.st = "ready", pc = "idle"
    PROVE  /\ Current /\ Found(card.now) # {} /\ Newest(card.now) = TopSector(store.seq)
           /\ Top(card.now, store.seq) /\ TopSector(store.seq).state = "CLEAN" /\ store.seq \in Nat
           /\ Settled(Address \ Reused) /\ RegionOk /\ SafeInv /\ phase = "write" /\ job = NoJob
           /\ era = "journal"
<1>1. Top(card.now, store.seq) /\ TopSector(store.seq).state = "CLEAN" /\ store.seq \in Nat
  BY DEF StoreInv, OpenInv, StoreType, StoreRecord, JobRecord
<1>2. Found(card.now) # {} /\ Newest(card.now) = TopSector(store.seq)
  BY <1>1, TopIsNewest, RemainsFit DEF StoreInv, TopSector
<1>3. Current
  BY <1>1, <1>2 DEF Current, TopSector, Top
<1> QED
  BY <1>1, <1>2, <1>3 DEF StoreInv, SettledInv, EraInv, StoreType, StoreRecord, JobRecord

\* A write stages the sector and its tag, or closes the store.
LEMMA WriteKeeps ==
    ASSUME StoreInv, NEW x \in Data, NEW v \in Values, Write(x, v)
    PROVE  StoreInv'
<1> DEFINE n == store.seq
           record(a, val) == [seq |-> n + 1, target |-> a, value |-> val]
           k == SlotOf(store.targets, D(x))
           t == IF k > Len(store.targets) THEN Append(store.targets, D(x)) ELSE store.targets
           j == SlotOf(t, Tag)
           u == IF j > Len(t) THEN Append(t, Tag) ELSE t
           tag == [Overlay(Tag) EXCEPT ![x] = v]
           one == [a \in {Slot(k), Source} |-> IF a = Source THEN None ELSE record(D(x), v)]
           two == [a \in {Slot(k), Slot(j), Source} |->
                     CASE a = Slot(k) -> record(D(x), v) [] a = Slot(j) -> record(Tag, tag) [] OTHER -> None]
<1>1. /\ store.st = "ready" /\ pc = "idle" /\ UNCHANGED <<era, pc, phase, job, allowed>>
      /\ \/ store' = Closed /\ UNCHANGED <<card, view>>
         \/ k <= RecordSlots /\ j > RecordSlots /\ store' = Closed /\ card' = Written(one) /\ UNCHANGED view
         \/ /\ ~(k > RecordSlots) /\ ~(j > RecordSlots) /\ card' = Written(two)
            /\ store' = [store EXCEPT !.targets = u, !.cache = Dropped(x)]
            /\ view' = [view EXCEPT ![x] = v]
  <2>1. store.st = "ready" /\ pc = "idle" /\ UNCHANGED <<era, pc, phase, job, allowed>>
    BY DEF Write
  <2>2. \/ store' = Closed /\ UNCHANGED <<card, view>>
        \/ ~(k > RecordSlots) /\ j > RecordSlots /\ store' = Closed /\ card' = Written(one) /\ UNCHANGED view
        \/ /\ ~(k > RecordSlots) /\ ~(j > RecordSlots) /\ card' = Written(two)
           /\ store' = [store EXCEPT !.targets = u, !.cache = Dropped(x)]
           /\ view' = [view EXCEPT ![x] = v]
    BY Zenon DEF Write
  <2> HIDE DEF j, one, two, u
  <2>3. k \in Nat /\ RecordSlots \in Nat
    <3>1. store.targets \in Seq(Home)
      BY DEF StoreInv, StoreType, StoreRecord, JobRecord
    <3>2. k \in 1 .. Len(store.targets) \/ k = Len(store.targets) + 1
      BY <3>1, SlotOfIs
    <3> HIDE DEF k
    <3> QED
      BY <3>1, <3>2, RegionGeometry
  <2> QED
    BY <2>1, <2>2, <2>3
<1>2. /\ Top(card.now, n) /\ TopSector(n).state = "CLEAN" /\ n \in Nat /\ Settled(Address \ Reused)
      /\ RegionOk /\ SafeInv /\ phase = "write" /\ job = NoJob /\ era = "journal" /\ StoreType /\ Txn(n) /\ Agrees(view)
  BY <1>1, CurrentIs DEF StoreInv, OpenInv
<1>3. /\ store.targets \in Seq(Home) /\ Len(store.targets) \in Nat /\ view \in Image
      /\ v \in Plain /\ D(x) \in Home /\ Tag \in Home /\ D(x) # Tag /\ RecordSlots \in Nat \ {0}
  BY <1>2, AddressParts, AddressesApart, RegionGeometry DEF StoreType, StoreRecord, JobRecord, Plain
<1>4. tag \in Image /\ tag = [view EXCEPT ![x] = v]
  <2>1. Overlay(Tag) = view
    BY <1>2, <1>3, OverlayIs, WantedIs
  <2> QED
    BY <2>1, <1>3 DEF Image
<1>5. /\ t \in Seq(Home) /\ k \in 1 .. Len(t) /\ t[k] = D(x)
      /\ \A i \in 1 .. Len(t) : i = k \/ (i \in 1 .. Len(store.targets) /\ t[i] = store.targets[i])
      /\ \A i \in 1 .. Len(store.targets) : i \in 1 .. Len(t) /\ t[i] = store.targets[i]
      /\ \A i, m \in 1 .. Len(t) : t[i] = t[m] => i = m
  <2>1. CASE \E i \in 1 .. Len(store.targets) : store.targets[i] = D(x)
    <3>1. k \in 1 .. Len(store.targets) /\ store.targets[k] = D(x)
      BY <2>1, <1>3, SlotOfIs
    <3> HIDE DEF k
    <3>2. t = store.targets
      BY <3>1, <1>3
    <3> HIDE DEF t
    <3> QED
      BY <3>1, <3>2, <1>2, <1>3 DEF Txn
  <2>2. CASE ~\E i \in 1 .. Len(store.targets) : store.targets[i] = D(x)
    <3>1. k = Len(store.targets) + 1
      BY <2>2, <1>3, SlotOfIs
    <3> HIDE DEF k
    <3>2. t = Append(store.targets, D(x))
      BY <3>1, <1>3
    <3>3. /\ t \in Seq(Home) /\ Len(t) = Len(store.targets) + 1 /\ t[Len(store.targets) + 1] = D(x)
          /\ \A i \in 1 .. Len(store.targets) : t[i] = store.targets[i]
      BY <3>2, <1>3
    <3>4. \A i, m \in 1 .. Len(store.targets) : store.targets[i] = store.targets[m] => i = m
      BY <1>2 DEF Txn
    <3> HIDE DEF t
    <3>5. \A i \in 1 .. Len(t) : i = k \/ i \in 1 .. Len(store.targets)
      BY <3>3, <3>1, <1>3
    <3> QED
      BY <3>1, <3>3, <3>4, <3>5, <2>2, <1>3
  <2> QED
    BY <2>1, <2>2
<1> HIDE DEF k, t
<1>6. /\ u \in Seq(Home) /\ j \in 1 .. Len(u) /\ u[j] = Tag /\ k \in 1 .. Len(u) /\ u[k] = D(x)
      /\ \A i \in 1 .. Len(u) : i = k \/ i = j \/ (i \in 1 .. Len(store.targets) /\ u[i] = store.targets[i])
      /\ \A i \in 1 .. Len(store.targets) : i \in 1 .. Len(u) /\ u[i] = store.targets[i]
      /\ \A i, m \in 1 .. Len(u) : u[i] = u[m] => i = m
  <2>0. Len(t) \in Nat
    BY <1>5
  <2>1. CASE \E i \in 1 .. Len(t) : t[i] = Tag
    <3>1. j \in 1 .. Len(t) /\ t[j] = Tag
      BY <2>1, <1>5, SlotOfIs
    <3> HIDE DEF j
    <3>2. u = t
      BY <3>1, <2>0
    <3> QED
      BY <3>1, <3>2, <1>5
  <2>2. CASE ~\E i \in 1 .. Len(t) : t[i] = Tag
    <3>1. j = Len(t) + 1
      BY <2>2, <1>5, SlotOfIs
    <3> HIDE DEF j
    <3>2. u = Append(t, Tag)
      BY <3>1, <2>0
    <3>3. /\ u \in Seq(Home) /\ Len(u) = Len(t) + 1 /\ u[Len(t) + 1] = Tag
          /\ \A i \in 1 .. Len(t) : u[i] = t[i]
      BY <3>2, <1>5, <1>3
    <3> HIDE DEF u
    <3>4. \A i \in 1 .. Len(u) : i = j \/ i \in 1 .. Len(t)
      BY <3>3, <3>1, <2>0
    <3>5. \A i \in 1 .. Len(t) : i \in 1 .. Len(u)
      BY <3>3, <2>0
    <3>6. j \in 1 .. Len(u)
      BY <3>3, <3>1, <2>0
    <3> QED
      BY <3>1, <3>3, <3>4, <3>5, <3>6, <2>2, <1>5
  <2> QED
    BY <2>1, <2>2
<1> HIDE DEF j, u
<1>7. \A a \in Home : \A w \in Plain \cup Image : record(a, w) \in SlotRecord
  BY <1>2 DEF SlotRecord
<1>8. record(D(x), v) \in SlotRecord /\ record(Tag, tag) \in SlotRecord
  BY <1>7, <1>3, <1>4
<1> HIDE DEF record, tag
<1>9. CASE store' = Closed /\ UNCHANGED <<card, view>>
  BY <1>9, <1>1, <1>2, ClosesOnly
<1>10. CASE k <= RecordSlots /\ j > RecordSlots /\ store' = Closed /\ card' = Written(one) /\ UNCHANGED view
  <2>1. k \in 1 .. RecordSlots
    BY <1>10, <1>5, <1>3
  <2>2. DOMAIN one \subseteq Reused /\ \A a \in DOMAIN one : one[a] \in Fits(a)
    <3>1. Slot(k) \in Reused /\ Source \in Reused /\ Slot(k) # Source
      BY <2>1, AddressParts, AddressesApart
    <3> QED
      BY <3>1, <2>1, <1>8, FitsIs
  <2> HIDE DEF one
  <2>3. /\ RegionOk' /\ SafeInv' /\ Settled(Address \ Reused)' /\ Top(card'.now, n)
        /\ card'.now[Control(n % 2)] = card.now[Control(n % 2)]
    BY <1>1, <1>2, <1>10, <2>2, ReusedWritten
  <2>4. Found(card'.now) # {} /\ Newest(card'.now).state = "CLEAN"
    BY <2>3, <1>2, TopIsNewest, RemainsFit DEF TopSector, RegionOk, MayRemain, Fitting
  <2>5. SettledInv'
    BY <2>3, <2>4, <1>1 DEF SettledInv
  <2> QED
    BY <1>1, <1>2, <1>3, <1>10, <2>3, <2>5, Closes
<1>11. CASE /\ ~(k > RecordSlots) /\ ~(j > RecordSlots) /\ card' = Written(two)
            /\ store' = [store EXCEPT !.targets = u, !.cache = Dropped(x)]
            /\ view' = [view EXCEPT ![x] = v]
  <2>1. k \in 1 .. RecordSlots /\ j \in 1 .. RecordSlots /\ k # j /\ Len(u) \in Nat /\ Len(u) <= RecordSlots
    <3>1. k \in 1 .. RecordSlots /\ j \in 1 .. RecordSlots /\ k # j /\ Len(u) \in Nat
      BY <1>11, <1>6, <1>3
    <3>2. Len(store.targets) <= RecordSlots
      BY <1>2 DEF Txn
    <3>3. Len(u) = 0 \/ Len(u) \in 1 .. Len(u)
      BY <3>1
    <3>4. Len(u) <= RecordSlots
      BY <3>1, <3>2, <3>3, <1>3, <1>6
    <3> QED
      BY <3>1, <3>4
  <2>2. /\ DOMAIN two \subseteq Reused /\ \A a \in DOMAIN two : two[a] \in Fits(a)
        /\ Slot(k) \in DOMAIN two /\ two[Slot(k)] = record(D(x), v)
        /\ Slot(j) \in DOMAIN two /\ two[Slot(j)] = record(Tag, tag)
        /\ \A a : a \in DOMAIN two <=> a \in {Slot(k), Slot(j), Source}
    <3>1. /\ Slot(k) \in Reused /\ Slot(j) \in Reused /\ Source \in Reused /\ Slot(k) # Source
          /\ Slot(j) # Source /\ Slot(k) # Slot(j)
      BY <2>1, AddressParts, AddressesApart
    <3> QED
      BY <3>1, <2>1, <1>8, FitsIs
  <2> HIDE DEF two
  <2>3. /\ RegionOk' /\ SafeInv' /\ Settled(Address \ Reused)' /\ Top(card'.now, n)
        /\ card'.now[Control(n % 2)] = card.now[Control(n % 2)]
        /\ \A a \in Address : card'.now[a] = IF a \in DOMAIN two THEN two[a] ELSE card.now[a]
    BY <1>1, <1>2, <1>11, <2>2, ReusedWritten
  <2>4. Found(card'.now) # {} /\ Newest(card'.now).state = "CLEAN"
    BY <2>3, <1>2, TopIsNewest, RemainsFit DEF TopSector, RegionOk, MayRemain, Fitting
  <2>5. SettledInv'
    BY <2>3, <2>4, <1>1, <1>2 DEF SettledInv
  <2>6. /\ store'.targets = u /\ store'.cache = [store.cache EXCEPT ![x % CacheSlots] = NoEntry]
        /\ store'.seq = n /\ store'.st = "ready"
        /\ store' \in StoreRecord
    <3>1. /\ store.cache \in [0 .. CacheSlots - 1 -> [lba : Int, value : Plain \cup {None}]]
          /\ x % CacheSlots \in 0 .. CacheSlots - 1 /\ NoEntry \in [lba : Int, value : Plain \cup {None}]
      BY <1>2, CacheIndex DEF StoreType, StoreRecord, JobRecord, NoEntry
    <3>2. Dropped(x) \in [0 .. CacheSlots - 1 -> [lba : Int, value : Plain \cup {None}]]
      BY <3>1 DEF Dropped
    <3>3. store' = [store EXCEPT !.targets = u, !.cache = Dropped(x)]
      BY <1>11
    <3>4. /\ store'.targets = u /\ store'.cache = Dropped(x) /\ store'.seq = n /\ store'.st = "ready"
          /\ store' \in StoreRecord
      BY <3>2, <3>3, <1>1, <1>2, <1>6 DEF StoreType, StoreRecord, JobRecord
    <3> QED
      BY <3>4 DEF Dropped
  <2>7. view' = tag /\ view' \in Image /\ view'[x] = v /\ \A y \in Data : y # x => view'[y] = view[y]
    BY <1>11, <1>3, <1>4 DEF Image
  <2>8. StoreType'
    BY <2>6, <2>7, <1>1, <1>2 DEF StoreType, StoreRecord, JobRecord
  <2>9. \A a \in Home : a # Tag /\ a # D(x) => Wanted(view, a)' = Wanted(view, a)
    <3> SUFFICES ASSUME NEW a \in Home, a # Tag, a # D(x) PROVE Wanted(view', a) = Wanted(view, a)
      BY DEF Wanted
    <3>1. PICK y \in Data : a = D(y)
      BY AddressParts
    <3> QED
      BY <3>1, <2>7, <1>3, WantedIs
  <2>10. Txn(n)'
    <3>1. \A i \in 1 .. Len(u) : card'.now[Slot(i)] = [seq |-> n + 1, target |-> u[i], value |-> Wanted(view', u[i])]
      <4> SUFFICES ASSUME NEW i \in 1 .. Len(u)
                   PROVE  card'.now[Slot(i)] = [seq |-> n + 1, target |-> u[i], value |-> Wanted(view', u[i])]
        OBVIOUS
      <4>1. i \in 1 .. RecordSlots /\ Slot(i) \in Address
        BY <2>1, <1>3, AddressParts
      <4>2. CASE i = k
        <5>1. card'.now[Slot(i)] = record(D(x), v)
          BY <4>1, <4>2, <2>2, <2>3
        <5>2. Wanted(view', D(x)) = v
          BY <2>7, WantedIs
        <5> QED
          BY <5>1, <5>2, <4>2, <1>6 DEF record
      <4>3. CASE i = j
        <5>1. card'.now[Slot(i)] = record(Tag, tag)
          BY <4>1, <4>3, <2>2, <2>3
        <5>2. Wanted(view', Tag) = tag
          BY <2>7, WantedIs
        <5> QED
          BY <5>1, <5>2, <4>3, <1>6 DEF record
      <4>4. CASE i # k /\ i # j
        <5>1. i \in 1 .. Len(store.targets) /\ u[i] = store.targets[i] /\ u[i] # D(x) /\ u[i] # Tag /\ u[i] \in Home
          BY <4>4, <1>6
        <5>2. card'.now[Slot(i)] = card.now[Slot(i)]
          <6>1. Slot(i) \notin {Slot(k), Slot(j), Source}
            BY <4>1, <4>4, <2>1, AddressesApart
          <6> QED
            BY <6>1, <4>1, <2>2, <2>3
        <5>3. card.now[Slot(i)] = [seq |-> n + 1, target |-> u[i], value |-> Wanted(view, u[i])]
          BY <5>1, <1>2 DEF Txn
        <5>4. Wanted(view', u[i]) = Wanted(view, u[i])
          BY <5>1, <2>9 DEF Wanted
        <5> QED
          BY <5>2, <5>3, <5>4
      <4> QED
        BY <4>2, <4>3, <4>4
    <3>2. \A a \in Home : (\A i \in 1 .. Len(u) : u[i] # a) => card'.now[a] = Wanted(view', a)
      <4> SUFFICES ASSUME NEW a \in Home, \A i \in 1 .. Len(u) : u[i] # a PROVE card'.now[a] = Wanted(view', a)
        OBVIOUS
      <4>1. a # Tag /\ a # D(x) /\ \A i \in 1 .. Len(store.targets) : store.targets[i] # a
        BY <1>6
      <4>2. card.now[a] = Wanted(view, a)
        BY <4>1, <1>2 DEF Txn
      <4>3. Wanted(view', a) = Wanted(view, a)
        BY <4>1, <2>9 DEF Wanted
      <4>4. card'.now[a] = card.now[a]
        BY <2>2, <2>3, AddressParts, AddressesApart
      <4> QED
        BY <4>2, <4>3, <4>4
    <3>3. store'.seq = n /\ store'.targets = u /\ Len(u) <= RecordSlots /\ \A i, m \in 1 .. Len(u) : u[i] = u[m] => i = m
      BY <2>1, <2>6, <1>6
    <3> QED
      BY <3>1, <3>2, <3>3 DEF Txn, Wanted
  <2>11. Agrees(view)'
    <3> SUFFICES ASSUME NEW y \in Data, store'.cache[y % CacheSlots].lba = y
                 PROVE  store'.cache[y % CacheSlots].value = view'[y]
      BY DEF Agrees, Cached
    <3> DEFINE i == x % CacheSlots
    <3>1. i \in 0 .. CacheSlots - 1 /\ y % CacheSlots \in 0 .. CacheSlots - 1 /\ y # -1
      BY CacheIndex
    <3>2. /\ store.cache \in [0 .. CacheSlots - 1 -> [lba : Int, value : Plain \cup {None}]]
          /\ store'.cache = [store.cache EXCEPT ![i] = NoEntry]
      BY <2>6, <1>2 DEF StoreType, StoreRecord, JobRecord
    <3>3. y % CacheSlots # i
      <4>1. store'.cache[i] = NoEntry
        <5> HIDE DEF i
        <5> QED
          BY <3>1, <3>2
      <4>2. NoEntry.lba = -1
        BY DEF NoEntry
      <4>3. ASSUME y % CacheSlots = i PROVE FALSE
        <5>1. store'.cache[y % CacheSlots] = NoEntry
          BY <4>1, <4>3
        <5> QED
          BY <5>1, <4>2, <3>1
      <4> QED
        BY <4>3
    <3>4. y # x
      BY <3>3
    <3>5. store'.cache[y % CacheSlots] = store.cache[y % CacheSlots]
      <4> DEFINE m == y % CacheSlots
      <4>1. m # i /\ m \in 0 .. CacheSlots - 1
        BY <3>1, <3>3
      <4> HIDE DEF i, m
      <4>2. store'.cache[m] = store.cache[m]
        BY <4>1, <3>1, <3>2
      <4> QED
        BY <4>2 DEF m
    <3> QED
      BY <3>4, <3>5, <2>7, <1>2 DEF Agrees, Cached
  <2>12. OpenInv'
    BY <2>3, <2>6, <2>10, <2>11, <1>2 DEF OpenInv, TopSector
  <2>13. EraInv' /\ StepInv'
    BY <1>1, <1>2, <2>6 DEF EraInv, StepInv, StoreInv
  <2> QED
    BY <2>3, <2>5, <2>8, <2>12, <2>13 DEF StoreInv
<1> QED
  BY <1>1, <1>9, <1>10, <1>11

-----------------------------------------------------------------------------
(* The calls *)

\* An empty cache agrees with every image.
LEMMA EmptyLba == \A x \in Data : Empty[x % CacheSlots].lba # x
BY CacheIndex DEF Empty, NoEntry

\* Settled sectors leave one outcome.
LEMMA SettledOnly ==
    ASSUME RegionOk, Settled(Address), NEW c, MayRemain(c)
    PROVE  c = card.now
<1>1. \A a \in Address : c[a] = card.now[a]
  BY DEF Settled, MayRemain
<1> QED
  BY <1>1 DEF RegionOk, MayRemain

\* Home sectors that hold an image hold its sectors.
LEMMA HomeWanted ==
    ASSUME NEW c, Fitting(c), Content(c) \in Image
    PROVE  \A a \in Home : c[a] = Wanted(Content(c), a)
BY ContentIs, WantedIs, AddressParts, ErasedIsImage

\* What an open that finds an older image knows of it.
LEMMA SnapshotIs ==
    ASSUME NEW c, Fitting(c), Snapshot(c) # None
    PROVE  LET b == LatestBank(c)
               o == 1 - b
           IN /\ Snapshot(c) \in Image /\ b \in 0 .. 1 /\ c[Manifest(b)] # None
              /\ c[Bank(b)] = c[Manifest(b)].image /\ Snapshot(c) = c[Manifest(b)].image
              /\ c[Manifest(o)] # None => c[Manifest(o)].gen < c[Manifest(b)].gen
<1> DEFINE b == LatestBank(c)
           o == 1 - b
           gens == {c[Manifest(i)].gen : i \in Manifests(c)}
<1>1. Manifests(c) # {} /\ ~(Cardinality(gens) < Cardinality(Manifests(c)))
  BY DEF Snapshot
<1>2. \A i \in Manifests(c) : i \in 0 .. 1 /\ c[Manifest(i)].gen \in Nat
  BY ManifestFits DEF Manifests
<1>3. b \in Manifests(c) /\ b \in 0 .. 1 /\ \A e \in Manifests(c) : c[Manifest(e)].gen <= c[Manifest(b)].gen
  BY <1>1, <1>2, LatestIs
<1>4. c[Bank(b)] = c[Manifest(b)].image /\ Snapshot(c) = c[Manifest(b)].image
  BY <1>1 DEF Snapshot
<1>5. c[Manifest(b)] # None /\ c[Manifest(b)].image \in Image
  BY <1>3, ManifestFits DEF Manifests
<1>6. ASSUME c[Manifest(o)] # None PROVE c[Manifest(o)].gen < c[Manifest(b)].gen
  <2>1. o \in Manifests(c) /\ o # b
    BY <1>3, <1>6 DEF Manifests
  <2>2. ASSUME c[Manifest(o)].gen = c[Manifest(b)].gen PROVE FALSE
    <3>1. Manifests(c) = {b, o}
      BY <1>2, <1>3, <2>1
    <3> DEFINE g == c[Manifest(b)].gen
    <3> HIDE DEF b, o, g
    <3>2. gens = {g}
      BY <3>1, <2>2 DEF g
    <3>3. Cardinality(gens) = 1
      BY <3>2, FS_Singleton
    <3>4. Cardinality(Manifests(c)) = 2
      <4>1. IsFiniteSet({b}) /\ Cardinality({b}) = 1
        BY FS_Singleton
      <4>2. Cardinality({b} \cup {o}) = 2
        BY <4>1, <2>1, FS_AddElement
      <4>3. Manifests(c) = {b} \cup {o}
        BY <3>1
      <4> QED
        BY <4>2, <4>3
    <3> QED
      BY <3>3, <3>4, <1>1
  <2> QED
    BY <2>1, <2>2, <1>2, <1>3
<1> QED
  BY <1>3, <1>4, <1>5, <1>6

\* Without a control sector every sector is settled.
LEMMA SettledWithout ==
    ASSUME StoreInv, pc = "idle", Found(card.now) = {}
    PROVE  Settled(Address) /\ Unmarked(card.now) /\ Recovered(card.now) = Snapshot(card.now)
<1>1. Settled(Address)
  BY DEF StoreInv, SettledInv, EraInv
<1> QED
  BY <1>1, UnmarkedIs DEF Recovered

\* The older firmware has no control sector.
LEMMA ImagesWithout ==
    ASSUME StoreInv, era = "images", pc = "idle"
    PROVE  Found(card.now) = {} /\ Settled(Address) /\ Recovered(card.now) = Snapshot(card.now)
<1>1. \A i \in 0 .. 1 : card.now[Control(i)] = None
  BY AddressParts DEF StoreInv, EraInv, RegionOk, MayRemain
<1>2. Found(card.now) = {}
  BY <1>1 DEF Found
<1> QED
  BY <1>2, SettledWithout

\* A commit starts with the sync of its records.
LEMMA CommitKeeps ==
    ASSUME StoreInv, Commit
    PROVE  StoreInv'
<1>1. store.st = "ready" /\ pc = "idle" /\ UNCHANGED <<card, era, job, view>>
  BY DEF Commit
<1>2. /\ Top(card.now, store.seq) /\ TopSector(store.seq).state = "CLEAN" /\ store.seq \in Nat
      /\ phase = "write" /\ job = NoJob /\ era = "journal" /\ Txn(store.seq) /\ Agrees(view)
  BY <1>1, CurrentIs DEF StoreInv, OpenInv
<1>3. CASE /\ Cardinality(Staged) = Len(store.targets)
           /\ Starts("records", "sync") /\ allowed' = allowed \cup {view} /\ UNCHANGED store
  <2>1. pc' = "records" /\ phase' = "sync" /\ store' = store /\ allowed' = allowed \cup {view}
    BY <1>3 DEF Starts
  <2>2. StoreType' /\ EraInv' /\ SettledInv' /\ OpenInv'
    BY <1>1, <1>2, <2>1 DEF StoreInv, StoreType, StoreRecord, JobRecord, EraInv, SettledInv, OpenInv, JournalSteps, ImageSteps
  <2>3. RegionOk' /\ SafeInv'
    BY <1>1, <2>1, SameCard DEF StoreInv
  <2>4. CommitFacts(store.seq)'
    <3>1. Txn(store.seq)' /\ Agrees(view)'
      BY <1>1, <1>2, <2>1 DEF Txn, Agrees, Cached, Wanted
    <3> QED
      BY <1>1, <1>2, <1>3, <2>1, <3>1 DEF CommitFacts, TopSector, Staged
  <2>5. StepInv'
    <3>1. After("records") = "ready" /\ "records" \notin Markers
      BY DEF After, Markers
    <3> QED
      BY <2>1, <2>4, <3>1 DEF StepInv, Facts, Finishing, ImageSteps
  <2> QED
    BY <2>2, <2>3, <2>5 DEF StoreInv
<1>4. CASE store' = Closed /\ UNCHANGED <<pc, phase, allowed>>
  BY <1>1, <1>2, <1>4, ClosesOnly
<1> QED
  BY <1>3, <1>4 DEF Commit

\* What a start finds of a region with a control sector.
LEMMA OpenFinds ==
    ASSUME StoreInv, pc = "idle", Found(card.now) # {}
    PROVE  LET r == Newest(card.now)
           IN /\ r.seq \in Nat /\ Top(card.now, r.seq) /\ TopSector(r.seq) = r /\ r \in ControlRecord
              /\ Recovered(card.now) \in Image
              /\ Settled(Address \ Reused) /\ (r.state # "CLEAN" => Settled(Address))
<1>1. Fitting(card.now) /\ MayRemain(card.now)
  BY RemainsFit DEF StoreInv
<1>2. Newest(card.now).seq \in Nat /\ Top(card.now, Newest(card.now).seq) /\ Newest(card.now) \in ControlRecord
  BY <1>1, NewestIsTop
<1>3. TopSector(Newest(card.now).seq) = Newest(card.now)
  BY <1>1, <1>2, TopIsNewest DEF TopSector
<1>4. Recovered(card.now) \in Image
  BY <1>1 DEF StoreInv, SafeInv, Safe
<1> QED
  BY <1>2, <1>3, <1>4 DEF StoreInv, SettledInv, EraInv

\* A start serves what is complete and takes up what was begun.
LEMMA OpenKeeps ==
    ASSUME StoreInv, Open
    PROVE  StoreInv'
<1>0. PICK r : r = Newest(card.now)
  OBVIOUS
<1>1. /\ era = "journal" /\ store.st = "closed" /\ pc = "idle" /\ Found(card.now) # {} /\ UNCHANGED <<card, era>>
      /\ store' = Ready(r.seq)
  BY <1>0 DEF Open
<1>2. /\ r.seq \in Nat /\ Top(card.now, r.seq) /\ TopSector(r.seq) = r /\ r \in ControlRecord
      /\ Recovered(card.now) \in Image /\ Settled(Address \ Reused) /\ (r.state # "CLEAN" => Settled(Address))
  BY <1>0, <1>1, OpenFinds
<1>3. phase = "write" /\ job = NoJob /\ RegionOk /\ RegionOk' /\ SafeInv /\ view \in Image /\ StoreType
  BY <1>1, SameCard DEF StoreInv, EraInv, StoreType, StoreRecord, JobRecord
<1>4. /\ store'.seq = r.seq /\ store'.st = "ready" /\ store'.targets = <<>> /\ store'.cache = Empty
      /\ store' \in StoreRecord
  BY <1>1, <1>2, StoreStarts
<1>5. \A image : Agrees(image)'
  BY <1>4, EmptyLba DEF Agrees, Cached
<1>6. Fitting(card.now) /\ MayRemain(card.now)
  BY <1>3, RemainsFit
<1>7. r.state \in {"CLEAN", "READY", "RESET", "MIGRATE"} /\ r.policy \in {Blank, Policy} /\ r.image \in Image
  BY <1>2 DEF ControlRecord, States
<1>8. SettledInv' \/ pc' \notin {"idle", "reset"}
  <2>1. SettledInv
    BY DEF StoreInv
  <2>2. card' = card
    BY <1>1
  <2>3. \A A : Settled(A) <=> Settled(A)'
    BY <2>2, SameCard
  <2> QED
    BY <2>1, <2>2, <2>3, <1>3, <1>1 DEF SettledInv
<1>9. CASE r.state = "CLEAN" /\ view' = Content(card.now) /\ allowed' = {view'} /\ UNCHANGED <<pc, phase, job>>
  <2>1. Recovered(card.now) = Content(card.now)
    BY <1>2, <1>6, <1>9, RecoveredIs DEF TopSector
  <2>2. view' \in Image /\ view' = Recovered(card.now)
    BY <2>1, <1>2, <1>9
  <2>3. SafeInv'
    <3> SUFFICES ASSUME NEW c, MayRemain(c)' PROVE Recovered(c) = Recovered(card.now)
      BY <2>2, <1>9, <1>2 DEF SafeInv, Safe
    <3>1. MayRemain(c)
      BY <1>1 DEF MayRemain
    <3>2. Fitting(c)
      BY <3>1, <1>3, RemainsFit
    <3>3. \A a \in Address \ Reused : c[a] = card.now[a]
      BY <3>1, <1>2 DEF Settled, MayRemain
    <3> QED
      BY <3>2, <3>3, <1>2, <1>6, <1>9, CleanSame DEF TopSector
  <2>4. Txn(r.seq)'
    <3>1. \A a \in Home : card.now[a] = Wanted(view', a)
      BY <2>1, <2>2, <1>6, HomeWanted
    <3>2. Len(store'.targets) = 0
      BY <1>4
    <3>3. RecordSlots \in Nat
      BY RegionGeometry
    <3> QED
      BY <3>1, <3>2, <3>3, <1>1 DEF Txn, Wanted
  <2>5. OpenInv'
    BY <2>4, <1>1, <1>2, <1>4, <1>5, <1>9 DEF OpenInv, TopSector
  <2>6. StoreType' /\ EraInv' /\ StepInv' /\ SettledInv'
    BY <2>2, <1>1, <1>3, <1>4, <1>8, <1>9 DEF StoreType, StoreRecord, JobRecord, EraInv, StepInv, StoreInv
  <2> QED
    BY <1>3, <2>3, <2>5, <2>6 DEF StoreInv
<1>10. ASSUME r.state # "CLEAN", pc' \in {"replay", "blank", "move"}, phase' = "write", UNCHANGED <<view, allowed>>,
              job' \in JobRecord,
              FinishingFacts(pc, r.seq)'
       PROVE  StoreInv'
  <2>1. StoreType' /\ EraInv' /\ OpenInv'
    BY <1>1, <1>3, <1>4, <1>10 DEF StoreType, StoreRecord, JobRecord, EraInv, OpenInv, JournalSteps, ImageSteps
  <2>2. SettledInv'
    <3>1. Settled(Address)' /\ Settled(Address \ Reused)'
      BY <1>1, <1>2, <1>10, SameCard
    <3> QED
      BY <3>1 DEF SettledInv
  <2>3. SafeInv'
    BY <1>1, <1>3, <1>10, SameCard
  <2>4. StepInv'
    BY <1>4, <1>10 DEF StepInv, Facts, Finishing, ImageSteps
  <2> QED
    BY <1>3, <2>1, <2>2, <2>3, <2>4 DEF StoreInv
<1>11. CASE r.state = "READY" /\ Starts("replay", "write") /\ UNCHANGED <<job, history>>
  <2>1. FinishingFacts(pc, r.seq)'
    BY <1>1, <1>2, <1>5, <1>11 DEF FinishingFacts, TopSector, Starts
  <2> QED
    BY <2>1, <1>3, <1>10, <1>11 DEF Starts, history, StoreType, StoreRecord, JobRecord
<1>12. CASE /\ r.state = "RESET" /\ Starts("blank", "write")
            /\ job' = [job EXCEPT !.policy = r.policy] /\ UNCHANGED history
  <2>1. job' \in JobRecord /\ job'.policy = r.policy
    BY <1>3, <1>7, <1>12 DEF StoreType, StoreRecord, JobRecord
  <2>2. FinishingFacts(pc, r.seq)'
    BY <1>1, <1>2, <1>5, <1>12, <2>1 DEF FinishingFacts, TopSector, Starts
  <2> QED
    BY <2>1, <2>2, <1>10, <1>12 DEF Starts, history
<1>13. CASE /\ r.state = "MIGRATE" /\ Starts("move", "write")
            /\ job' = [job EXCEPT !.image = r.image] /\ UNCHANGED history
  <2>1. job' \in JobRecord /\ job'.image = r.image
    BY <1>3, <1>7, <1>13 DEF StoreType, StoreRecord, JobRecord
  <2>2. FinishingFacts(pc, r.seq)'
    BY <1>1, <1>2, <1>5, <1>13, <2>1 DEF FinishingFacts, TopSector, Starts
  <2> QED
    BY <2>1, <2>2, <1>10, <1>13 DEF Starts, history
<1> QED
  BY <1>0, <1>9, <1>11, <1>12, <1>13 DEF Open

\* The first start of the new firmware begins a migration.
LEMMA MigrateKeeps ==
    ASSUME StoreInv, MigrateStart
    PROVE  StoreInv'
<1>1. /\ era = "journal" /\ pc = "idle" /\ Found(card.now) = {} /\ Snapshot(card.now) # None
      /\ UNCHANGED <<card, era, view, allowed>> /\ store' = Ready(0) /\ pc' = "copy" /\ phase' = "write"
      /\ job' = [job EXCEPT !.image = Snapshot(card.now)]
  BY DEF MigrateStart, Starts, history
<1>2. Settled(Address) /\ Unmarked(card.now)
  BY <1>1, SettledWithout
<1>3. Snapshot(card.now) \in Image
  BY <1>1, SnapshotIs, RemainsFit DEF StoreInv
<1>4. StoreType'
  BY <1>1, <1>3, StoreStarts DEF StoreInv, StoreType, JobRecord, JournalSteps
<1>5. RegionOk' /\ SafeInv' /\ Settled(Address)'
  BY <1>1, <1>2, SameCard DEF StoreInv
<1>6. SettledInv'
  BY <1>1, <1>5 DEF SettledInv, Settled
<1>7. EraInv' /\ OpenInv'
  BY <1>1, StoreStarts DEF EraInv, OpenInv, JournalSteps
<1>8. job'.image = Snapshot(card.now)
  BY <1>1 DEF StoreInv, StoreType, JobRecord
<1>9. CopyFacts("copy", 0)'
  BY <1>1, <1>2, <1>8, StoreStarts DEF CopyFacts
<1>10. StepInv'
  BY <1>1, <1>9, StoreStarts DEF StepInv, Facts, Finishing, ImageSteps
<1> QED
  BY <1>4, <1>5, <1>6, <1>7, <1>10 DEF StoreInv

\* A reset, asked for or forced, begins with its control sector.
LEMMA ResetBegins ==
    ASSUME StoreInv, pc = "idle", NEW n \in Nat, era = "journal",
           Top(card.now, n) \/ (Unmarked(card.now) /\ n = 0),
           store'.seq = n, store'.st = "ready", store'.cache = Empty, store' \in StoreRecord,
           job' \in JobRecord, allowed \subseteq allowed', Erased(job'.policy) \in allowed',
           pc' = "reset", phase' = "write", UNCHANGED <<card, era, view>>
    PROVE  StoreInv'
<1>1. StoreType'
  BY DEF StoreInv, StoreType, JournalSteps
<1>2. RegionOk' /\ SafeInv'
  BY SameCard DEF StoreInv
<1>3. SettledInv'
  <2>1. SettledInv /\ phase = "write"
    BY DEF StoreInv, EraInv
  <2>2. \A A : Settled(A) <=> Settled(A)'
    BY SameCard
  <2> QED
    BY <2>1, <2>2 DEF SettledInv
<1>4. EraInv' /\ OpenInv'
  BY DEF EraInv, OpenInv, JournalSteps
<1>5. ResetFacts(n)'
  BY DEF ResetFacts
<1>6. StepInv'
  BY <1>5 DEF StepInv, Facts, Finishing, ImageSteps
<1> QED
  BY <1>1, <1>2, <1>3, <1>4, <1>6 DEF StoreInv

\* A new store, whatever the region holds.
LEMMA InitializeKeeps ==
    ASSUME StoreInv, Initialize
    PROVE  StoreInv'
<1>0. PICK n : n = IF Found(card.now) = {} THEN 0 ELSE Newest(card.now).seq
  OBVIOUS
<1>1. /\ era = "journal" /\ pc = "idle" /\ UNCHANGED <<card, era, view, job>> /\ store' = Ready(n)
      /\ pc' = "reset" /\ phase' = "write" /\ allowed' = allowed \cup {Erased(Blank)}
  BY <1>0 DEF Initialize, Starts
<1>2. n \in Nat /\ (Top(card.now, n) \/ (Unmarked(card.now) /\ n = 0))
  BY <1>0, <1>1, OpenFinds, SettledWithout
<1>3. store'.seq = n /\ store'.st = "ready" /\ store'.cache = Empty /\ store' \in StoreRecord
  BY <1>1, <1>2, StoreStarts
<1>4. job' = NoJob /\ job' \in JobRecord /\ job'.policy = Blank
  BY <1>1, ErasedIsImage DEF StoreInv, EraInv, NoJob
<1> QED
  BY <1>1, <1>2, <1>3, <1>4, ResetBegins

\* A reset by the owner of the passkeys.
LEMMA ResetKeeps ==
    ASSUME StoreInv, NEW policy \in {Blank, Policy}, Reset(policy)
    PROVE  StoreInv'
<1>0. PICK n : n = store.seq
  OBVIOUS
<1>1. store.st = "ready" /\ pc = "idle" /\ UNCHANGED <<card, era, view>>
  BY DEF Reset
<1>2. /\ Current /\ Top(card.now, n) /\ n \in Nat /\ phase = "write" /\ job = NoJob /\ era = "journal"
      /\ store \in StoreRecord
  BY <1>0, <1>1, CurrentIs DEF StoreInv, StoreType
<1>3. /\ store' = [store EXCEPT !.targets = <<>>, !.cache = Empty] /\ job' = [job EXCEPT !.policy = policy]
      /\ allowed' = allowed \cup {Erased(policy)} /\ pc' = "reset" /\ phase' = "write"
  BY <1>2 DEF Reset, Starts
<1>4. store'.seq = n /\ store'.st = "ready" /\ store'.cache = Empty /\ store' \in StoreRecord
  <2>1. Empty \in [0 .. CacheSlots - 1 -> [lba : Int, value : Plain \cup {None}]] /\ <<>> \in Seq(Home)
    BY DEF Empty, NoEntry
  <2> QED
    BY <1>0, <1>1, <1>2, <1>3, <2>1 DEF StoreRecord
<1>5. job' \in JobRecord /\ job'.policy = policy
  BY <1>2, <1>3, ErasedIsImage DEF JobRecord
<1> QED
  BY <1>1, <1>2, <1>3, <1>4, <1>5, ResetBegins

\* The older store is created: both manifests are cleared first.
LEMMA ImageInitializeKeeps ==
    ASSUME StoreInv, ImageInitialize
    PROVE  StoreInv'
<1>1. /\ era = "images" /\ pc = "idle" /\ store' = Closed /\ job' = [NoJob EXCEPT !.gen = 1]
      /\ allowed' = allowed \cup {None, Erased(Blank)} \cup {card.now[Manifest(b)].image : b \in Manifests(card.now)}
      /\ pc' = "clear" /\ phase' = "write" /\ UNCHANGED <<card, era, view>>
  BY DEF ImageInitialize, Starts
<1>2. Settled(Address)
  BY <1>1, ImagesWithout
<1>3. job' \in JobRecord /\ job'.image = Erased(Blank)
  BY <1>1, ErasedIsImage DEF JobRecord, NoJob
<1>4. StoreType'
  BY <1>1, <1>3, StoreStarts DEF StoreInv, StoreType, ImageSteps
<1>5. RegionOk' /\ SafeInv' /\ Settled(Address)'
  BY <1>1, <1>2, SameCard DEF StoreInv
<1>6. SettledInv' /\ EraInv' /\ OpenInv'
  BY <1>1, <1>5, StoreStarts DEF SettledInv, Settled, EraInv, OpenInv, ImageSteps, JournalSteps, StoreInv
<1>7. ImageFacts("clear")'
  BY <1>1, <1>3 DEF ImageFacts
<1>8. StepInv'
  BY <1>1, <1>7 DEF StepInv, Facts, Finishing, ImageSteps
<1> QED
  BY <1>4, <1>5, <1>6, <1>8 DEF StoreInv

\* The older store is opened.
LEMMA ImageOpenKeeps ==
    ASSUME StoreInv, ImageOpen
    PROVE  StoreInv'
<1>0. PICK b : b = LatestBank(card.now)
  OBVIOUS
<1>1. /\ era = "images" /\ pc = "idle" /\ Snapshot(card.now) # None
      /\ store' = [Closed EXCEPT !.st = "image", !.bank = b, !.seq = card.now[Manifest(b)].gen]
      /\ view' = Snapshot(card.now) /\ allowed' = {view'} /\ UNCHANGED <<card, era, pc, phase, job>>
  BY <1>0 DEF ImageOpen
<1>2. Found(card.now) = {} /\ Settled(Address) /\ Recovered(card.now) = Snapshot(card.now)
  BY <1>1, ImagesWithout
<1>3. Snapshot(card.now) \in Image /\ b \in 0 .. 1 /\ card.now[Manifest(b)] # None
  BY <1>0, <1>1, SnapshotIs, RemainsFit DEF StoreInv
<1>4. card.now[Manifest(b)].gen \in Nat
  BY <1>3, ManifestFits, RemainsFit DEF StoreInv
<1>5. store' \in StoreRecord /\ store'.st = "image"
  BY <1>1, <1>3, <1>4, StoreStarts DEF StoreRecord
<1>6. StoreType' /\ RegionOk'
  BY <1>1, <1>3, <1>5, SameCard DEF StoreInv, StoreType
<1>7. SafeInv'
  <2> SUFFICES ASSUME NEW c, MayRemain(c)' PROVE c = card.now
    BY <1>1, <1>2 DEF SafeInv, Safe
  <2>1. MayRemain(c)
    BY <1>1 DEF MayRemain
  <2> QED
    BY <2>1, <1>2, SettledOnly DEF StoreInv
<1>8. SettledInv'
  BY <1>1, <1>2, SameCard DEF SettledInv, Settled
<1>9. EraInv' /\ OpenInv' /\ StepInv'
  BY <1>1, <1>5 DEF StoreInv, EraInv, OpenInv, StepInv
<1> QED
  BY <1>6, <1>7, <1>8, <1>9 DEF StoreInv

\* An image commit voids the manifest of the bank it goes to.
LEMMA ImageCommitKeeps ==
    ASSUME StoreInv, NEW image \in Image, ImageCommit(image)
    PROVE  StoreInv'
<1>1. /\ store.st = "image" /\ pc = "idle" /\ Snapshot(card.now) # None /\ LatestBank(card.now) = store.bank
      /\ card.now[Manifest(store.bank)].gen = store.seq
      /\ job' = [NoJob EXCEPT !.gen = store.seq + 1, !.bank = Inactive(store.bank), !.image = image]
      /\ allowed' = allowed \cup {image} /\ pc' = "void" /\ phase' = "write" /\ UNCHANGED <<card, era, store, view>>
  BY DEF ImageCommit, Starts
<1>2. era = "images" /\ store.bank \in 0 .. 1 /\ store.seq \in Nat /\ store \in StoreRecord
  BY <1>1 DEF StoreInv, StoreType, StoreRecord, EraInv
<1>3. Settled(Address)
  BY <1>1, <1>2, ImagesWithout
<1>4. job' \in JobRecord /\ job'.image = image /\ job'.bank = 1 - store.bank /\ job'.gen = store.seq + 1
  <2>1. job' = [policy |-> Blank, image |-> image, bank |-> 1 - store.bank, gen |-> store.seq + 1]
    BY <1>1 DEF Inactive, NoJob
  <2>2. 1 - store.bank \in 0 .. 1 /\ store.seq + 1 \in Nat
    BY <1>2
  <2> QED
    BY <2>1, <2>2 DEF JobRecord
<1>5. StoreType' /\ EraInv' /\ OpenInv'
  BY <1>1, <1>2, <1>4 DEF StoreInv, StoreType, EraInv, OpenInv, ImageSteps, JournalSteps
<1>6. RegionOk' /\ SafeInv' /\ SettledInv'
  BY <1>1, <1>3, SameCard DEF StoreInv, SettledInv, Settled
<1>7. ImageFacts("void")'
  <2> DEFINE b == store.bank
  <2>1. /\ card.now[Manifest(b)] # None /\ card.now[Bank(b)] = card.now[Manifest(b)].image
        /\ card.now[Manifest(1 - b)] # None => card.now[Manifest(1 - b)].gen < card.now[Manifest(b)].gen
    BY <1>1, SnapshotIs, RemainsFit DEF StoreInv
  <2>2. 1 - job'.bank = b /\ card.now[Manifest(b)].gen < job'.gen
    BY <1>1, <1>2, <1>4
  <2> QED
    BY <1>1, <1>4, <2>1, <2>2 DEF ImageFacts
<1>8. StepInv'
  BY <1>1, <1>7 DEF StepInv, Facts, Finishing, ImageSteps
<1> QED
  BY <1>5, <1>6, <1>8 DEF StoreInv

\* The device is flashed.
LEMMA UpgradeKeeps ==
    ASSUME StoreInv, Upgrade
    PROVE  StoreInv'
<1>1. era = "images" /\ store.st = "closed" /\ pc = "idle" /\ era' = "journal" /\ UNCHANGED <<card, store, pc, phase, job, view, allowed>>
  BY DEF Upgrade, history
<1>2. RegionOk' /\ SafeInv'
  BY <1>1, SameCard DEF StoreInv
<1>3. SettledInv'
  BY <1>1, ImagesWithout, SameCard DEF StoreInv, SettledInv, Settled
<1> QED
  BY <1>1, <1>2, <1>3 DEF StoreInv, StoreType, EraInv, OpenInv, StepInv

\* A power cut leaves one of the outcomes.
LEMMA InterruptKeeps ==
    ASSUME StoreInv, Interrupt
    PROVE  StoreInv'
<1>1. PICK c : MayRemain(c) /\ card' = [now |-> c, may |-> [a \in Address |-> {c[a]}]]
  BY DEF Interrupt, Outcomes
<1>2. store' = Closed /\ pc' = "idle" /\ phase' = "write" /\ job' = NoJob /\ UNCHANGED <<era, view, allowed>>
  BY DEF Interrupt, history
<1>3. /\ card'.now = c /\ (\A a \in Address : card'.may[a] = {c[a]})
      /\ c = [a \in Address |-> c[a]] /\ \A a \in Address : c[a] \in card.may[a]
  BY <1>1 DEF MayRemain
<1>4. RegionOk' /\ SettledInv'
  <2>1. \A a \in Address : c[a] \in Fits(a)
    BY <1>3 DEF StoreInv, RegionOk
  <2> QED
    BY <2>1, <1>2, <1>3 DEF RegionOk, MayRemain, SettledInv, Settled
<1>5. SafeInv'
  <2> SUFFICES ASSUME NEW e, MayRemain(e)' PROVE e = c
    BY <1>1, <1>2 DEF StoreInv, SafeInv, Safe
  <2>1. \A a \in Address : e[a] = c[a]
    BY <1>3 DEF MayRemain
  <2>2. e = [a \in Address |-> e[a]]
    BY DEF MayRemain
  <2> QED
    BY <1>3, <2>1, <2>2
<1>6. era = "images" => \A i \in 0 .. 1 : card'.may[Control(i)] = {None}
  BY <1>3, AddressParts DEF StoreInv, EraInv
<1> QED
  BY <1>2, <1>4, <1>5, <1>6, Closes DEF StoreInv, StoreType

\* The region starts without content.
LEMMA StoreStartsSafe ==
    ASSUME StoreInit
    PROVE  StoreInv
<1>1. /\ card = [now |-> [a \in Address |-> None], may |-> [a \in Address |-> {None}]] /\ era \in {"images", "journal"}
      /\ store = Closed /\ pc = "idle" /\ phase = "write" /\ job = NoJob /\ view = Erased(Blank) /\ allowed = {None}
  BY DEF StoreInit
<1>2. /\ card.now = [a \in Address |-> None] /\ card.now = [a \in Address |-> card.now[a]]
      /\ \A a \in Address : card.may[a] = {None} /\ card.now[a] = None
  BY <1>1
<1>3. RegionOk /\ Settled(Address)
  BY <1>2, FitsIs DEF RegionOk, MayRemain, Settled
<1>4. SettledInv
  BY <1>1, <1>3 DEF SettledInv, Settled
<1>5. SafeInv
  <2> SUFFICES ASSUME NEW c, MayRemain(c) PROVE Recovered(c) = None /\ Found(c) = {}
    BY <1>1 DEF SafeInv, Safe
  <2>1. c = card.now
    BY <1>3, SettledOnly
  <2>2. Found(c) = {} /\ Manifests(c) = {}
    BY <2>1, <1>2, AddressParts DEF Found, Manifests
  <2> QED
    BY <2>2 DEF Recovered, Snapshot
<1>6. StoreType /\ EraInv /\ OpenInv /\ StepInv
  BY <1>1, <1>2, StoreStarts, ErasedIsImage, AddressParts DEF StoreType, EraInv, OpenInv, StepInv, JournalSteps
<1> QED
  BY <1>3, <1>4, <1>5, <1>6 DEF StoreInv

-----------------------------------------------------------------------------
(* The steps of a call *)

\* The facts about a step speak of what is on the card, not of what may be.
LEMMA FactsSame ==
    ASSUME card'.now = card.now, store'.cache = store.cache, store'.targets = store.targets,
           UNCHANGED <<job, view, allowed, era>>, NEW p, NEW n, Facts(p, n)
    PROVE  Facts(p, n)'
<1>1. CommitFacts(n) => CommitFacts(n)'
  BY DEF CommitFacts, TopSector, Txn, Agrees, Cached, Wanted
<1>2. ResetFacts(n) => ResetFacts(n)'
  BY DEF ResetFacts
<1>3. CopyFacts(p, n) => CopyFacts(p, n)'
  BY DEF CopyFacts
<1>4. FinishingFacts(p, n) => FinishingFacts(p, n)'
  BY DEF FinishingFacts, TopSector, Agrees, Cached
<1>5. ImageFacts(p) => ImageFacts(p)'
  BY DEF ImageFacts
<1>6. Agrees(Content(card.now)) => Agrees(Content(card.now))'
  BY DEF Agrees, Cached
<1> QED
  BY <1>1, <1>2, <1>3, <1>4, <1>5, <1>6 DEF Facts, TopSector

\* A sync settles what the step wrote, and the next step begins.
LEMMA SyncKeeps ==
    ASSUME StoreInv, StepSync
    PROVE  StoreInv'
<1>0. PICK p, n : p = After(pc) /\ n = IF pc \in Markers THEN store.seq + 1 ELSE store.seq
  OBVIOUS
<1>1. /\ pc # "idle" /\ phase = "sync" /\ p # "idle" /\ card' = Synced /\ pc' = p /\ phase' = "write"
      /\ UNCHANGED <<era, job, view, allowed>>
      /\ store' = IF pc \in Markers THEN [store EXCEPT !.seq = store.seq + 1] ELSE store
  BY <1>0 DEF StepSync, history
<1>2. StoreType /\ RegionOk /\ EraInv /\ SafeInv /\ Facts(p, n)
  BY <1>0, <1>1 DEF StoreInv, StepInv
<1>3. /\ store' \in StoreRecord /\ store'.seq = n /\ store'.cache = store.cache /\ store'.targets = store.targets
      /\ store'.st = store.st
  BY <1>0, <1>1, <1>2 DEF StoreType, StoreRecord
<1>4. RegionOk' /\ card'.now = card.now /\ Settled(Address)' /\ \A c : MayRemain(c)' => c = card.now
  BY <1>1, <1>2, SyncedIs
<1>5. /\ pc \in JournalSteps => p \in JournalSteps
      /\ pc \in ImageSteps => p \in ImageSteps
      /\ p # "records"
  BY <1>0, <1>1 DEF After, JournalSteps, ImageSteps
<1>6. StoreType'
  BY <1>1, <1>2, <1>3, <1>5 DEF StoreType
<1>7. SettledInv'
  BY <1>4 DEF SettledInv, Settled
<1>8. SafeInv'
  <2>1. Safe(card.now)
    BY <1>2, RemainsFit DEF SafeInv
  <2> QED
    BY <2>1, <1>1, <1>4 DEF SafeInv, Safe
<1>9. EraInv'
  <2>1. \A i \in 0 .. 1 : card'.may[Control(i)] = {card.now[Control(i)]} /\ card.now[Control(i)] \in card.may[Control(i)]
    BY <1>2, <1>4, AddressParts DEF Settled, RegionOk, MayRemain
  <2>2. era = "images" => \A i \in 0 .. 1 : card'.may[Control(i)] = {None}
    BY <2>1, <1>2 DEF EraInv
  <2> QED
    BY <2>2, <1>1, <1>2, <1>3, <1>5 DEF EraInv, StoreType, JournalSteps, ImageSteps
<1>10. Facts(p, n)'
  BY <1>1, <1>2, <1>3, <1>4, FactsSame
<1>11. OpenInv' /\ StepInv'
  BY <1>1, <1>3, <1>10 DEF OpenInv, StepInv
<1> QED
  BY <1>4, <1>6, <1>7, <1>8, <1>9, <1>11 DEF StoreInv

\* The last sync of a call settles what it stored.
LEMMA DoneKeeps ==
    ASSUME StoreInv, StepDone
    PROVE  StoreInv'
<1>0. PICK n : n = IF pc \in Markers THEN store.seq + 1 ELSE store.seq
  OBVIOUS
<1>1. /\ pc # "idle" /\ phase = "sync" /\ After(pc) = "idle" /\ card' = Synced /\ pc' = "idle" /\ phase' = "write"
      /\ job' = NoJob /\ allowed' = {view'} /\ UNCHANGED era
      /\ store' = IF pc \in Markers THEN [store EXCEPT !.seq = store.seq + 1, !.targets = <<>>]
                  ELSE [store EXCEPT !.st = "image", !.seq = job.gen, !.bank = job.bank]
      /\ view' = IF pc \in Markers THEN Content(card.now) ELSE job.image
  BY DEF StepDone
<1>2. StoreType /\ RegionOk /\ EraInv /\ SafeInv /\ Facts("idle", n)
  BY <1>0, <1>1 DEF StoreInv, StepInv
<1>3. RegionOk' /\ card'.now = card.now /\ Settled(Address)' /\ \A c : MayRemain(c)' => c = card.now
  BY <1>1, <1>2, SyncedIs
<1>4. pc = "clean" \/ pc = "manifest"
  BY <1>1, <1>2 DEF StoreType, After, JournalSteps, ImageSteps
<1>5. SettledInv'
  BY <1>3 DEF SettledInv, Settled
<1>6. Fitting(card.now) /\ Safe(card.now)
  BY <1>2, RemainsFit DEF SafeInv
<1>7. \A i \in 0 .. 1 : card'.may[Control(i)] = {card.now[Control(i)]} /\ card.now[Control(i)] \in card.may[Control(i)]
  BY <1>2, <1>3, AddressParts DEF Settled, RegionOk, MayRemain
<1>8. ASSUME view' = Recovered(card.now), view' \in Image PROVE SafeInv'
  BY <1>1, <1>3, <1>8 DEF SafeInv, Safe
<1>9. CASE pc = "clean"
  <2>1. era = "journal" /\ store.st = "ready" /\ pc \in Markers /\ n = store.seq + 1 /\ n \in Nat
    BY <1>0, <1>2, <1>9 DEF EraInv, StoreType, StoreRecord, JournalSteps, ImageSteps, Markers
  <2>2. Top(card.now, n) /\ TopSector(n).state = "CLEAN" /\ Agrees(Content(card.now))
    BY <1>2, <2>1 DEF Facts
  <2>3. Recovered(card.now) = Content(card.now) /\ Found(card.now) # {}
    BY <2>1, <2>2, <1>6, RecoveredIs DEF TopSector
  <2>4. view' = Recovered(card.now) /\ view' \in Image /\ view' = Content(card.now)
    BY <2>1, <2>3, <1>1, <1>6 DEF Safe
  <2>5. /\ store' \in StoreRecord /\ store'.seq = n /\ store'.targets = <<>> /\ store'.cache = store.cache
        /\ store'.st = "ready"
    <3>1. <<>> \in Seq(Home)
      OBVIOUS
    <3> QED
      BY <3>1, <2>1, <1>1, <1>2 DEF StoreType, StoreRecord
  <2>6. StoreType'
    BY <2>4, <2>5, <1>1, <1>2, ErasedIsImage DEF StoreType
  <2>7. EraInv'
    BY <2>1, <2>5, <1>1 DEF EraInv, JournalSteps
  <2>8. Txn(n)'
    <3>1. \A a \in Home : card.now[a] = Wanted(view', a)
      BY <2>4, <1>6, HomeWanted
    <3>2. Len(store'.targets) = 0
      BY <2>5
    <3>3. RecordSlots \in Nat
      BY RegionGeometry
    <3> QED
      BY <3>1, <3>2, <3>3, <1>3 DEF Txn, Wanted
  <2>9. OpenInv' /\ StepInv'
    BY <2>2, <2>4, <2>5, <2>8, <1>1, <1>3 DEF OpenInv, StepInv, TopSector, Agrees, Cached
  <2> QED
    BY <2>4, <2>6, <2>7, <2>9, <1>3, <1>5, <1>8 DEF StoreInv
<1>10. CASE pc = "manifest"
  <2>1. era = "images" /\ pc \notin Markers
    BY <1>2, <1>10 DEF EraInv, StoreType, JournalSteps, Markers
  <2>2. job \in JobRecord /\ store \in StoreRecord /\ job.image \in Image
    BY <1>2 DEF StoreType, JobRecord
  <2>3. Snapshot(card.now) = job.image
    BY <1>2, <2>1 DEF Facts
  <2>4. Found(card.now) = {}
    BY <1>2, <1>7, <2>1 DEF Found, EraInv
  <2>5. view' = Recovered(card.now) /\ view' \in Image
    BY <2>1, <2>2, <2>3, <2>4, <1>1 DEF Recovered
  <2>6. store' \in StoreRecord /\ store'.st = "image"
    BY <2>1, <2>2, <1>1 DEF JobRecord, StoreRecord
  <2>7. StoreType'
    BY <2>5, <2>6, <1>1, <1>2, ErasedIsImage DEF StoreType
  <2>8. EraInv'
    BY <2>1, <2>6, <1>1, <1>2, <1>7 DEF EraInv, JournalSteps
  <2>9. OpenInv' /\ StepInv'
    BY <2>6, <1>1 DEF OpenInv, StepInv
  <2> QED
    BY <2>5, <2>7, <2>8, <2>9, <1>3, <1>5, <1>8 DEF StoreInv
<1> QED
  BY <1>4, <1>9, <1>10

\* A step that writes leaves the store and its call as they were.
LEMMA WritesKeep ==
    ASSUME StoreInv, pc # "idle", phase = "write", phase' = "sync",
           UNCHANGED <<store, pc, era, job, view, allowed>>, RegionOk', SafeInv',
           era = "images" => \A i \in 0 .. 1 : card'.may[Control(i)] = {None},
           Facts(After(pc), IF pc \in Markers THEN store.seq + 1 ELSE store.seq)'
    PROVE  StoreInv'
<1>1. StoreType' /\ EraInv' /\ SettledInv' /\ OpenInv'
  BY DEF StoreInv, StoreType, EraInv, SettledInv, OpenInv
<1>2. StepInv'
  BY DEF StepInv
<1> QED
  BY <1>1, <1>2 DEF StoreInv

\* Of the control sectors, those that a step does not write stay.
LEMMA ControlsStay ==
    ASSUME StoreInv, NEW new, card' = Written(new), \A i \in 0 .. 1 : Control(i) \notin DOMAIN new
    PROVE  era = "images" => \A i \in 0 .. 1 : card'.may[Control(i)] = {None}
<1>1. \A i \in 0 .. 1 : card'.may[Control(i)] = card.may[Control(i)]
  BY AddressParts DEF Written
<1> QED
  BY <1>1 DEF StoreInv, EraInv

\* Contents with m for their newest control sector, and else what may be there.
Marked(c, n, m) ==
    /\ Fitting(c) /\ Top(c, n + 1) /\ c[Control((n + 1) % 2)] = m
    /\ \A a \in Address : a # Control((n + 1) % 2) => c[a] \in card.may[a]

\* A step writes a control sector beside the newest one, and with it the image
\* a restart finds becomes the given one.
LEMMA MarkerStep ==
    ASSUME StoreInv, pc \in Markers, phase = "write", allowed' = allowed, NEW n \in Nat, n = store.seq,
           Top(card.now, n) \/ (Unmarked(card.now) /\ n = 0),
           NEW m \in ControlRecord, m.seq = n + 1, Cardinality(m.records) \in 0 .. RecordSlots,
           card' = Written([a \in {Control((n + 1) % 2)} |-> m]),
           NEW image \in Image, image \in allowed,
           \A c : Marked(c, n, m) => Recovered(c) = image
    PROVE  /\ RegionOk' /\ SafeInv' /\ Recovered(card'.now) = image /\ Fitting(card'.now)
           /\ Top(card'.now, n + 1) /\ card'.now[Control((n + 1) % 2)] = m
           /\ \A a \in Home : card'.now[a] = card.now[a]
<1>1. RegionOk /\ SafeInv /\ Settled(Address \ Reused)
  BY DEF StoreInv, SettledInv
<1>2. /\ RegionOk'
      /\ Top(card'.now, n + 1) /\ card'.now[Control((n + 1) % 2)] = m
      /\ \A a \in Address : a # Control((n + 1) % 2) => card'.now[a] = card.now[a]
      /\ \A c : MayRemain(c)' =>
            /\ \A a \in Address : a # Control((n + 1) % 2) => c[a] \in card.may[a]
            /\ \/ Top(c, n + 1) /\ c[Control((n + 1) % 2)] = m
               \/ \E e : MayRemain(e) /\ Recovered(c) = Recovered(e) /\ (Found(c) # {} => Found(e) # {})
  BY <1>1, MarkerWritten
<1>3. \A c : MayRemain(c)' => Fitting(c)
  BY <1>2 DEF RegionOk, MayRemain, Fitting
<1>4. SafeInv'
  <2> SUFFICES ASSUME NEW c, MayRemain(c)' PROVE Safe(c)
    BY DEF SafeInv, Safe
  <2>1. CASE Top(c, n + 1) /\ c[Control((n + 1) % 2)] = m
    <3>1. Recovered(c) = image
      BY <2>1, <1>2, <1>3 DEF Marked
    <3> QED
      BY <3>1 DEF Safe
  <2>2. CASE \E e : MayRemain(e) /\ Recovered(c) = Recovered(e) /\ (Found(c) # {} => Found(e) # {})
    BY <2>2, <1>1 DEF SafeInv, Safe
  <2> QED
    BY <2>1, <2>2, <1>2
<1>6. Fitting(card'.now) /\ \A a \in Address : a # Control((n + 1) % 2) => card'.now[a] \in card.may[a]
  BY <1>2 DEF RegionOk, MayRemain, Fitting
<1>7. Recovered(card'.now) = image
  BY <1>2, <1>6 DEF Marked
<1>8. \A a \in Home : card'.now[a] = card.now[a]
  BY <1>2, Parity, AddressParts, AddressesApart
<1> QED
  BY <1>2, <1>4, <1>6, <1>7, <1>8

\* A staged transaction, applied to the home sectors, is the image it wants.
LEMMA StagedIs ==
    ASSUME StoreInv, NEW n \in Nat, CommitFacts(n), NEW c, Fitting(c), NEW r,
           r = Entries(card.now, n + 1, Len(store.targets)),
           \A a \in Home \cup Reused : c[a] = card.now[a]
    PROVE  /\ Entries(c, n + 1, Cardinality(r)) = r /\ Content(Applied(c, r)) = view
           /\ r \subseteq [target : Home, value : Plain \cup Image] /\ Cardinality(r) \in 0 .. RecordSlots
<1> DEFINE t == store.targets
           w(a) == Wanted(view, a)
<1>1. t \in Seq(Home) /\ view \in Image /\ \A a \in Home : w(a) \in Plain \cup Image
  BY WantedIs DEF StoreInv, StoreType, StoreRecord
<1>2. /\ Len(t) \in Nat /\ Len(t) <= RecordSlots /\ Cardinality(r) = Len(t)
      /\ \A k, j \in 1 .. Len(t) : t[k] = t[j] => k = j
      /\ \A a \in Home : (\A k \in 1 .. Len(t) : t[k] # a) => card.now[a] = w(a)
  BY <1>1 DEF CommitFacts, Txn
<1>3. \A k \in 1 .. Len(t) : /\ t[k] \in Home /\ card.now[Slot(k)] # None /\ card.now[Slot(k)].seq = n + 1
                            /\ card.now[Slot(k)].target = t[k] /\ card.now[Slot(k)].value = w(t[k])
  <2> SUFFICES ASSUME NEW k \in 1 .. Len(t)
               PROVE  /\ t[k] \in Home /\ card.now[Slot(k)] # None /\ card.now[Slot(k)].seq = n + 1
                      /\ card.now[Slot(k)].target = t[k] /\ card.now[Slot(k)].value = w(t[k])
    OBVIOUS
  <2>1. t[k] \in Home
    BY <1>1
  <2>2. card.now[Slot(k)] = [seq |-> n + 1, target |-> t[k], value |-> w(t[k])]
    BY DEF CommitFacts, Txn
  <2>3. w(t[k]) \in Plain \cup Image
    BY <1>1, <2>1
  <2> HIDE DEF w, t
  <2>4. card.now[Slot(k)] \in SlotRecord
    BY <2>1, <2>2, <2>3 DEF SlotRecord
  <2> QED
    BY <2>1, <2>2, <2>4, RegionAuthentic
<1> HIDE DEF w, t
<1>9. r = {[target |-> t[k], value |-> w(t[k])] : k \in 1 .. Len(t)}
  <2>1. {k \in 1 .. Len(t) : card.now[Slot(k)] # None /\ card.now[Slot(k)].seq = n + 1} = 1 .. Len(t)
    BY <1>3
  <2>2. r = {[target |-> card.now[Slot(k)].target, value |-> card.now[Slot(k)].value] : k \in 1 .. Len(t)}
    BY <2>1 DEF Entries, t
  <2> QED
    BY <2>2, <1>3
<1>4. Entries(c, n + 1, Cardinality(r)) = r
  <2>1. Len(t) \in 0 .. RecordSlots
    BY <1>2, RegionGeometry
  <2>2. \A a \in Reused : c[a] = card.now[a]
    OBVIOUS
  <2>3. Entries(c, n + 1, Len(t)) = Entries(card.now, n + 1, Len(t))
    BY <2>1, <2>2, EntriesSame
  <2> QED
    BY <2>3, <1>2 DEF t
<1>5. r \subseteq [target : Home, value : Plain \cup Image]
  <2> SUFFICES ASSUME NEW k \in 1 .. Len(t)
               PROVE  [target |-> t[k], value |-> w(t[k])] \in [target : Home, value : Plain \cup Image]
    BY <1>9
  <2> QED
    BY <1>1, <1>3
<1>6. \A a \in Home : Applied(c, r)[a] = w(a)
  <2> SUFFICES ASSUME NEW a \in Home PROVE Applied(c, r)[a] = w(a)
    OBVIOUS
  <2> DEFINE R == {e \in r : e.target = a}
  <2>0. Applied(c, r)[a] = IF R = {} THEN c[a] ELSE (CHOOSE e \in R : TRUE).value
    BY AddressParts DEF Applied
  <2>1. CASE \E k \in 1 .. Len(t) : t[k] = a
    <3>1. PICK k \in 1 .. Len(t) : t[k] = a
      BY <2>1
    <3>2. [target |-> t[k], value |-> w(t[k])] \in r
      BY <1>9
    <3>3. R # {}
      BY <3>1, <3>2
    <3>4. \A e \in R : e.value = w(a)
      BY <1>9
    <3>5. (CHOOSE e \in R : TRUE) \in R
      BY <3>3
    <3> HIDE DEF R
    <3> QED
      BY <2>0, <3>3, <3>4, <3>5
  <2>2. CASE \A k \in 1 .. Len(t) : t[k] # a
    <3>1. R = {}
      BY <2>2, <1>9
    <3>2. card.now[a] = w(a)
      BY <2>2, <1>2
    <3> QED
      BY <2>0, <3>1, <3>2
  <2> QED
    BY <2>1, <2>2
<1>7. Content(Applied(c, r)) = view
  <2>1. Applied(c, r)[Tag] = view /\ \A x \in Data : Applied(c, r)[D(x)] = view[x]
    BY <1>1, <1>6, WantedIs, AddressParts DEF w
  <2> QED
    BY <2>1, <1>1, ErasedIsImage DEF Content
<1>8. Cardinality(r) \in 0 .. RecordSlots
  BY <1>2, RegionGeometry
<1> QED
  BY <1>4, <1>5, <1>7, <1>8

\* What a control sector written by a step holds.
LEMMA MarkIs ==
    ASSUME StoreInv, NEW st \in States, NEW r, r \subseteq [target : Home, value : Plain \cup Image]
    PROVE  LET m == Mark(st, r)
           IN /\ m \in ControlRecord /\ m.seq = store.seq + 1 /\ m.state = st /\ m.records = r
              /\ m.policy = job.policy /\ m.image = job.image
<1>1. job.policy \in {Blank, Policy} /\ job.image \in Image /\ store.seq \in Nat
  BY DEF StoreInv, StoreType, StoreRecord, JobRecord
<1> QED
  BY <1>1 DEF Mark, ControlRecord

\* Each of the five control sectors.
LEMMA MarkerKeeps ==
    ASSUME StoreInv, StepWrite, pc \in Markers
    PROVE  StoreInv'
<1>0. PICK n, m : n = store.seq /\ m = Marks(pc)
  OBVIOUS
<1>1. /\ phase = "write" /\ pc # "idle" /\ UNCHANGED <<era, view, allowed>>
      /\ \/ store' = Closed /\ pc' = "idle" /\ job' = NoJob /\ UNCHANGED <<card, phase>>
         \/ card' = Written(Writes(pc)) /\ phase' = "sync" /\ UNCHANGED <<store, pc, job>>
  BY DEF StepWrite, history
<1>2. CASE store' = Closed /\ pc' = "idle" /\ job' = NoJob /\ UNCHANGED <<card, phase>>
  BY <1>1, <1>2, ClosesOnly
<1> SUFFICES ASSUME card' = Written(Writes(pc)), phase' = "sync", UNCHANGED <<store, pc, job>> PROVE StoreInv'
  BY <1>1, <1>2
<1>3. card' = Written([a \in {Control((n + 1) % 2)} |-> m])
  BY <1>0 DEF Writes, Markers
<1>4. /\ n \in Nat /\ StoreType /\ RegionOk /\ SafeInv /\ Settled(Address \ Reused) /\ Facts(pc, n)
      /\ era = "journal" /\ (pc # "reset" => Settled(Address))
  BY <1>0, <1>1 DEF StoreInv, StoreType, StoreRecord, SettledInv, StepInv, EraInv, Markers, ImageSteps, JournalSteps
<1>5. Fitting(card.now) /\ Safe(card.now) /\ MayRemain(card.now)
  BY <1>4, RemainsFit DEF SafeInv
<1>6. (n + 1) % 2 \in 0 .. 1 /\ n + 1 \in Nat
  BY <1>4, Parity
<1>7. ASSUME NEW c, Settled(Address), \A a \in Address : a # Control((n + 1) % 2) => c[a] \in card.may[a]
      PROVE  \A a \in Home \cup Reused : c[a] = card.now[a]
  <2>1. \A a \in Home \cup Reused : a \in Address /\ a # Control((n + 1) % 2)
    BY <1>6, AddressParts, AddressesApart
  <2> QED
    BY <2>1, <1>7 DEF Settled
<1>8. ASSUME Facts(After(pc), n + 1)', RegionOk', SafeInv' PROVE StoreInv'
  BY <1>0, <1>1, <1>4, <1>8, WritesKeep
<1>9. Cardinality({}) = 0 /\ 0 \in 0 .. RecordSlots /\ {} \subseteq [target : Home, value : Plain \cup Image]
  BY FS_EmptySet, RegionGeometry
<1>14. n \in Nat /\ n = store.seq /\ phase = "write" /\ allowed' = allowed
  BY <1>0, <1>1, <1>4
<1>10. CASE pc = "ready"
  <2>1. CommitFacts(n)
    BY <1>4, <1>10 DEF Facts
  <2>2. PICK r : r = Entries(card.now, n + 1, Len(store.targets))
    OBVIOUS
  <2>3. m = Mark("READY", r)
    BY <1>0, <1>10, <2>2 DEF Marks, Staged
  <2>4. r \subseteq [target : Home, value : Plain \cup Image] /\ Cardinality(r) \in 0 .. RecordSlots
    BY <2>1, <2>2, <1>4, <1>5, StagedIs
  <2>5. m \in ControlRecord /\ m.seq = n + 1 /\ m.state = "READY" /\ m.records = r
    BY <2>3, <2>4, <1>0, MarkIs DEF States
  <2>10. PICK image : image = view
    OBVIOUS
  <2>6. Top(card.now, n) /\ view \in Image /\ view \in allowed /\ Agrees(view)
    BY <2>1, <1>4 DEF CommitFacts, StoreType
  <2>7. ASSUME NEW c, Marked(c, n, m)
        PROVE  Recovered(c) = image
    <3>1. Recovered(c) = IF Replayable(c, m) THEN Content(Applied(c, m.records)) ELSE None
      BY <2>7, <2>5, <1>6, RecoveredIs DEF Marked
    <3>2. \A a \in Home \cup Reused : c[a] = card.now[a]
      BY <2>7, <1>4, <1>7, <1>10 DEF Marked
    <3>3. Entries(c, n + 1, Cardinality(r)) = r /\ Content(Applied(c, r)) = view
      BY <3>2, <2>1, <2>2, <2>7, <1>4, StagedIs DEF Marked
    <3> QED
      BY <3>1, <3>3, <2>5, <2>10 DEF Replayable
  <2>8. /\ RegionOk' /\ SafeInv' /\ Recovered(card'.now) = image
        /\ Top(card'.now, n + 1) /\ card'.now[Control((n + 1) % 2)] = m
    <3>1. image \in Image /\ image \in allowed /\ Top(card.now, n) /\ Cardinality(m.records) \in 0 .. RecordSlots
      BY <2>4, <2>5, <2>6, <2>10
    <3>2. m \in ControlRecord /\ m.seq = n + 1
      BY <2>5
    <3> QED
      BY <3>1, <3>2, <2>7, <1>3, <1>14, MarkerStep, ZenonT(60)
  <2>9. Facts("replay", n + 1)'
    <3>1. FinishingFacts("replay", n + 1)'
      BY <2>5, <2>6, <2>8, <2>10 DEF FinishingFacts, TopSector, Agrees, Cached
    <3> QED
      BY <3>1 DEF Facts, Finishing, ImageSteps
  <2> QED
    BY <2>8, <2>9, <1>8, <1>10 DEF After
<1>11. CASE pc = "reset"
  <2>1. /\ Top(card.now, n) \/ (Unmarked(card.now) /\ n = 0)
        /\ Erased(job.policy) \in allowed /\ store.cache = Empty /\ Erased(job.policy) \in Image
    BY <1>4, <1>11, ErasedIsImage DEF Facts, ResetFacts, StoreType, JobRecord
  <2>2. PICK image : image = Erased(job.policy)
    OBVIOUS
  <2>3. m = Mark("RESET", {})
    BY <1>0, <1>11 DEF Marks
  <2>4. m \in ControlRecord /\ m.seq = n + 1 /\ m.state = "RESET" /\ m.records = {} /\ m.policy = job.policy
    BY <2>3, <1>0, <1>9, MarkIs DEF States
  <2>5. ASSUME NEW c, Marked(c, n, m)
        PROVE  Recovered(c) = image
    BY <2>2, <2>4, <2>5, <1>6, RecoveredIs DEF Marked
  <2>6. /\ RegionOk' /\ SafeInv'
        /\ Top(card'.now, n + 1) /\ card'.now[Control((n + 1) % 2)] = m
    <3>1. /\ image \in Image /\ image \in allowed /\ Cardinality(m.records) \in 0 .. RecordSlots
          /\ Top(card.now, n) \/ (Unmarked(card.now) /\ n = 0)
      BY <2>1, <2>2, <2>4, <1>9
    <3>2. m \in ControlRecord /\ m.seq = n + 1
      BY <2>4
    <3> QED
      BY <3>1, <3>2, <2>5, <1>3, <1>14, MarkerStep, ZenonT(60)
  <2>7. Facts("blank", n + 1)'
    <3>1. \A i : Agrees(i)'
      BY <2>1, EmptyLba DEF Agrees, Cached
    <3>2. FinishingFacts("blank", n + 1)'
      BY <2>4, <2>6, <3>1 DEF FinishingFacts, TopSector
    <3> QED
      BY <3>2 DEF Facts, Finishing, ImageSteps
  <2> QED
    BY <2>6, <2>7, <1>8, <1>11 DEF After
<1>12. CASE pc = "mark"
  <2>1. /\ Unmarked(card.now) /\ n = 0 /\ Snapshot(card.now) = job.image /\ store.cache = Empty
        /\ card.now[Source] = job.image /\ job.image \in Image
    BY <1>4, <1>12 DEF Facts, CopyFacts, StoreType, JobRecord
  <2>2. job.image \in allowed
    <3>1. Found(card.now) = {}
      BY <2>1, UnmarkedIs
    <3> QED
      BY <3>1, <2>1, <1>5 DEF Safe, Recovered
  <2>3. PICK image : image = job.image
    OBVIOUS
  <2>4. m = Mark("MIGRATE", {})
    BY <1>0, <1>12 DEF Marks
  <2>5. m \in ControlRecord /\ m.seq = n + 1 /\ m.state = "MIGRATE" /\ m.records = {} /\ m.image = image
    BY <2>3, <2>4, <1>0, <1>9, MarkIs DEF States
  <2>6. ASSUME NEW c, Marked(c, n, m)
        PROVE  Recovered(c) = image
    <3>1. \A a \in Home \cup Reused : c[a] = card.now[a]
      BY <2>6, <1>4, <1>7, <1>12 DEF Marked
    <3>2. c[Source] = image
      BY <3>1, <2>1, <2>3, AddressParts
    <3> QED
      BY <3>2, <2>5, <2>6, <1>6, RecoveredIs DEF Marked
  <2>7. /\ RegionOk' /\ SafeInv'
        /\ Top(card'.now, n + 1) /\ card'.now[Control((n + 1) % 2)] = m
    <3>1. /\ image \in Image /\ image \in allowed /\ Cardinality(m.records) \in 0 .. RecordSlots
          /\ Unmarked(card.now) /\ n = 0
      BY <2>1, <2>2, <2>3, <2>5, <1>9
    <3>2. m \in ControlRecord /\ m.seq = n + 1
      BY <2>5
    <3> QED
      BY <3>1, <3>2, <2>6, <1>3, <1>14, MarkerStep
  <2>8. Facts("move", n + 1)'
    <3>1. \A i : Agrees(i)'
      BY <2>1, EmptyLba DEF Agrees, Cached
    <3>2. FinishingFacts("move", n + 1)'
      BY <2>3, <2>5, <2>7, <3>1 DEF FinishingFacts, TopSector
    <3> QED
      BY <3>2 DEF Facts, Finishing, ImageSteps
  <2> QED
    BY <2>7, <2>8, <1>8, <1>12 DEF After
<1>13. CASE pc \in {"first", "clean"}
  <2>1. FinishingFacts(pc, n)
    BY <1>4, <1>13 DEF Facts, Finishing
  <2>2. Top(card.now, n) /\ Agrees(Recovered(card.now)) /\ Content(card.now) = Recovered(card.now)
    BY <2>1, <1>13 DEF FinishingFacts
  <2>3. PICK image : image = Recovered(card.now)
    OBVIOUS
  <2>4. image \in Image /\ image \in allowed
    BY <2>2, <2>3, <1>4, <1>5, TopIsNewest DEF Safe
  <2>5. m = Mark("CLEAN", {})
    BY <1>0, <1>13 DEF Marks
  <2>6. m \in ControlRecord /\ m.seq = n + 1 /\ m.state = "CLEAN" /\ m.records = {}
    BY <2>5, <1>0, <1>9, MarkIs DEF States
  <2>7. ASSUME NEW c, Marked(c, n, m)
        PROVE  Recovered(c) = image
    <3>1. \A a \in Home \cup Reused : c[a] = card.now[a]
      BY <2>7, <1>4, <1>7, <1>13 DEF Marked
    <3>2. Content(c) = image
      BY <3>1, <2>2, <2>3, ContentSame
    <3> QED
      BY <3>2, <2>6, <2>7, <1>6, RecoveredIs DEF Marked
  <2>8. /\ RegionOk' /\ SafeInv' /\ Recovered(card'.now) = image
        /\ Top(card'.now, n + 1) /\ card'.now[Control((n + 1) % 2)] = m
        /\ \A a \in Home : card'.now[a] = card.now[a]
    <3>1. image \in Image /\ image \in allowed /\ Top(card.now, n) /\ Cardinality(m.records) \in 0 .. RecordSlots
      BY <2>2, <2>4, <2>6, <1>9
    <3>2. m \in ControlRecord /\ m.seq = n + 1
      BY <2>6
    <3>3. pc \in Markers /\ (Top(card.now, n) \/ (Unmarked(card.now) /\ n = 0))
      BY <3>1
    <3>4. /\ RegionOk' /\ SafeInv' /\ Recovered(card'.now) = image /\ Fitting(card'.now)
          /\ Top(card'.now, n + 1) /\ card'.now[Control((n + 1) % 2)] = m
          /\ \A a \in Home : card'.now[a] = card.now[a]
      BY <3>1, <3>2, <3>3, <2>7, <1>3, <1>14, MarkerStep, ZenonT(60)
    <3> QED
      BY <3>4
  <2>9. Content(card'.now) = image
    BY <2>2, <2>3, <2>8, ContentSame
  <2>10. Agrees(Content(card.now))' /\ Agrees(Recovered(card.now))'
    BY <2>2, <2>3, <2>8, <2>9 DEF Agrees, Cached
  <2>11. CASE pc = "first"
    <3>1. FinishingFacts("clean", n + 1)'
      BY <2>8, <2>9, <2>10 DEF FinishingFacts
    <3>2. Facts("clean", n + 1)'
      BY <3>1 DEF Facts, Finishing, ImageSteps
    <3> QED
      BY <2>8, <2>11, <3>2, <1>8 DEF After
  <2>12. CASE pc = "clean"
    <3>1. Facts("idle", n + 1)'
      BY <2>6, <2>8, <2>10, <1>1, <1>4 DEF Facts, Finishing, ImageSteps, TopSector
    <3> QED
      BY <2>8, <2>12, <3>1, <1>8 DEF After
  <2> QED
    BY <2>11, <2>12, <1>13
<1> QED
  BY <1>10, <1>11, <1>12, <1>13 DEF Markers

\* A step writes sectors that a restart, by the newest control sector, does not
\* read.
LEMMA RewriteStep ==
    ASSUME StoreInv, Settled(Address), allowed' = allowed, NEW new, card' = Written(new),
           \A i \in 0 .. 1 : Control(i) \notin DOMAIN new,
           \A a \in Address : a \in DOMAIN new => new[a] \in Fits(a),
           NEW image, Recovered(card.now) = image,
           \A c : Fitting(c) /\ (\A a \in Address : a \notin DOMAIN new => c[a] = card.now[a]) => Recovered(c) = image
    PROVE  /\ RegionOk' /\ SafeInv' /\ Recovered(card'.now) = image /\ Fitting(card'.now)
           /\ \A a \in Address : card'.now[a] = IF a \in DOMAIN new THEN new[a] ELSE card.now[a]
           /\ \A n \in Nat : (Top(card.now, n) => Top(card'.now, n)) /\ card'.now[Control(n % 2)] = card.now[Control(n % 2)]
           /\ Unmarked(card.now) => Unmarked(card'.now)
<1>1. RegionOk /\ Safe(card.now)
  BY RemainsFit DEF StoreInv, SafeInv
<1>2. /\ RegionOk'
      /\ \A a \in Address : card'.now[a] = IF a \in DOMAIN new THEN new[a] ELSE card.now[a]
      /\ \A c : MayRemain(c)' => \A a \in Address : c[a] \in card.may[a] \/ (a \in DOMAIN new /\ c[a] \in {new[a], None})
  BY <1>1, WrittenIs
<1>3. \A c : MayRemain(c)' => Fitting(c)
  BY <1>2 DEF RegionOk, MayRemain, Fitting
<1>4. ASSUME NEW c, MayRemain(c)'
      PROVE  Safe(c)
  <2>1. \A a \in Address : a \notin DOMAIN new => c[a] = card.now[a]
    BY <1>2, <1>4 DEF Settled
  <2>2. Recovered(c) = image
    BY <2>1, <1>3, <1>4
  <2>3. \A i \in 0 .. 1 : c[Control(i)] = card.now[Control(i)]
    BY <2>1, AddressParts
  <2>4. Found(c) = Found(card.now)
    BY <2>3 DEF Found
  <2> QED
    BY <2>2, <2>4, <1>1 DEF Safe
<1>5. SafeInv'
  BY <1>4 DEF SafeInv, Safe
<1>6. Fitting(card'.now)
  BY <1>2 DEF RegionOk, MayRemain, Fitting
<1>7. Recovered(card'.now) = image
  BY <1>2, <1>6
<1>8. \A i \in 0 .. 1 : card'.now[Control(i)] = card.now[Control(i)]
  BY <1>2, AddressParts
<1> QED
  <2>1. \A n \in Nat : card'.now[Control(n % 2)] = card.now[Control(n % 2)] /\ card'.now[Control((n + 1) % 2)] = card.now[Control((n + 1) % 2)]
    BY <1>8, Parity
  <2> QED
    BY <1>2, <1>5, <1>6, <1>7, <1>8, <2>1 DEF Unmarked, Top

\* A step that brings the home sectors to the image leaves a region that still
\* recovers to it.
LEMMA FinishKeeps ==
    ASSUME StoreInv, pc \in {"replay", "blank", "move"}, phase = "write", phase' = "sync",
           UNCHANGED <<store, pc, era, job, view, allowed>>, NEW n \in Nat, n = store.seq,
           NEW new, card' = Written(new), \A i \in 0 .. 1 : Control(i) \notin DOMAIN new,
           \A a \in Address : a \in DOMAIN new => new[a] \in Fits(a),
           NEW image \in Image, Recovered(card.now) = image, Top(card.now, n), Agrees(image),
           pc = "move" => TopSector(n).state = "MIGRATE",
           \A c : Fitting(c) /\ (\A a \in Address : a \notin DOMAIN new => c[a] = card.now[a]) => Recovered(c) = image,
           \A e : (\A a \in Home : e[a] = IF a \in DOMAIN new THEN new[a] ELSE card.now[a]) => Content(e) = image
    PROVE  StoreInv'
<1>1. Settled(Address)
  BY DEF StoreInv, SettledInv
<1>2. /\ RegionOk' /\ SafeInv' /\ Recovered(card'.now) = image
      /\ \A a \in Address : card'.now[a] = IF a \in DOMAIN new THEN new[a] ELSE card.now[a]
      /\ Top(card'.now, n) /\ card'.now[Control(n % 2)] = card.now[Control(n % 2)]
  BY <1>1, RewriteStep
<1>3. Content(card'.now) = image
  BY <1>2, AddressParts
<1>4. Agrees(Recovered(card.now))'
  BY <1>2 DEF Agrees, Cached
<1>5. era = "images" => \A i \in 0 .. 1 : card'.may[Control(i)] = {None}
  BY ControlsStay
<1>6. CASE pc \in {"replay", "blank"}
  <2>1. FinishingFacts("clean", n)'
    BY <1>2, <1>3, <1>4 DEF FinishingFacts
  <2>2. Facts("clean", n)'
    BY <2>1 DEF Facts, Finishing, ImageSteps
  <2>3. After(pc) = "clean" /\ pc \notin Markers
    BY <1>6 DEF After, Markers
  <2> QED
    BY <2>2, <2>3, <1>2, <1>5, <1>6, WritesKeep
<1>7. CASE pc = "move"
  <2>1. FinishingFacts("first", n)'
    BY <1>2, <1>3, <1>4, <1>7 DEF FinishingFacts, TopSector
  <2>2. Facts("first", n)'
    BY <2>1 DEF Facts, Finishing, ImageSteps
  <2>3. After(pc) = "first" /\ pc \notin Markers
    BY <1>7 DEF After, Markers
  <2> QED
    BY <2>2, <2>3, <1>2, <1>5, <1>7, WritesKeep
<1> QED
  BY <1>6, <1>7

\* An image spread over the home sectors is their content.
LEMMA SpreadIs ==
    ASSUME NEW image \in Image, NEW new, new = Spread(image)
    PROVE  /\ DOMAIN new = Home \cup Banks
           /\ \A i \in 0 .. 1 : Control(i) \notin DOMAIN new
           /\ \A a \in Address : a \in DOMAIN new => new[a] \in Fits(a)
           /\ \A e : (\A a \in Home : e[a] = new[a]) => Content(e) = image
<1>1. DOMAIN new = Home \cup Banks
  BY DEF Spread
<1>2. \A i \in 0 .. 1 : Control(i) \notin DOMAIN new
  BY <1>1, AddressesApart
<1>3. new[Tag] = image /\ \A x \in Data : new[D(x)] = image[x]
  BY AddressParts, AddressesApart DEF Spread
<1>4. \A a \in Banks : new[a] = None
  BY AddressParts, AddressesApart DEF Spread
<1>5. \A a \in Home : new[a] \in Fits(a)
  BY <1>3, FitsIs, AddressParts, ErasedIsImage
<1>6. \A a \in Address : a \in DOMAIN new => new[a] \in Fits(a)
  BY <1>1, <1>4, <1>5, FitsIs
<1>7. ASSUME NEW e, \A a \in Home : e[a] = new[a]
      PROVE  Content(e) = image
  <2>1. e[Tag] = image /\ \A x \in Data : e[D(x)] = image[x]
    BY <1>3, <1>7, AddressParts
  <2> QED
    BY <2>1, ErasedIsImage DEF Content
<1> QED
  BY <1>1, <1>2, <1>6, <1>7

\* A reset or a migration overwrites the home sectors.
LEMMA SpreadKeeps ==
    ASSUME StoreInv, StepWrite, pc \in {"blank", "move"}
    PROVE  StoreInv'
<1>0. PICK n, image, r : /\ n = store.seq /\ image = Recovered(card.now) /\ r = card.now[Control(n % 2)]
  OBVIOUS
<1>1. /\ phase = "write" /\ phase' = "sync" /\ UNCHANGED <<store, pc, era, job, view, allowed>>
      /\ card' = Written(Writes(pc))
  BY DEF StepWrite, Markers, history
<1>2. /\ n \in Nat /\ RegionOk /\ Settled(Address) /\ SafeInv
      /\ FinishingFacts(pc, n)
  BY <1>0, <1>1 DEF StoreInv, StoreType, StoreRecord, SettledInv, StepInv, Facts, Finishing
<1>3. Fitting(card.now) /\ Safe(card.now)
  BY <1>2, RemainsFit DEF SafeInv
<1>4. /\ Top(card.now, n) /\ Agrees(image)
      /\ pc = "blank" => r.state = "RESET" /\ r.policy = job.policy
      /\ pc = "move" => r.state = "MIGRATE" /\ r.image = job.image
  BY <1>0, <1>2 DEF FinishingFacts, TopSector
<1>5. image \in Image
  BY <1>0, <1>3, <1>4, <1>2, TopIsNewest DEF Safe
<1>6. /\ pc = "blank" => image = Erased(job.policy)
      /\ pc = "move" => image = job.image /\ card.now[Source] = image
  BY <1>0, <1>2, <1>3, <1>4, <1>5, RecoveredIs, ErasedIsImage
<1>7. PICK new : new = Spread(image)
  OBVIOUS
<1>8. card' = Written(new)
  BY <1>1, <1>6, <1>7 DEF Writes, Markers
<1>9. ASSUME NEW c, Fitting(c), \A a \in Address : a \notin DOMAIN new => c[a] = card.now[a]
      PROVE  Recovered(c) = image
  <2>1. Source \notin DOMAIN new /\ Source \in Address /\ \A i \in 0 .. 1 : Control(i) \notin DOMAIN new /\ Control(i) \in Address
    BY <1>5, <1>7, SpreadIs, AddressParts, AddressesApart
  <2>2. c[Source] = card.now[Source] /\ c[Control(n % 2)] = r /\ Top(c, n)
    BY <2>1, <1>0, <1>2, <1>4, <1>9, Parity DEF Top
  <2> QED
    BY <2>2, <1>2, <1>4, <1>6, <1>9, RecoveredIs
<1>10. /\ \A i \in 0 .. 1 : Control(i) \notin DOMAIN new
       /\ \A a \in Address : a \in DOMAIN new => new[a] \in Fits(a)
       /\ \A e : (\A a \in Home : e[a] = IF a \in DOMAIN new THEN new[a] ELSE card.now[a]) => Content(e) = image
  BY <1>5, <1>7, SpreadIs
<1>11. pc \in {"replay", "blank", "move"} /\ (pc = "move" => TopSector(n).state = "MIGRATE")
  BY <1>0, <1>4 DEF TopSector
<1> QED
  BY <1>0, <1>1, <1>2, <1>4, <1>5, <1>8, <1>9, <1>10, <1>11, FinishKeeps

\* A replay writes the records of a commit to the home sectors.
LEMMA ReplayKeeps ==
    ASSUME StoreInv, StepWrite, pc = "replay"
    PROVE  StoreInv'
<1>0. PICK n, image, r, new :
          /\ n = store.seq /\ image = Recovered(card.now) /\ r = card.now[Control(n % 2)]
          /\ new = [a \in {e.target : e \in r.records} |-> Applied(card.now, r.records)[a]]
  OBVIOUS
<1>1. /\ phase = "write" /\ phase' = "sync" /\ UNCHANGED <<store, pc, era, job, view, allowed>>
      /\ card' = Written(Writes(pc))
  BY DEF StepWrite, Markers, history
<1>2. /\ n \in Nat /\ RegionOk /\ Settled(Address) /\ SafeInv
      /\ FinishingFacts(pc, n)
  BY <1>0, <1>1 DEF StoreInv, StoreType, StoreRecord, SettledInv, StepInv, Facts, Finishing
<1>3. Fitting(card.now) /\ Safe(card.now)
  BY <1>2, RemainsFit DEF SafeInv
<1>4. Top(card.now, n) /\ Agrees(image) /\ r.state = "READY"
  BY <1>0, <1>2 DEF FinishingFacts, TopSector
<1>5. image \in Image /\ image # None
  BY <1>0, <1>2, <1>3, <1>4, TopIsNewest, ErasedIsImage DEF Safe
<1>6. /\ Newest(card.now) = r /\ r \in ControlRecord /\ r.seq = n
      /\ image = IF Replayable(card.now, r) THEN Content(Applied(card.now, r.records)) ELSE None
  BY <1>0, <1>2, <1>3, <1>4, RecoveredIs
<1>7. Replayable(card.now, r) /\ Content(Applied(card.now, r.records)) = image
  BY <1>5, <1>6
<1>8. \A e \in r.records : e.target \in Home
  BY <1>6 DEF ControlRecord
<1>9. DOMAIN new = {e.target : e \in r.records} /\ DOMAIN new \subseteq Home
  BY <1>0, <1>8, SMTT(60)
<1>10. card' = Written(new)
  BY <1>0, <1>1, <1>6 DEF Writes, Markers
<1>11. \A a \in Home : Applied(card.now, r.records)[a] \in Fits(a)
  <2>1. /\ Applied(card.now, r.records)[Tag] = image
        /\ \A x \in Data : Applied(card.now, r.records)[D(x)] = image[x]
    BY <1>5, <1>7, SMTT(60) DEF Content
  <2> QED
    BY <2>1, <1>5, FitsIs, AddressParts, ErasedIsImage
<1>12. \A a \in Address : a \in DOMAIN new => new[a] \in Fits(a)
  BY <1>0, <1>9, <1>11
<1>13. \A i \in 0 .. 1 : Control(i) \notin DOMAIN new
  BY <1>9, AddressesApart
<1>14. ASSUME NEW c, Fitting(c), \A a \in Address : a \notin DOMAIN new => c[a] = card.now[a]
       PROVE  Recovered(c) = image
  <2>1. \A a \in Reused : c[a] = card.now[a]
    BY <1>9, <1>14, AddressParts, AddressesApart
  <2>2. \A i \in 0 .. 1 : c[Control(i)] = card.now[Control(i)]
    BY <1>13, <1>14, AddressParts
  <2>3. c[Control(n % 2)] = r /\ Top(c, n)
    BY <2>2, <1>0, <1>2, <1>4, Parity DEF Top
  <2>4. Recovered(c) = IF Replayable(c, r) THEN Content(Applied(c, r.records)) ELSE None
    BY <2>3, <1>2, <1>4, <1>14, RecoveredIs
  <2>5. Replayable(c, r)
    <3>1. Cardinality(r.records) \in 0 .. RecordSlots
      BY <1>0, <1>2, <1>3, <1>4, Parity, ControlFits DEF Top
    <3> QED
      BY <3>1, <2>1, <1>7, EntriesSame DEF Replayable
  <2>6. \A a \in Home : Applied(c, r.records)[a] = Applied(card.now, r.records)[a]
    <3> SUFFICES ASSUME NEW a \in Home PROVE Applied(c, r.records)[a] = Applied(card.now, r.records)[a]
      OBVIOUS
    <3>1. a \in Address
      BY AddressParts
    <3>2. c[a] = card.now[a] \/ \E e \in r.records : e.target = a
      BY <3>1, <1>9, <1>14
    <3> QED
      BY <3>1, <3>2 DEF Applied
  <2>7. Content(Applied(c, r.records)) = image
    BY <2>6, <1>7, ContentSame
  <2> QED
    BY <2>4, <2>5, <2>7
<1>15. ASSUME NEW e, \A a \in Home : e[a] = IF a \in DOMAIN new THEN new[a] ELSE card.now[a]
       PROVE  Content(e) = image
  <2> SUFFICES \A a \in Home : e[a] = Applied(card.now, r.records)[a]
    BY <1>7, ContentSame, SMTT(60)
  <2> SUFFICES ASSUME NEW a \in Home PROVE e[a] = Applied(card.now, r.records)[a]
    OBVIOUS
  <2>1. CASE a \in DOMAIN new
    BY <2>1, <1>0, <1>9, <1>15
  <2>2. CASE a \notin DOMAIN new
    <3>1. a \in Address /\ {y \in r.records : y.target = a} = {}
      BY <2>2, <1>9, AddressParts
    <3>2. Applied(card.now, r.records)[a] = card.now[a]
      BY <3>1 DEF Applied
    <3> QED
      BY <3>2, <2>2, <1>15
  <2> QED
    BY <2>1, <2>2, SMTT(60)
<1>16. /\ pc \in {"replay", "blank", "move"} /\ (pc = "move" => TopSector(n).state = "MIGRATE")
       /\ n \in Nat /\ n = store.seq /\ image \in Image /\ Recovered(card.now) = image
       /\ Top(card.now, n) /\ Agrees(image) /\ phase = "write" /\ phase' = "sync"
       /\ UNCHANGED <<store, pc, era, job, view, allowed>>
  BY <1>0, <1>1, <1>2, <1>4, <1>5
<1> QED
  BY <1>10, <1>12, <1>13, <1>14, <1>15, <1>16, FinishKeeps

\* A migration copies the older image over the record slots.
LEMMA CopyKeeps ==
    ASSUME StoreInv, StepWrite, pc = "copy"
    PROVE  StoreInv'
<1>0. PICK image, new :
          /\ image = job.image
          /\ new = [a \in Records \cup {Source} |-> IF a = Source THEN image ELSE None]
  OBVIOUS
<1>1. /\ phase = "write" /\ phase' = "sync" /\ UNCHANGED <<store, pc, era, job, view, allowed>>
      /\ card' = Written(Writes(pc))
  BY DEF StepWrite, Markers, history
<1>2. /\ RegionOk /\ Settled(Address) /\ image \in Image
      /\ Unmarked(card.now) /\ store.seq = 0 /\ Snapshot(card.now) = image /\ store.cache = Empty
  BY <1>0, <1>1 DEF StoreInv, StoreType, JobRecord, SettledInv, StepInv, Facts, CopyFacts
<1>3. card' = Written(new) /\ DOMAIN new = Reused /\ new[Source] = image
  BY <1>0, <1>1, AddressesApart DEF Writes, Markers, Reused
<1>4. \A a \in Address : a \in DOMAIN new => new[a] \in Fits(a)
  BY <1>0, <1>2, <1>3, FitsIs
<1>5. \A i \in 0 .. 1 : Control(i) \notin DOMAIN new
  BY <1>3, AddressesApart
<1>6. ASSUME NEW c, Fitting(c), \A a \in Address : a \notin DOMAIN new => c[a] = card.now[a]
      PROVE  Recovered(c) = image /\ Snapshot(c) = image
  <2>1. Unmarked(c)
    BY <1>2, <1>5, <1>6, AddressParts DEF Unmarked
  <2>2. \A a \in Banks : c[a] = card.now[a]
    BY <1>3, <1>6, AddressParts, AddressesApart
  <2>3. Snapshot(c) = image
    BY <2>2, <1>2, <1>6, SnapshotSame
  <2>4. Found(c) = {}
    BY <2>1, UnmarkedIs
  <2> QED
    BY <2>3, <2>4 DEF Recovered
<1>7. Recovered(card.now) = image
  BY <1>2, <1>6, RemainsFit
<1>8. /\ RegionOk' /\ SafeInv' /\ Fitting(card'.now)
      /\ \A a \in Address : card'.now[a] = IF a \in DOMAIN new THEN new[a] ELSE card.now[a]
      /\ Unmarked(card'.now)
  BY <1>1, <1>2, <1>3, <1>4, <1>5, <1>6, <1>7, RewriteStep
<1>9. Snapshot(card'.now) = image /\ card'.now[Source] = image
  BY <1>3, <1>6, <1>8, AddressParts
<1>10. CopyFacts("mark", 0)'
  BY <1>0, <1>1, <1>2, <1>8, <1>9 DEF CopyFacts
<1>11. Facts("mark", 0)'
  BY <1>10 DEF Facts, Finishing, ImageSteps
<1>12. After(pc) = "mark" /\ pc \notin Markers
  BY DEF After, Markers
<1> QED
  BY <1>1, <1>2, <1>3, <1>5, <1>8, <1>11, <1>12, ControlsStay, WritesKeep

\* Two elements are two.
LEMMA PairCard ==
    ASSUME NEW x, NEW y, x # y
    PROVE  Cardinality({x} \cup {y}) = 2
<1>1. IsFiniteSet({x}) /\ Cardinality({x}) = 1
  BY FS_Singleton
<1>2. y \notin {x}
  OBVIOUS
<1>3. Cardinality({x} \cup {y}) = Cardinality({x}) + 1
  BY <1>1, <1>2, FS_AddElement
<1> QED
  BY <1>1, <1>3

\* The image of the newest manifest is found.
LEMMA SnapshotOf ==
    ASSUME NEW c, Fitting(c), NEW b \in 0 .. 1, NEW o, o = 1 - b,
           c[Manifest(b)] # None, c[Bank(b)] = c[Manifest(b)].image,
           c[Manifest(o)] # None => c[Manifest(o)].gen < c[Manifest(b)].gen
    PROVE  Snapshot(c) = c[Manifest(b)].image
<1>1. o \in 0 .. 1 /\ o # b /\ \A i \in 0 .. 1 : i = b \/ i = o
  OBVIOUS
<1>2. \A i \in Manifests(c) : i \in 0 .. 1 /\ c[Manifest(i)].gen \in Nat
  BY ManifestFits DEF Manifests
<1>3. b \in Manifests(c)
  BY DEF Manifests
<1>4. LatestBank(c) = b
  <2>1. LatestBank(c) \in Manifests(c) /\ c[Manifest(b)].gen <= c[Manifest(LatestBank(c))].gen
    BY <1>2, <1>3, LatestIs
  <2>2. LatestBank(c) \in 0 .. 1 /\ c[Manifest(LatestBank(c))] # None
    BY <2>1 DEF Manifests
  <2>3. ASSUME LatestBank(c) = o PROVE FALSE
    <3>1. c[Manifest(o)].gen < c[Manifest(b)].gen /\ c[Manifest(b)].gen <= c[Manifest(o)].gen /\ o \in Manifests(c)
      BY <2>1, <2>2, <2>3
    <3> QED
      BY <3>1, <1>2, <1>3
  <2> QED
    BY <2>2, <2>3, <1>1
<1> DEFINE gens == {c[Manifest(i)].gen : i \in Manifests(c)}
<1>5. ~(Cardinality(gens) < Cardinality(Manifests(c)))
  <2>1. CASE c[Manifest(o)] = None
    <3>1. Manifests(c) = {b}
      BY <1>1, <1>3, <2>1 DEF Manifests
    <3> DEFINE g == c[Manifest(b)].gen
    <3>2. gens = {g}
      BY <3>1
    <3>3. Cardinality({b}) = 1 /\ Cardinality({g}) = 1
      BY FS_Singleton
    <3> HIDE DEF g, gens
    <3>4. Cardinality(gens) = 1
      BY <3>2, <3>3, Zenon
    <3>5. Cardinality(Manifests(c)) = 1
      BY <3>1, <3>3, Zenon
    <3> QED
      BY <3>4, <3>5, SMTT(60)
  <2>2. CASE c[Manifest(o)] # None
    <3>1. Manifests(c) = {b, o}
      BY <1>1, <2>2 DEF Manifests
    <3> DEFINE g == c[Manifest(b)].gen
               h == c[Manifest(o)].gen
    <3>2. g # h
      BY <2>2, <3>1, <1>2
    <3> HIDE DEF g, h
    <3>3. gens = {g} \cup {h}
      BY <3>1 DEF g, h
    <3>4. Cardinality({g} \cup {h}) = 2
      BY <3>2, PairCard
    <3>5. Cardinality({b} \cup {o}) = 2
      BY <1>1, PairCard
    <3>6. Manifests(c) = {b} \cup {o}
      BY <3>1
    <3> HIDE DEF gens
    <3>7. Cardinality(gens) = 2
      BY <3>3, <3>4, Zenon
    <3>8. Cardinality(Manifests(c)) = 2
      BY <3>5, <3>6, Zenon
    <3> QED
      BY <3>7, <3>8, SMTT(60)
  <2> QED
    BY <2>1, <2>2
<1> QED
  BY <1>3, <1>4, <1>5 DEF Snapshot

\* A step of the older firmware writes to the banks.
LEMMA BankStep ==
    ASSUME StoreInv, Settled(Address), allowed' = allowed, era = "images",
           NEW new, card' = Written(new), DOMAIN new \subseteq Banks,
           \A a \in Address : a \in DOMAIN new => new[a] \in Fits(a),
           \A c : /\ Fitting(c)
                  /\ \A a \in Address : c[a] = card.now[a] \/ (a \in DOMAIN new /\ c[a] \in {new[a], None})
                  => Snapshot(c) \in allowed
    PROVE  /\ RegionOk' /\ SafeInv' /\ Fitting(card'.now)
           /\ \A a \in Address : card'.now[a] = IF a \in DOMAIN new THEN new[a] ELSE card.now[a]
           /\ \A i \in 0 .. 1 : card'.may[Control(i)] = {None}
<1>1. \A i \in 0 .. 1 : Control(i) \notin DOMAIN new
  BY AddressesApart
<1>2. RegionOk
  BY DEF StoreInv
<1>3. /\ RegionOk'
      /\ \A a \in Address : card'.now[a] = IF a \in DOMAIN new THEN new[a] ELSE card.now[a]
      /\ \A c : MayRemain(c)' => \A a \in Address : c[a] \in card.may[a] \/ (a \in DOMAIN new /\ c[a] \in {new[a], None})
  BY <1>2, WrittenIs
<1>4. \A i \in 0 .. 1 : card'.may[Control(i)] = {None}
  BY <1>1, ControlsStay
<1>5. ASSUME NEW c, MayRemain(c)'
      PROVE  Safe(c)
  <2>1. Fitting(c)
    BY <1>3, <1>5 DEF RegionOk, MayRemain, Fitting
  <2>2. \A a \in Address : c[a] = card.now[a] \/ (a \in DOMAIN new /\ c[a] \in {new[a], None})
    BY <1>3, <1>5 DEF Settled
  <2>3. Found(c) = {}
    BY <1>4, <1>5, AddressParts DEF Found, MayRemain
  <2> QED
    BY <2>1, <2>2, <2>3 DEF Safe, Recovered
<1>6. SafeInv'
  BY <1>5 DEF SafeInv, Safe
<1>7. Fitting(card'.now)
  BY <1>3 DEF RegionOk, MayRemain, Fitting
<1> QED
  BY <1>3, <1>4, <1>6, <1>7

\* Until its manifest is written, a commit of the older firmware leaves the
\* image of the other bank.
LEMMA OtherBank ==
    ASSUME Fitting(card.now), NEW j \in 0 .. 1, NEW b, b = 1 - j, NEW m, m = card.now[Manifest(b)],
           m # None => card.now[Bank(b)] = m.image,
           IF m = None THEN card.now[Manifest(j)] = None
           ELSE card.now[Manifest(j)] = None \/ card.now[Manifest(j)].gen < m.gen,
           NEW c, Fitting(c), c[Manifest(b)] = m, c[Bank(b)] = card.now[Bank(b)],
           c[Manifest(j)] \in {None, card.now[Manifest(j)]}
    PROVE  Snapshot(c) = Snapshot(card.now)
<1>1. b \in 0 .. 1 /\ j = 1 - b /\ \A i \in 0 .. 1 : i = b \/ i = j
  OBVIOUS
<1>2. CASE m = None
  <2>1. Manifests(c) = {} /\ Manifests(card.now) = {}
    BY <1>1, <1>2 DEF Manifests
  <2> QED
    BY <2>1 DEF Snapshot
<1>3. CASE m # None
  <2>1. Snapshot(card.now) = m.image
    BY <1>1, <1>3, SnapshotOf
  <2>2. c[Manifest(j)] # None => c[Manifest(j)].gen < c[Manifest(b)].gen
    BY <1>3
  <2>3. Snapshot(c) = m.image
    BY <1>1, <1>3, <2>2, SnapshotOf
  <2> QED
    BY <2>1, <2>3
<1> QED
  BY <1>2, <1>3

\* What the steps of an image commit know.
LEMMA ImageStepIs ==
    ASSUME StoreInv, StepWrite, pc \in ImageSteps
    PROVE  /\ phase = "write" /\ phase' = "sync" /\ UNCHANGED <<store, pc, era, job, view, allowed>>
           /\ card' = Written(Writes(pc))
           /\ Settled(Address) /\ Fitting(card.now) /\ era = "images" /\ Snapshot(card.now) \in allowed
           /\ job.bank \in 0 .. 1 /\ job.gen \in Nat /\ job.image \in Image /\ ImageFacts(pc)
<1>1. /\ phase = "write" /\ phase' = "sync" /\ UNCHANGED <<store, pc, era, job, view, allowed>>
      /\ card' = Written(Writes(pc))
  BY DEF StepWrite, Markers, ImageSteps, history
<1>2. /\ RegionOk /\ SafeInv /\ Settled(Address) /\ era = "images"
      /\ job.bank \in 0 .. 1 /\ job.gen \in Nat /\ job.image \in Image /\ ImageFacts(pc)
  BY <1>1 DEF StoreInv, StoreType, JobRecord, EraInv, SettledInv, StepInv, Facts, ImageSteps, JournalSteps
<1>3. Fitting(card.now) /\ Safe(card.now)
  BY <1>2, RemainsFit DEF SafeInv
<1>4. \A i \in 0 .. 1 : card.now[Control(i)] = None
  BY <1>2, AddressParts DEF StoreInv, EraInv, RegionOk, MayRemain
<1>5. Found(card.now) = {}
  BY <1>4 DEF Found
<1> QED
  BY <1>1, <1>2, <1>3, <1>5 DEF Safe, Recovered

\* An initialization clears both manifests: until the sync either bank may be
\* left.
LEMMA ClearKeeps ==
    ASSUME StoreInv, StepWrite, pc = "clear"
    PROVE  StoreInv'
<1>0. PICK new : new = [a \in {Manifest(0), Manifest(1)} |-> None]
  OBVIOUS
<1>1. /\ phase = "write" /\ phase' = "sync" /\ UNCHANGED <<store, pc, era, job, view, allowed>>
      /\ card' = Written(Writes(pc))
      /\ Settled(Address) /\ Fitting(card.now) /\ era = "images" /\ Snapshot(card.now) \in allowed
      /\ job.bank \in 0 .. 1 /\ job.image \in Image /\ ImageFacts(pc)
  BY ImageStepIs DEF ImageSteps
<1>2. card' = Written(new) /\ DOMAIN new = {Manifest(0), Manifest(1)} /\ \A a \in DOMAIN new : new[a] = None
  BY <1>0, <1>1 DEF Writes, Markers
<1>3. /\ None \in allowed /\ job.image \in allowed
      /\ \A i \in Manifests(card.now) : card.now[Manifest(i)].image \in allowed
  BY <1>1 DEF ImageFacts
<1>4. \A a \in Address : a \in DOMAIN new => new[a] \in Fits(a)
  BY <1>2, FitsIs
<1>5. ASSUME NEW c, Fitting(c),
             \A a \in Address : c[a] = card.now[a] \/ (a \in DOMAIN new /\ c[a] \in {new[a], None})
      PROVE  Snapshot(c) \in allowed
  <2>1. CASE Snapshot(c) = None
    BY <2>1, <1>3
  <2>2. CASE Snapshot(c) # None
    <3>1. PICK b : b = LatestBank(c)
      OBVIOUS
    <3>2. b \in 0 .. 1 /\ c[Manifest(b)] # None /\ Snapshot(c) = c[Manifest(b)].image
      BY <2>2, <3>1, <1>5, SnapshotIs
    <3>3. c[Manifest(b)] = card.now[Manifest(b)]
      BY <3>2, <1>2, <1>5, AddressParts
    <3> QED
      BY <3>2, <3>3, <1>3 DEF Manifests
  <2> QED
    BY <2>1, <2>2
<1>6. DOMAIN new \subseteq Banks
  BY <1>2, AddressParts
<1>7. /\ RegionOk' /\ SafeInv'
      /\ \A a \in Address : card'.now[a] = IF a \in DOMAIN new THEN new[a] ELSE card.now[a]
      /\ \A i \in 0 .. 1 : card'.may[Control(i)] = {None}
  BY <1>1, <1>2, <1>4, <1>5, <1>6, BankStep
<1>8. \A i \in 0 .. 1 : card'.now[Manifest(i)] = None
  BY <1>2, <1>7, AddressParts
<1>9. Facts("void", store.seq)'
  <2>1. ImageFacts("void")'
    BY <1>1, <1>3, <1>8 DEF ImageFacts
  <2> QED
    BY <2>1 DEF Facts, Finishing, ImageSteps
<1>10. After(pc) = "void" /\ pc \notin Markers
  BY DEF After, Markers
<1> QED
  BY <1>1, <1>7, <1>9, <1>10, WritesKeep

\* An image commit voids the manifest of the bank that is not in use, writes
\* the bank, and then its manifest.
LEMMA ImageStepsKeep ==
    ASSUME StoreInv, StepWrite, pc \in {"void", "image", "manifest"}
    PROVE  StoreInv'
<1>0. PICK j, b, m, new : j = job.bank /\ b = 1 - j /\ m = card.now[Manifest(b)] /\ new = Writes(pc)
  OBVIOUS
<1>1. /\ phase = "write" /\ phase' = "sync" /\ UNCHANGED <<store, pc, era, job, view, allowed>>
      /\ card' = Written(new)
      /\ Settled(Address) /\ Fitting(card.now) /\ era = "images" /\ Snapshot(card.now) \in allowed
      /\ j \in 0 .. 1 /\ job.gen \in Nat /\ job.image \in Image /\ ImageFacts(pc)
  BY <1>0, ImageStepIs DEF ImageSteps
<1>2. b \in 0 .. 1 /\ b # j /\ Manifest(b) # Manifest(j) /\ Bank(b) # Bank(j) /\ Manifest(b) # Bank(j) /\ Manifest(j) # Bank(j)
      /\ Manifest(j) # Bank(b)
  BY <1>0, <1>1, AddressesApart
<1>3. /\ job.image \in allowed
      /\ m = None \/ (m.gen < job.gen /\ card.now[Bank(b)] = m.image)
      /\ pc = "void" => IF m = None THEN card.now[Manifest(j)] = None
                        ELSE card.now[Manifest(j)] = None \/ card.now[Manifest(j)].gen < m.gen
      /\ pc \in {"image", "manifest"} => card.now[Manifest(j)] = None
      /\ pc = "manifest" => card.now[Bank(j)] = job.image
  BY <1>0, <1>1 DEF ImageFacts
<1>4. ASSUME NEW c, Fitting(c), c[Manifest(b)] = m, c[Bank(b)] = card.now[Bank(b)],
             c[Manifest(j)] \in {None, card.now[Manifest(j)]}
      PROVE  Snapshot(c) \in allowed
  <2>1. IF m = None THEN card.now[Manifest(j)] = None
        ELSE card.now[Manifest(j)] = None \/ card.now[Manifest(j)].gen < m.gen
    BY <1>3
  <2>2. m # None => card.now[Bank(b)] = m.image
    BY <1>3
  <2>3. Snapshot(c) = Snapshot(card.now)
    BY <2>1, <2>2, <1>0, <1>1, <1>4, OtherBank
  <2> QED
    BY <2>3, <1>1
<1>5. /\ pc = "void" => DOMAIN new = {Manifest(j)} /\ new[Manifest(j)] = None
      /\ pc = "image" => DOMAIN new = {Bank(j)} /\ new[Bank(j)] = job.image
      /\ pc = "manifest" => DOMAIN new = {Manifest(j)} /\ new[Manifest(j)] = [gen |-> job.gen, image |-> job.image]
  BY <1>0 DEF Writes, Markers
<1>6. DOMAIN new \subseteq Banks /\ \A a \in Address : a \in DOMAIN new => new[a] \in Fits(a)
  <2>1. [gen |-> job.gen, image |-> job.image] \in ManifestRecord
    BY <1>1 DEF ManifestRecord
  <2> QED
    BY <2>1, <1>1, <1>5, FitsIs, AddressParts
<1>7. ASSUME NEW c, Fitting(c),
             \A a \in Address : c[a] = card.now[a] \/ (a \in DOMAIN new /\ c[a] \in {new[a], None})
      PROVE  Snapshot(c) \in allowed
  <2>1. \A i \in 0 .. 1 : Manifest(i) \in Address /\ Bank(i) \in Address
    BY AddressParts
  <2>2. c[Manifest(b)] = m /\ c[Bank(b)] = card.now[Bank(b)]
    BY <2>1, <1>0, <1>1, <1>2, <1>5, <1>7
  <2>3. CASE c[Manifest(j)] \in {None, card.now[Manifest(j)]}
    BY <2>2, <2>3, <1>4, <1>7
  <2>4. CASE c[Manifest(j)] \notin {None, card.now[Manifest(j)]}
    <3>1. pc = "manifest" /\ c[Manifest(j)] = new[Manifest(j)]
      BY <2>1, <2>4, <1>1, <1>2, <1>5, <1>7
    <3>2. c[Bank(j)] = card.now[Bank(j)]
      BY <3>1, <2>1, <1>1, <1>2, <1>5, <1>7
    <3>3. c[Bank(j)] = job.image /\ c[Manifest(j)].image = job.image /\ c[Manifest(j)].gen = job.gen
      BY <3>1, <3>2, <1>3, <1>5
    <3>4. c[Manifest(b)] # None => c[Manifest(b)].gen < c[Manifest(j)].gen
      BY <3>3, <2>2, <1>3
    <3>5. Snapshot(c) = job.image
      BY <3>3, <3>4, <2>4, <1>0, <1>1, <1>7, SnapshotOf
    <3> QED
      BY <3>5, <1>3
  <2> QED
    BY <2>3, <2>4
<1>8. /\ RegionOk' /\ SafeInv' /\ Fitting(card'.now)
      /\ \A a \in Address : card'.now[a] = IF a \in DOMAIN new THEN new[a] ELSE card.now[a]
      /\ \A i \in 0 .. 1 : card'.may[Control(i)] = {None}
  BY <1>1, <1>6, <1>7, BankStep
<1>9. \A i \in 0 .. 1 : Manifest(i) \in Address /\ Bank(i) \in Address
  BY AddressParts
<1>10. card'.now[Manifest(b)] = m /\ card'.now[Bank(b)] = card.now[Bank(b)]
  BY <1>0, <1>1, <1>2, <1>5, <1>8, <1>9
<1>11. CASE pc = "void"
  <2>1. card'.now[Manifest(j)] = None
    BY <1>1, <1>5, <1>8, <1>9, <1>11
  <2>2. ImageFacts("image")'
    BY <2>1, <1>0, <1>1, <1>3, <1>10 DEF ImageFacts
  <2>3. Facts("image", store.seq)' /\ After(pc) = "image" /\ pc \notin Markers
    BY <2>2, <1>11 DEF Facts, Finishing, ImageSteps, After, Markers
  <2> QED
    BY <2>3, <1>1, <1>8, <1>11, WritesKeep
<1>12. CASE pc = "image"
  <2>1. card'.now[Manifest(j)] = None /\ card'.now[Bank(j)] = job.image
    BY <1>1, <1>2, <1>3, <1>5, <1>8, <1>9, <1>12
  <2>2. ImageFacts("manifest")'
    BY <2>1, <1>0, <1>1, <1>3, <1>10 DEF ImageFacts
  <2>3. Facts("manifest", store.seq)' /\ After(pc) = "manifest" /\ pc \notin Markers
    BY <2>2, <1>12 DEF Facts, Finishing, ImageSteps, After, Markers
  <2> QED
    BY <2>3, <1>1, <1>8, <1>12, WritesKeep
<1>13. CASE pc = "manifest"
  <2>1. card'.now[Manifest(j)] = [gen |-> job.gen, image |-> job.image] /\ card'.now[Bank(j)] = job.image
    BY <1>1, <1>2, <1>3, <1>5, <1>8, <1>9, <1>13
  <2>2. card'.now[Manifest(j)].image = job.image /\ card'.now[Manifest(j)].gen = job.gen
    BY <2>1
  <2>3. card'.now[Manifest(j)] # None
    BY <2>1, <1>1, RegionAuthentic DEF ManifestRecord
  <2>4. card'.now[Manifest(b)] # None => card'.now[Manifest(b)].gen < card'.now[Manifest(j)].gen
    BY <2>2, <1>3, <1>10
  <2>5. Snapshot(card'.now) = job.image
    BY <2>1, <2>2, <2>3, <2>4, <1>0, <1>1, <1>8, SnapshotOf
  <2>6. Facts("idle", store.seq)' /\ After(pc) = "idle" /\ pc \notin Markers
    BY <2>5, <1>1, <1>13 DEF Facts, Finishing, ImageSteps, After, Markers
  <2> QED
    BY <2>6, <1>1, <1>8, <1>13, WritesKeep
<1> QED
  BY <1>11, <1>12, <1>13

\* A step writes what it writes, in whichever call.
LEMMA StepWriteKeeps ==
    ASSUME StoreInv, StepWrite
    PROVE  StoreInv'
<1>1. pc \in JournalSteps \cup ImageSteps /\ pc # "records"
  BY DEF StepWrite, StoreInv, StoreType, EraInv
<1>2. CASE pc \in Markers
  BY <1>2, MarkerKeeps
<1>3. CASE pc \in {"blank", "move"}
  BY <1>3, SpreadKeeps
<1>4. CASE pc = "replay"
  BY <1>4, ReplayKeeps
<1>5. CASE pc = "copy"
  BY <1>5, CopyKeeps
<1>6. CASE pc = "clear"
  BY <1>6, ClearKeeps
<1>7. CASE pc \in {"void", "image", "manifest"}
  BY <1>7, ImageStepsKeep
<1> QED
  BY <1>1, <1>2, <1>3, <1>4, <1>5, <1>6, <1>7 DEF JournalSteps, ImageSteps, Markers

\* A step of nobody.
LEMMA StoreStutters ==
    ASSUME StoreInv, UNCHANGED svars
    PROVE  StoreInv'
<1>1. UNCHANGED <<card, era, store, pc, phase, job, view, allowed>>
  BY DEF svars, history
<1>2. RegionOk' /\ SafeInv' /\ \A A : Settled(A) <=> Settled(A)'
  BY <1>1, SameCard DEF StoreInv
<1>3. StoreType' /\ SettledInv' /\ EraInv'
  BY <1>1, <1>2 DEF StoreInv, StoreType, SettledInv, EraInv
<1>4. OpenInv'
  BY <1>1 DEF StoreInv, OpenInv, Agrees, Cached, Txn, TopSector
<1>5. StepInv'
  <2>1. \A p, n : Facts(p, n) => Facts(p, n)'
    BY <1>1, FactsSame
  <2> QED
    BY <2>1, <1>1 DEF StoreInv, StepInv
<1> QED
  BY <1>2, <1>3, <1>4, <1>5 DEF StoreInv

\* Every step keeps the invariant.
LEMMA StoreSteps ==
    ASSUME StoreInv, [StoreNext]_svars
    PROVE  StoreInv'
<1>1. CASE \E x \in Data : Read(x) \/ \E v \in Values : Write(x, v)
  BY <1>1, ReadKeeps, WriteKeeps
<1>2. CASE StepWrite \/ StepSync \/ StepDone \/ Interrupt
  BY <1>2, StepWriteKeeps, SyncKeeps, DoneKeeps, InterruptKeeps
<1>3. CASE Open \/ Close \/ MigrateStart \/ Initialize \/ Commit
  BY <1>3, OpenKeeps, CloseKeeps, MigrateKeeps, InitializeKeeps, CommitKeeps
<1>4. CASE \E policy \in {Blank, Policy} : Reset(policy)
  BY <1>4, ResetKeeps
<1>5. CASE ImageInitialize \/ ImageOpen \/ Upgrade
  BY <1>5, ImageInitializeKeeps, ImageOpenKeeps, UpgradeKeeps
<1>6. CASE \E v \in Values : ImageCommit([x \in Data |-> v])
  <2>1. PICK v \in Values : ImageCommit([x \in Data |-> v])
    BY <1>6
  <2>2. [x \in Data |-> v] \in Image
    BY DEF Image, Plain
  <2> QED
    BY <2>1, <2>2, ImageCommitKeeps
<1>7. CASE UNCHANGED svars
  BY <1>7, StoreStutters
<1> QED
  BY <1>1, <1>2, <1>3, <1>4, <1>5, <1>6, <1>7 DEF StoreNext

\* The invariant of the region and of the step under way: what the control
\* sectors say, what the home sectors hold, and what a cut may leave.
THEOREM FidoStoreInvariant == StoreSpec => []StoreInv
<1>1. StoreInit => StoreInv
  BY StoreStartsSafe
<1>2. StoreInv /\ [StoreNext]_svars => StoreInv'
  BY StoreSteps
<1> QED
  BY <1>1, <1>2, PTL DEF StoreSpec

\* Atomic: wherever a commit, a reset, a migration or an image commit is cut
\* off, a restart recovers the image from before the call or the one after it
\* (fv_fido_journal_open, fv_fido_store_open).
THEOREM FidoAtomic == StoreSpec => []Atomic
<1>1. StoreInv => Atomic
  BY DEF StoreInv, SafeInv, Safe, Atomic, Outcomes
<1> QED
  BY <1>1, FidoStoreInvariant, PTL

\* ReadsOwnWrites: in a transaction each sector reads as last written, from the
\* cache, its record or its place (j_sector, j_overlay_read).
THEOREM FidoReadsOwnWrites == StoreSpec => []ReadsOwnWrites
<1>1. StoreInv => ReadsOwnWrites
  BY SectorIs DEF StoreInv, OpenInv, ReadsOwnWrites
<1> QED
  BY <1>1, FidoStoreInvariant, PTL
=============================================================================
