------------------------ MODULE DeviceSessionProofs ------------------------
(***************************************************************************)
(* Proofs about a session shared by the two cores, for every number of bus *)
(* events, inputs, requests, batches and reports: nothing of an ended      *)
(* session reaches the host, a write that was acknowledged is stored, and  *)
(* a cancelled request leaves no session behind.                           *)
(***************************************************************************)
EXTENDS DeviceSession, SequenceTheorems, TLAPS

-----------------------------------------------------------------------------
(* Types *)

Mode == {"locked", "full", "passkeys", "readonly"}
StorageOps == {"lock", "status", "read", "write"}
Job == [op : StorageOps \cup UiOps \cup {"none", "fido"}, gen : Nat, mode : Mode]
Answers == [ok : BOOLEAN, gen : Nat, mode : Mode]
Command == [active : BOOLEAN, write : BOOLEAN, gen : Nat, left : Nat, batch : {"none", "pending", "ready"}]
Transmission == [scoped : BOOLEAN, private : BOOLEAN, gen : Nat, from : Nat, left : Nat]
Channel == [st : {"idle", "pending", "processing"}, private : BOOLEAN, cancelled : BOOLEAN, discard : BOOLEAN,
            lost : BOOLEAN, tx : Transmission]
Screen == [st : {"idle", "modal", "pending", "waiting"}, op : UiOps \cup {"none"}, mode : Mode, refresh : BOOLEAN]
Execution == [at : {"none", "ask", "dismiss", "verify", "verified", "engine", "finish", "captured"},
              secret : BOOLEAN, ok : BOOLEAN, locks : BOOLEAN, cut : BOOLEAN, output : BOOLEAN,
              from : Nat, gen : Nat, unlocked : BOOLEAN]
Requests == {"lock", "status"}
Step == [do : {"rpc", "send"}, op : Requests]
        \cup [do : {"clear", "await", "begun", "reply", "post", "completed"},
              op : {"none", "poll", "forget", "lock", "status", "read", "write"}]

FlagType ==
    /\ inval \in BOOLEAN /\ maint \in BOOLEAN /\ busy \in BOOLEAN /\ cancel \in BOOLEAN
    /\ done \in BOOLEAN /\ abort \in BOOLEAN /\ approved \in BOOLEAN /\ pending \in BOOLEAN
QueueType ==
    /\ cmdq \in Seq(Job) /\ Len(cmdq) <= 1 /\ stq \in Seq(Answers) /\ Len(stq) <= 1
    /\ uiq \in Seq(Mode) /\ Len(uiq) <= 1
Core0Type ==
    /\ todo \in Seq(Step) /\ answer \in Answers /\ cached \in Answers /\ msc \in Command
    /\ hid \in Channel /\ ui \in Screen
WorkerType ==
    /\ wpc \in {"idle", "io", "derive", "opened"} /\ ses \in [gen : Nat, mode : Mode] /\ pub = ses.gen
    /\ job \in Job /\ fido \in Execution /\ stored \in Nat
    /\ scratch \in [of : {"nothing", "host", "vault"}, gen : Nat]
DeviceType == FlagType /\ QueueType /\ Core0Type /\ WorkerType

-----------------------------------------------------------------------------
(* The inductive invariant *)

\* What core 0 still has to do: every request that is sent is awaited next,
\* and what ends a callback comes last.
Has(t, what) == \E i \in 1 .. Len(t) : t[i].do = what
Plans(t, do, op) == \E i \in 1 .. Len(t) : t[i] = Do(do, op)
Ends == {"begun", "reply", "post", "completed"}
InPlace(t, i) ==
    /\ t[i].do = "await" => i > 1 /\ t[i - 1].do = "send"
    /\ t[i].do = "send" => i < Len(t) /\ t[i + 1].do = "await"
    /\ t[i].do \in Ends => i = Len(t)
Planned(t) == \A i \in 1 .. Len(t) : InPlace(t, i)
Awaiting == todo # <<>> /\ Head(todo).do = "await"
PlanInv == IF Awaiting THEN Planned(Tail(todo)) ELSE Planned(todo)

\* Where a storage command or its answer is, and who waits for it.
Storing == cmdq # <<>> /\ Head(cmdq).op \in StorageOps
Direction == IF msc.write THEN "write" ELSE "read"
TokenInv ==
    /\ Storing \/ wpc = "io" \/ stq # <<>> => pending \/ Awaiting
    /\ pending => ~Awaiting /\ msc.active /\ msc.batch = "pending"
    /\ Storing => wpc # "io" /\ stq = <<>>
    /\ Storing => Head(cmdq).op \in (IF pending THEN {Direction} ELSE Requests)
    /\ wpc = "io" => pending /\ stq = <<>> /\ job.op = Direction

\* Which part of the device is busy with what.
UiJob == cmdq # <<>> /\ Head(cmdq).op \in UiOps
FidoJob == cmdq # <<>> /\ Head(cmdq).op = "fido"
BusyInv ==
    /\ UiJob \/ wpc \in {"derive", "opened"} \/ uiq # <<>> => maint /\ ui.st = "waiting" /\ ~Has(todo, "completed")
    /\ UiJob => wpc \notin {"derive", "opened"} /\ uiq = <<>>
    /\ wpc \in {"derive", "opened"} => uiq = <<>> /\ fido.at = "none"
    /\ Has(todo, "completed") => ui.st = "waiting"
    /\ Has(todo, "post") => ui.st = "pending" /\ ~busy
    /\ maint => ~busy /\ ~Has(todo, "reply")
    /\ FidoJob \/ fido.at # "none" \/ done => busy /\ ~Has(todo, "reply")
    /\ FidoJob => fido.at = "none" /\ ~done
    /\ done => fido.at = "none"
    /\ fido.at = "none" /\ ~done /\ ~Has(todo, "reply") => fido = NoFido

\* The batch of the command in progress, unless a wipe is still to come.
BatchInv ==
    /\ msc.active /\ ~msc.write => msc.left >= 1
    /\ ~msc.active => msc = NoCommand
    /\ Has(todo, "begun") => ~msc.active \/ Head(todo).do = "clear"
    /\ Has(todo, "rpc") \/ Has(todo, "send") \/ Has(todo, "await") => ~msc.active \/ Has(todo, "clear")
    /\ pending /\ (Storing \/ wpc = "io") /\ msc.write => scratch = HostData /\ stored + msc.left + 1 = Batches
    /\ pending /\ stq # <<>> =>
         (Head(stq).ok => IF msc.write THEN stored + msc.left = Batches ELSE scratch = Plain(Head(stq).gen))
    /\ Has(todo, "clear") \/
         /\ msc.batch = "pending" => pending
         /\ msc.batch = "none" /\ msc.write => stored = 0 /\ msc.left = Batches
         /\ msc.batch = "ready" /\ answer.ok =>
              IF msc.write THEN stored + msc.left = Batches ELSE scratch = Plain(answer.gen)

\* An answer of the present generation tells the truth about the session.
Truthful(r) == r.gen <= ses.gen /\ (r.gen = ses.gen /\ r.mode # "locked" => ses.mode # "locked")
AnswersInv == Truthful(answer) /\ Truthful(cached) /\ (stq # <<>> => Truthful(Head(stq)))

\* A session that a bus event ended is locked before the flag is forgotten.
LockSent == Plans(todo, "send", "lock") \/ (cmdq # <<>> /\ Head(cmdq).op = "lock")
DeadInv ==
    /\ ses.mode # "locked" /\ ses.gen \in dead => inval \/ LockSent
    /\ \A g \in dead : g \in Nat /\ (g <= ses.gen
                          \/ (g = ses.gen + 1 /\ inval /\ (wpc = "derive" \/ fido.at = "verify")))

\* Private output belongs to the session it is sent under.
OutputInv ==
    /\ fido.output =>
         /\ fido.at \in {"finish", "captured", "none"} /\ fido.from <= ses.gen
         /\ fido.from = ses.gen => ses.mode # "locked"
         /\ fido.at = "finish" => fido.cut \/ fido.from = ses.gen
         /\ fido.at \in {"captured", "none"} => fido.gen = fido.from
    /\ hid.tx.private =>
         /\ hid.tx.scoped /\ hid.tx.gen = hid.tx.from /\ hid.tx.from <= ses.gen
         /\ hid.tx.from = ses.gen => ses.mode # "locked"

\* A cancelled request that may lock has locked, or its lock is on the way.
CancelInv ==
    /\ FidoJob \/ fido.at # "none" \/ done => (hid.cancelled \/ (fido.locks /\ inval) => cancel)
    /\ fido.gen <= ses.gen
    /\ Has(todo, "reply") /\ Has(todo, "rpc") => ~busy
    /\ Has(todo, "reply") /\ hid.cancelled /\ fido.locks /\ fido.gen = ses.gen /\ ses.mode # "locked" =>
         LockSent \/ Plans(todo, "rpc", "lock")

DeviceInv ==
    /\ DeviceType /\ PlanInv /\ TokenInv /\ BusyInv /\ BatchInv /\ AnswersInv /\ DeadInv /\ OutputInv /\ CancelInv
    /\ breach = {}

-----------------------------------------------------------------------------
(* What core 0 has to do, as a sequence *)

\* Taking the next step of a callback: what is left to do was to do before.
LEMMA TailFacts ==
    ASSUME NEW t \in Seq(Step), t # <<>>
    PROVE  /\ Head(t) \in Step /\ Tail(t) \in Seq(Step)
           /\ \A w : Has(t, w) <=> Head(t).do = w \/ Has(Tail(t), w)
           /\ \A d, o : Plans(t, d, o) <=> Head(t) = Do(d, o) \/ Plans(Tail(t), d, o)
<1>1. Head(t) \in Step /\ Tail(t) \in Seq(Step) /\ Len(t) \in Nat \ {0} /\ Len(Tail(t)) = Len(t) - 1 /\ Head(t) = t[1]
    OBVIOUS
<1>2. \A i \in 1 .. Len(Tail(t)) : Tail(t)[i] = t[i + 1]
    OBVIOUS
<1>3. ASSUME NEW i \in 1 .. Len(t) PROVE i = 1 \/ (i - 1 \in 1 .. Len(Tail(t)) /\ t[i] = Tail(t)[i - 1])
    BY <1>1, <1>2
<1>4. ASSUME NEW i \in 1 .. Len(Tail(t)) PROVE i + 1 \in 1 .. Len(t) /\ t[i + 1] = Tail(t)[i]
    BY <1>1, <1>2
<1>5. ASSUME NEW w PROVE Has(t, w) <=> Head(t).do = w \/ Has(Tail(t), w)
  <2>1. ASSUME Has(t, w) PROVE Head(t).do = w \/ Has(Tail(t), w)
      BY <1>1, <1>3, <2>1 DEF Has
  <2>2. ASSUME Head(t).do = w PROVE Has(t, w)
      BY <1>1, <2>2 DEF Has
  <2>3. ASSUME Has(Tail(t), w) PROVE Has(t, w)
      BY <1>4, <2>3 DEF Has
  <2> QED BY <2>1, <2>2, <2>3
<1>6. ASSUME NEW d, NEW o PROVE Plans(t, d, o) <=> Head(t) = Do(d, o) \/ Plans(Tail(t), d, o)
  <2>1. ASSUME Plans(t, d, o) PROVE Head(t) = Do(d, o) \/ Plans(Tail(t), d, o)
      BY <1>1, <1>3, <2>1 DEF Plans
  <2>2. ASSUME Head(t) = Do(d, o) PROVE Plans(t, d, o)
      BY <1>1, <2>2 DEF Plans
  <2>3. ASSUME Plans(Tail(t), d, o) PROVE Plans(t, d, o)
      BY <1>4, <2>3 DEF Plans
  <2> QED BY <2>1, <2>2, <2>3
<1> QED BY <1>1, <1>5, <1>6

\* The steps put before the rest of a callback are done first.
LEMMA JoinFacts ==
    ASSUME NEW a \in Seq(Step), NEW b \in Seq(Step)
    PROVE  /\ a \o b \in Seq(Step)
           /\ \A w : Has(a \o b, w) <=> Has(a, w) \/ Has(b, w)
           /\ \A d, o : Plans(a \o b, d, o) <=> Plans(a, d, o) \/ Plans(b, d, o)
           /\ a # <<>> => a \o b # <<>> /\ Head(a \o b) = Head(a)
           /\ a = <<>> => a \o b = b
<1>1. a \o b \in Seq(Step) /\ Len(a \o b) = Len(a) + Len(b) /\ Len(a) \in Nat /\ Len(b) \in Nat
    OBVIOUS
<1>2. \A i \in 1 .. Len(a) + Len(b) : (a \o b)[i] = IF i <= Len(a) THEN a[i] ELSE b[i - Len(a)]
    OBVIOUS
<1>3. ASSUME NEW i \in 1 .. Len(a \o b)
      PROVE (i \in 1 .. Len(a) /\ (a \o b)[i] = a[i]) \/ (i - Len(a) \in 1 .. Len(b) /\ (a \o b)[i] = b[i - Len(a)])
    BY <1>1, <1>2
<1>4. ASSUME NEW i \in 1 .. Len(a) PROVE i \in 1 .. Len(a \o b) /\ (a \o b)[i] = a[i]
    BY <1>1, <1>2
<1>5. ASSUME NEW i \in 1 .. Len(b) PROVE i + Len(a) \in 1 .. Len(a \o b) /\ (a \o b)[i + Len(a)] = b[i]
    BY <1>1, <1>2
<1>6. ASSUME NEW w PROVE Has(a \o b, w) <=> Has(a, w) \/ Has(b, w)
  <2>1. ASSUME Has(a \o b, w) PROVE Has(a, w) \/ Has(b, w)
      BY <1>3, <2>1 DEF Has
  <2>2. ASSUME Has(a, w) PROVE Has(a \o b, w)
      BY <1>4, <2>2 DEF Has
  <2>3. ASSUME Has(b, w) PROVE Has(a \o b, w)
      BY <1>5, <2>3 DEF Has
  <2> QED BY <2>1, <2>2, <2>3
<1>7. ASSUME NEW d, NEW o PROVE Plans(a \o b, d, o) <=> Plans(a, d, o) \/ Plans(b, d, o)
  <2>1. ASSUME Plans(a \o b, d, o) PROVE Plans(a, d, o) \/ Plans(b, d, o)
      BY <1>3, <2>1 DEF Plans
  <2>2. ASSUME Plans(a, d, o) PROVE Plans(a \o b, d, o)
      BY <1>4, <2>2 DEF Plans
  <2>3. ASSUME Plans(b, d, o) PROVE Plans(a \o b, d, o)
      BY <1>5, <2>3 DEF Plans
  <2> QED BY <2>1, <2>2, <2>3
<1>8. ASSUME a # <<>> PROVE a \o b # <<>> /\ Head(a \o b) = Head(a)
    BY <1>1, <1>2, <1>8
<1>9. ASSUME a = <<>> PROVE a \o b = b
    BY <1>9
<1> QED BY <1>1, <1>6, <1>7, <1>8, <1>9

\* What is left of a plan after its first step.
LEMMA PlanTail ==
    ASSUME NEW t \in Seq(Step), t # <<>>, Planned(t)
    PROVE  /\ Head(t).do # "await"
           /\ Head(t).do # "send" => Planned(Tail(t)) /\ (Tail(t) # <<>> => Head(Tail(t)).do # "await")
           /\ Head(t).do = "send" =>
                Tail(t) # <<>> /\ Head(Tail(t)).do = "await" /\ Planned(Tail(Tail(t)))
           /\ Head(t).do \in Ends => Tail(t) = <<>>
<1>1. Tail(t) \in Seq(Step) /\ Len(t) \in Nat \ {0} /\ Len(Tail(t)) = Len(t) - 1 /\ Head(t) = t[1]
    OBVIOUS
<1>2. \A i \in 1 .. Len(Tail(t)) : Tail(t)[i] = t[i + 1]
    OBVIOUS
<1>p. \A i \in 1 .. Len(t) : InPlace(t, i)
    BY DEF Planned
<1>f. InPlace(t, 1)
    BY <1>1, <1>p
<1>3. Head(t).do # "await"
    BY <1>1, <1>f DEF InPlace
<1>4. ASSUME Head(t).do # "send" PROVE Planned(Tail(t))
  <2> DEFINE u == Tail(t)
  <2>1. u \in Seq(Step) /\ Len(u) = Len(t) - 1 /\ \A i \in 1 .. Len(u) : u[i] = t[i + 1]
      BY <1>1, <1>2
  <2>0. SUFFICES ASSUME NEW i \in 1 .. Len(u) PROVE InPlace(u, i)
      BY DEF Planned
  <2> HIDE DEF u
  <2>2. i + 1 \in 1 .. Len(t) /\ i \in Nat \ {0}
      BY <1>1, <2>1
  <2>3. /\ t[i + 1].do = "await" => t[i].do = "send"
        /\ t[i + 1].do = "send" => i + 1 < Len(t) /\ t[i + 2].do = "await"
        /\ t[i + 1].do \in Ends => i + 1 = Len(t)
    <3>1. InPlace(t, i + 1)
        BY <1>p, <2>2
    <3>2. (i + 1) - 1 = i /\ (i + 1) + 1 = i + 2
        BY <2>2
    <3> QED BY <3>1, <3>2 DEF InPlace
  <2>4. ASSUME u[i].do = "await" PROVE i > 1 /\ u[i - 1].do = "send"
    <3>1. t[i].do = "send" /\ i # 1
        BY <1>1, <1>4, <2>1, <2>3, <2>4
    <3>2. i - 1 \in 1 .. Len(u) /\ (i - 1) + 1 = i
        BY <1>1, <2>1, <2>2, <3>1
    <3> QED BY <2>1, <3>1, <3>2
  <2>5. ASSUME u[i].do = "send" PROVE i < Len(u) /\ u[i + 1].do = "await"
    <3>1. i + 1 < Len(t) /\ t[i + 2].do = "await"
        BY <2>1, <2>3, <2>5
    <3>2. i + 1 \in 1 .. Len(u) /\ (i + 1) + 1 = i + 2
        BY <1>1, <2>1, <2>2, <3>1
    <3> QED BY <1>1, <2>1, <2>2, <3>1, <3>2
  <2>6. ASSUME u[i].do \in Ends PROVE i = Len(u)
    <3>1. t[i + 1].do \in Ends
        BY <2>1, <2>6
    <3>2. i + 1 = Len(t)
        BY <2>3, <3>1
    <3>3. Len(t) \in Nat /\ Len(u) = Len(t) - 1
        BY <1>1, <2>1
    <3> QED BY <2>2, <3>2, <3>3
  <2> QED BY <2>4, <2>5, <2>6 DEF InPlace
<1>5. ASSUME Head(t).do # "send", Tail(t) # <<>> PROVE Head(Tail(t)).do # "await"
  <2>1. 1 \in 1 .. Len(Tail(t)) /\ Head(Tail(t)) = Tail(t)[1]
      BY <1>1, <1>5
  <2>2. InPlace(Tail(t), 1)
      BY <1>4, <1>5, <2>1 DEF Planned
  <2> QED BY <2>1, <2>2 DEF InPlace
<1>6. ASSUME Head(t).do = "send" PROVE Tail(t) # <<>> /\ Head(Tail(t)).do = "await" /\ Planned(Tail(Tail(t)))
  <2>1. 1 < Len(t) /\ t[2].do = "await"
      BY <1>1, <1>6, <1>f DEF InPlace
  <2>2. Tail(t) # <<>> /\ Head(Tail(t)) = t[2]
    <3>0. Len(t) \in Nat /\ Len(Tail(t)) = Len(t) - 1
        BY <1>1
    <3>1. Len(Tail(t)) >= 1 /\ 1 \in 1 .. Len(Tail(t)) /\ 1 + 1 = 2
        BY <2>1, <3>0
    <3>3. Tail(t) # <<>>
      <4>1. SUFFICES ASSUME Tail(t) = <<>> PROVE FALSE
          OBVIOUS
      <4>2. Len(<<>>) = 0
          OBVIOUS
      <4>3. Len(Tail(t)) = 0
          BY <4>1, <4>2, Zenon
      <4>4. 0 >= 1
          BY <3>1, <4>3, Zenon
      <4> QED BY <4>4
    <3>2. Head(Tail(t)) = Tail(t)[1]
        BY <1>1, <3>1, <3>3
    <3> QED BY <1>2, <3>1, <3>2, <3>3
  <2> DEFINE u == Tail(Tail(t))
  <2>3. u \in Seq(Step) /\ Len(u) = Len(t) - 2 /\ \A i \in 1 .. Len(u) : u[i] = t[i + 2]
      BY <1>1, <1>2, <2>1, <2>2
  <2>4. SUFFICES ASSUME NEW i \in 1 .. Len(u) PROVE InPlace(u, i)
      BY <2>1, <2>2 DEF Planned
  <2> HIDE DEF u
  <2>5. i + 2 \in 1 .. Len(t) /\ i \in Nat \ {0}
      BY <2>3, <1>1
  <2>6. /\ t[i + 2].do = "await" => t[i + 1].do = "send"
        /\ t[i + 2].do = "send" => i + 2 < Len(t) /\ t[i + 3].do = "await"
        /\ t[i + 2].do \in Ends => i + 2 = Len(t)
    <3>1. InPlace(t, i + 2)
        BY <1>p, <2>5
    <3>2. (i + 2) - 1 = i + 1 /\ (i + 2) + 1 = i + 3
        BY <2>5
    <3> QED BY <3>1, <3>2 DEF InPlace
  <2>7. ASSUME u[i].do = "await" PROVE i > 1 /\ u[i - 1].do = "send"
    <3>1. t[i + 1].do = "send"
        BY <2>3, <2>6, <2>7
    <3>2. i # 1
        BY <2>1, <3>1
    <3>3. i - 1 \in 1 .. Len(u) /\ (i - 1) + 2 = i + 1
        BY <1>1, <2>3, <2>5, <3>2
    <3> QED BY <2>3, <3>1, <3>3
  <2>8. ASSUME u[i].do = "send" PROVE i < Len(u) /\ u[i + 1].do = "await"
    <3>1. i + 2 < Len(t) /\ t[i + 3].do = "await"
        BY <2>3, <2>6, <2>8
    <3>2. i + 1 \in 1 .. Len(u) /\ (i + 1) + 2 = i + 3
        BY <1>1, <2>3, <2>5, <3>1
    <3> QED BY <1>1, <2>3, <2>5, <3>1, <3>2
  <2>9. ASSUME u[i].do \in Ends PROVE i = Len(u)
    <3>1. t[i + 2].do \in Ends
        BY <2>3, <2>9
    <3>2. i + 2 = Len(t)
        BY <2>6, <3>1
    <3>3. Len(t) \in Nat /\ Len(u) = Len(t) - 2
        BY <1>1, <2>3
    <3> QED BY <2>5, <3>2, <3>3
  <2> QED BY <2>7, <2>8, <2>9 DEF InPlace
<1>7. ASSUME Head(t).do \in Ends PROVE Tail(t) = <<>>
  <2>1. Len(t) = 1
      BY <1>1, <1>7, <1>f DEF InPlace
  <2>2. Len(Tail(t)) = 0
      BY <1>1, <2>1
  <2> QED BY <1>1, <2>2, EmptySeq
<1> QED BY <1>3, <1>4, <1>5, <1>6, <1>7

\* Two plans one after the other, the first of which ends no callback.
LEMMA PlanJoin ==
    ASSUME NEW a \in Seq(Step), NEW b \in Seq(Step), Planned(a), Planned(b), \A w \in Ends : ~Has(a, w)
    PROVE  Planned(a \o b)
<1> DEFINE c == a \o b
<1>1. Len(c) = Len(a) + Len(b) /\ Len(a) \in Nat /\ Len(b) \in Nat
    OBVIOUS
<1>2. \A i \in 1 .. Len(a) + Len(b) : c[i] = IF i <= Len(a) THEN a[i] ELSE b[i - Len(a)]
    OBVIOUS
<1>3. SUFFICES ASSUME NEW i \in 1 .. Len(c) PROVE InPlace(c, i)
    BY DEF Planned
<1> HIDE DEF c
<1>4. CASE i <= Len(a)
  <2>1. c[i] = a[i] /\ i \in 1 .. Len(a) /\ InPlace(a, i)
      BY <1>1, <1>2, <1>4 DEF Planned
  <2>2. /\ a[i].do = "await" => i > 1 /\ a[i - 1].do = "send"
        /\ a[i].do = "send" => i < Len(a) /\ a[i + 1].do = "await"
      BY <2>1 DEF InPlace
  <2>3. a[i].do \notin Ends
      BY <2>1 DEF Has
  <2>4. i > 1 => c[i - 1] = a[i - 1]
      BY <1>1, <1>2, <1>4
  <2>5. i < Len(a) => c[i + 1] = a[i + 1] /\ i < Len(c)
      BY <1>1, <1>2, <1>4
  <2> QED BY <2>1, <2>2, <2>3, <2>4, <2>5 DEF InPlace
<1>5. CASE i > Len(a)
  <2> DEFINE j == i - Len(a)
  <2>1. c[i] = b[j] /\ j \in 1 .. Len(b)
      BY <1>1, <1>2, <1>5
  <2>2. InPlace(b, j)
      BY <2>1 DEF Planned
  <2>3. j > 1 => c[i - 1] = b[j - 1] /\ i > 1
    <3>1. j > 1 => i - 1 \in 1 .. Len(a) + Len(b) /\ ~(i - 1 <= Len(a)) /\ (i - 1) - Len(a) = j - 1 /\ i > 1
        BY <1>1, <1>5
    <3> QED BY <1>2, <3>1
  <2>4. j < Len(b) => c[i + 1] = b[j + 1] /\ i < Len(c)
    <3>1. j < Len(b) => i + 1 \in 1 .. Len(a) + Len(b) /\ ~(i + 1 <= Len(a)) /\ (i + 1) - Len(a) = j + 1 /\ i < Len(c)
        BY <1>1, <1>5
    <3> QED BY <1>2, <3>1
  <2>5. j = Len(b) => i = Len(c)
      BY <1>1
  <2> HIDE DEF j
  <2> QED BY <2>1, <2>2, <2>3, <2>4, <2>5 DEF InPlace
<1> QED BY <1>1, <1>4, <1>5

\* A plan of one step.
LEMMA OneStep ==
    ASSUME NEW a \in Step
    PROVE  /\ <<a>> \in Seq(Step) /\ <<a>> # <<>> /\ Head(<<a>>) = a
           /\ \A w : Has(<<a>>, w) <=> a.do = w
           /\ \A d, o : Plans(<<a>>, d, o) <=> a = Do(d, o)
           /\ a.do \notin {"await", "send"} => Planned(<<a>>)
<1> DEFINE p == <<a>>
<1>1. p \in Seq(Step) /\ p # <<>> /\ Head(p) = a
    OBVIOUS
<1>2. Len(p) = 1 /\ 1 .. 1 = {1}
    OBVIOUS
<1>3. p[1] = a
    OBVIOUS
<1>4. 1 .. Len(p) = {1}
    BY <1>2
<1> HIDE DEF p
<1>5. \A w : Has(p, w) <=> a.do = w
    BY <1>3, <1>4, Zenon DEF Has
<1>6. \A d, o : Plans(p, d, o) <=> a = Do(d, o)
    BY <1>3, <1>4, Zenon DEF Plans
<1>7. ASSUME a.do \notin {"await", "send"} PROVE Planned(p)
  <2>1. InPlace(p, 1)
      BY <1>2, <1>3, <1>7 DEF InPlace
  <2> QED BY <1>4, <2>1, Zenon DEF Planned
<1> QED BY <1>1, <1>5, <1>6, <1>7, Zenon DEF p

\* A plan of two steps: a request and its answer, or neither.
LEMMA TwoSteps ==
    ASSUME NEW a \in Step, NEW b \in Step
    PROVE  /\ <<a, b>> \in Seq(Step) /\ <<a, b>> # <<>> /\ Head(<<a, b>>) = a
           /\ \A w : Has(<<a, b>>, w) <=> a.do = w \/ b.do = w
           /\ \A d, o : Plans(<<a, b>>, d, o) <=> a = Do(d, o) \/ b = Do(d, o)
           /\ (a.do = "send" /\ b.do = "await") => Planned(<<a, b>>)
           /\ (a.do \notin {"await", "send"} \cup Ends /\ b.do \notin {"await", "send"}) => Planned(<<a, b>>)
<1> DEFINE p == <<a, b>>
<1>1. p \in Seq(Step) /\ p # <<>> /\ Head(p) = a
    OBVIOUS
<1>2. Len(p) = 2 /\ 1 .. 2 = {1, 2}
    OBVIOUS
<1>3. p[1] = a /\ p[2] = b
    OBVIOUS
<1>4. 1 .. Len(p) = {1, 2}
    BY <1>2
<1> HIDE DEF p
<1>5. \A w : Has(p, w) <=> a.do = w \/ b.do = w
    BY <1>3, <1>4, Zenon DEF Has
<1>6. \A d, o : Plans(p, d, o) <=> a = Do(d, o) \/ b = Do(d, o)
    BY <1>3, <1>4, Zenon DEF Plans
<1>7. ASSUME (a.do = "send" /\ b.do = "await") PROVE Planned(p)
  <2>1. InPlace(p, 1) /\ InPlace(p, 2)
      BY <1>2, <1>3, <1>7 DEF InPlace, Ends
  <2> QED BY <1>4, <2>1, Zenon DEF Planned
<1>8. ASSUME (a.do \notin {"await", "send"} \cup Ends /\ b.do \notin {"await", "send"}) PROVE Planned(p)
  <2>1. InPlace(p, 1) /\ InPlace(p, 2)
      BY <1>2, <1>3, <1>8 DEF InPlace
  <2> QED BY <1>4, <2>1, Zenon DEF Planned
<1> QED BY <1>1, <1>5, <1>6, <1>7, <1>8, Zenon DEF p

\* A plan of three steps.
LEMMA ThreeSteps ==
    ASSUME NEW a \in Step, NEW b \in Step, NEW c \in Step
    PROVE  /\ <<a, b, c>> \in Seq(Step) /\ <<a, b, c>> # <<>> /\ Head(<<a, b, c>>) = a
           /\ \A w : Has(<<a, b, c>>, w) <=> a.do = w \/ b.do = w \/ c.do = w
           /\ \A d, o : Plans(<<a, b, c>>, d, o) <=> a = Do(d, o) \/ b = Do(d, o) \/ c = Do(d, o)
           /\ (a.do = "send" /\ b.do = "await" /\ c.do \notin {"await", "send"}) => Planned(<<a, b, c>>)
           /\ (a.do \notin {"await", "send"} \cup Ends /\ b.do \notin {"await", "send"} \cup Ends /\ c.do \notin {"await", "send"}) => Planned(<<a, b, c>>)
<1> DEFINE p == <<a, b, c>>
<1>1. p \in Seq(Step) /\ p # <<>> /\ Head(p) = a
    OBVIOUS
<1>2. Len(p) = 3 /\ 1 .. 3 = {1, 2, 3}
    OBVIOUS
<1>3. p[1] = a /\ p[2] = b /\ p[3] = c
    OBVIOUS
<1>4. 1 .. Len(p) = {1, 2, 3}
    BY <1>2
<1> HIDE DEF p
<1>5. \A w : Has(p, w) <=> a.do = w \/ b.do = w \/ c.do = w
    BY <1>3, <1>4, Zenon DEF Has
<1>6. \A d, o : Plans(p, d, o) <=> a = Do(d, o) \/ b = Do(d, o) \/ c = Do(d, o)
    BY <1>3, <1>4, Zenon DEF Plans
<1>7. ASSUME (a.do = "send" /\ b.do = "await" /\ c.do \notin {"await", "send"}) PROVE Planned(p)
  <2>1. InPlace(p, 1) /\ InPlace(p, 2) /\ InPlace(p, 3)
      BY <1>2, <1>3, <1>7 DEF InPlace, Ends
  <2> QED BY <1>4, <2>1, Zenon DEF Planned
<1>8. ASSUME (a.do \notin {"await", "send"} \cup Ends /\ b.do \notin {"await", "send"} \cup Ends /\ c.do \notin {"await", "send"}) PROVE Planned(p)
  <2>1. InPlace(p, 1) /\ InPlace(p, 2) /\ InPlace(p, 3)
      BY <1>2, <1>3, <1>8 DEF InPlace
  <2> QED BY <1>4, <2>1, Zenon DEF Planned
<1> QED BY <1>1, <1>5, <1>6, <1>7, <1>8, Zenon DEF p

\* An empty plan.
LEMMA EmptyPlan ==
    /\ <<>> \in Seq(Step) /\ Planned(<<>>)
    /\ \A w : ~Has(<<>>, w)
    /\ \A d, o : ~Plans(<<>>, d, o)
<1>1. <<>> \in Seq(Step) /\ 1 .. Len(<<>>) = {}
    OBVIOUS
<1>2. Planned(<<>>)
    BY <1>1, Zenon DEF Planned
<1>3. \A w : ~Has(<<>>, w)
    BY <1>1, Zenon DEF Has
<1>4. \A d, o : ~Plans(<<>>, d, o)
    BY <1>1, Zenon DEF Plans
<1> QED BY <1>1, <1>2, <1>3, <1>4

\* fv_usb_storage_poll plans a lock when it takes the flag of a bus event, and nothing otherwise.
LEMMA PollFacts ==
    ASSUME FlagType
    PROVE  /\ Poll \in Seq(Step) /\ Planned(Poll) /\ \A w \in Ends : ~Has(Poll, w)
           /\ ~Has(Poll, "rpc")
           /\ \A o : ~Plans(Poll, "rpc", o)
           /\ Poll = <<>> \/ (Poll # <<>> /\ Head(Poll).do = "send" /\ Has(Poll, "clear") /\ Plans(Poll, "send", "lock"))
           /\ inval /\ ~busy /\ ~maint <=> Poll # <<>>
<1> DEFINE a == Do("send", "lock")
           b == Do("await", "poll")
           c == Do("clear", "poll")
<1>1. a \in Step /\ b \in Step /\ c \in Step /\ a.do = "send" /\ b.do = "await" /\ c.do = "clear" /\ a # Do("rpc", "lock")
      /\ \A o : a # Do("rpc", o) /\ b # Do("rpc", o) /\ c # Do("rpc", o)
    BY DEF Step, Do, Requests
<1>2. CASE inval /\ ~busy /\ ~maint
  <2>1. Poll = <<a, b, c>>
      BY <1>2, Zenon DEF Poll
  <2> HIDE DEF a, b, c
  <2>2. Planned(<<a, b, c>>) /\ <<a, b, c>> \in Seq(Step) /\ <<a, b, c>> # <<>> /\ Head(<<a, b, c>>) = a
      BY <1>1, ThreeSteps
  <2>3. \A w : Has(<<a, b, c>>, w) <=> a.do = w \/ b.do = w \/ c.do = w
      BY <1>1, ThreeSteps
  <2>4. \A d, o : Plans(<<a, b, c>>, d, o) <=> a = Do(d, o) \/ b = Do(d, o) \/ c = Do(d, o)
      BY <1>1, ThreeSteps
  <2>5. \A w \in Ends : ~Has(Poll, w)
      BY <1>1, <2>1, <2>3 DEF Ends
  <2>6. ~Has(Poll, "rpc") /\ Has(Poll, "clear")
      BY <1>1, <2>1, <2>3
  <2>7. (\A o : ~Plans(Poll, "rpc", o)) /\ Plans(Poll, "send", "lock")
      BY <1>1, <2>1, <2>4, Zenon DEF a
  <2> QED BY <1>1, <1>2, <2>1, <2>2, <2>5, <2>6, <2>7, Zenon
<1>3. CASE ~(inval /\ ~busy /\ ~maint)
  <2>1. Poll = <<>>
      BY <1>3, Zenon DEF Poll
  <2> QED BY <1>3, <2>1, EmptyPlan, Zenon
<1> QED BY <1>2, <1>3

-----------------------------------------------------------------------------
(* What each part of the invariant depends on *)

\* A step that leaves alone the state that a part of the invariant is about.
LEMMA Frames ==
    /\ FlagType /\ UNCHANGED <<inval, maint, busy, cancel, done, abort, approved, pending>> => FlagType'
    /\ QueueType /\ UNCHANGED queues => QueueType'
    /\ Core0Type /\ UNCHANGED <<todo, answer, cached, msc, hid, ui>> => Core0Type'
    /\ WorkerType /\ UNCHANGED <<wpc, ses, pub, job, fido, stored, scratch>> => WorkerType'
    /\ PlanInv /\ UNCHANGED todo => PlanInv'
    /\ TokenInv /\ UNCHANGED <<cmdq, wpc, stq, pending, todo, msc, job>> => TokenInv'
    /\ BusyInv /\ UNCHANGED <<cmdq, wpc, uiq, maint, ui, todo, busy, fido, done>> => BusyInv'
    /\ BatchInv /\ UNCHANGED <<msc, todo, pending, cmdq, wpc, scratch, stored, stq, answer>> => BatchInv'
    /\ AnswersInv /\ UNCHANGED <<ses, answer, cached, stq>> => AnswersInv'
    /\ DeadInv /\ UNCHANGED <<ses, dead, inval, todo, cmdq, wpc, fido>> => DeadInv'
    /\ OutputInv /\ UNCHANGED <<fido, ses, hid>> => OutputInv'
    /\ CancelInv /\ UNCHANGED <<cmdq, fido, done, hid, inval, cancel, todo, busy, ses>> => CancelInv'
<1>1. FlagType /\ UNCHANGED <<inval, maint, busy, cancel, done, abort, approved, pending>> => FlagType'
    BY DEF FlagType
<1>2. QueueType /\ UNCHANGED queues => QueueType'
    BY DEF QueueType, queues
<1>3. Core0Type /\ UNCHANGED <<todo, answer, cached, msc, hid, ui>> => Core0Type'
    BY DEF Core0Type
<1>4. WorkerType /\ UNCHANGED <<wpc, ses, pub, job, fido, stored, scratch>> => WorkerType'
    BY DEF WorkerType
<1>5. PlanInv /\ UNCHANGED todo => PlanInv'
    BY DEF PlanInv, Awaiting
<1>6. TokenInv /\ UNCHANGED <<cmdq, wpc, stq, pending, todo, msc, job>> => TokenInv'
    BY DEF TokenInv, Storing, Awaiting, Direction
<1>7. BusyInv /\ UNCHANGED <<cmdq, wpc, uiq, maint, ui, todo, busy, fido, done>> => BusyInv'
    BY DEF BusyInv, UiJob, FidoJob
<1>8. BatchInv /\ UNCHANGED <<msc, todo, pending, cmdq, wpc, scratch, stored, stq, answer>> => BatchInv'
    BY DEF BatchInv, Storing
<1>9. AnswersInv /\ UNCHANGED <<ses, answer, cached, stq>> => AnswersInv'
    BY DEF AnswersInv, Truthful
<1>10. DeadInv /\ UNCHANGED <<ses, dead, inval, todo, cmdq, wpc, fido>> => DeadInv'
    BY DEF DeadInv, LockSent
<1>11. OutputInv /\ UNCHANGED <<fido, ses, hid>> => OutputInv'
    BY DEF OutputInv
<1>12. CancelInv /\ UNCHANGED <<cmdq, fido, done, hid, inval, cancel, todo, busy, ses>> => CancelInv'
    BY DEF CancelInv, FidoJob, LockSent
<1> QED BY <1>1, <1>2, <1>3, <1>4, <1>5, <1>6, <1>7, <1>8, <1>9, <1>10, <1>11, <1>12

-----------------------------------------------------------------------------
(* Core 0: requests to the worker *)

\* A bus event (the USB interrupt).
LEMMA BusEventStep ==
    ASSUME DeviceInv, BusEvent
    PROVE  DeviceInv'
<1>1. QueueType' /\ WorkerType' /\ PlanInv' /\ TokenInv' /\ BatchInv' /\ AnswersInv'
    BY Frames DEF DeviceInv, DeviceType, BusEvent, mailbox, queues, storage, worker, history
<1>2. FlagType'
    BY DEF DeviceInv, DeviceType, BusEvent, FlagType, mailbox, queues, storage, worker, history
<1>3. Core0Type'
    BY DEF DeviceInv, DeviceType, BusEvent, Core0Type, Channel, Screen, mailbox, queues, storage, worker, history
<1>4. BusyInv'
    BY DEF DeviceInv, DeviceType, BusEvent, BusyInv, UiJob, FidoJob, Core0Type, Screen, mailbox, queues, storage, worker, history
<1>5. DeadInv'
    BY DEF DeviceInv, DeviceType, BusEvent, DeadInv, LockSent, Ended, WorkerType, mailbox, queues, storage, worker, history
<1>6. OutputInv'
    BY DEF DeviceInv, DeviceType, BusEvent, OutputInv, Core0Type, Channel, mailbox, queues, storage, worker, history
<1>7. CancelInv'
    BY DEF DeviceInv, DeviceType, BusEvent, CancelInv, FidoJob, LockSent, Core0Type, Channel, mailbox, queues, storage, worker, history
<1>8. breach' = {}
    BY DEF DeviceInv, BusEvent, mailbox, queues, storage, worker, history
<1> QED BY <1>1, <1>2, <1>3, <1>4, <1>5, <1>6, <1>7, <1>8 DEF DeviceInv, DeviceType

\* Core 0 waits for an outstanding batch (fv_usb_async_wait).
LEMMA WaitBatchStep ==
    ASSUME DeviceInv, WaitBatch
    PROVE  DeviceInv'
<1>t. Head(todo).do \in {"clear", "send"} => Has(todo, Head(todo).do) /\ ~Awaiting
    BY TailFacts DEF DeviceInv, DeviceType, Core0Type, Awaiting, WaitBatch
<1>1. Core0Type' /\ WorkerType' /\ PlanInv' /\ BusyInv' /\ DeadInv' /\ OutputInv' /\ CancelInv'
    BY Frames DEF DeviceInv, DeviceType, WaitBatch, mailbox, queues, storage, worker, history
<1>2. FlagType'
    BY DEF DeviceInv, DeviceType, WaitBatch, FlagType, mailbox, queues, storage, worker, history
<1>3. QueueType'
    BY DEF DeviceInv, DeviceType, WaitBatch, QueueType, mailbox, queues, storage, worker, history
<1>4. TokenInv'
    BY <1>t DEF DeviceInv, DeviceType, WaitBatch, TokenInv, Storing, Awaiting, Direction, Requests, StorageOps, mailbox, queues, storage, worker, history
<1>5. BatchInv'
    BY <1>t DEF DeviceInv, DeviceType, WaitBatch, BatchInv, Storing, TokenInv, mailbox, queues, storage, worker, history
<1>6. AnswersInv'
    BY DEF DeviceInv, DeviceType, WaitBatch, AnswersInv, Truthful, mailbox, queues, storage, worker, history
<1>7. breach' = {}
    BY DEF DeviceInv, WaitBatch, mailbox, queues, storage, worker, history
<1> QED BY <1>1, <1>2, <1>3, <1>4, <1>5, <1>6, <1>7 DEF DeviceInv, DeviceType

\* clear_pipeline of usb_storage.c.
LEMMA ClearStep ==
    ASSUME DeviceInv, Clear
    PROVE  DeviceInv'
<1>t. todo \in Seq(Step) /\ todo # <<>> /\ todo' = Tail(todo) /\ Head(todo).do = "clear" /\ ~Awaiting /\ Planned(todo)
    BY DEF DeviceInv, DeviceType, Core0Type, PlanInv, Awaiting, Clear
<1>h. \A w : w # "clear" => (Has(todo', w) <=> Has(todo, w))
    BY <1>t, TailFacts
<1>p. \A d, o : d # "clear" => (Plans(todo', d, o) <=> Plans(todo, d, o))
    BY <1>t, TailFacts DEF Do
<1>a. Planned(todo') /\ ~Awaiting'
    BY <1>t, PlanTail DEF Awaiting
<1>n. ~pending /\ ~Storing /\ wpc # "io" /\ stq = <<>>
    BY <1>t DEF DeviceInv, TokenInv, Clear, PipelineFree
<1>1. FlagType' /\ QueueType' /\ OutputInv'
    BY Frames DEF DeviceInv, DeviceType, Clear, mailbox, queues, storage, worker, history
<1>2. Core0Type'
    BY <1>t, TailFacts DEF DeviceInv, DeviceType, Clear, Core0Type, Screen, Command, NoCommand, NotReady, Response, Locked, Answers, Mode, mailbox, queues, storage, worker, history
<1>3. WorkerType'
    BY DEF DeviceInv, DeviceType, Clear, WorkerType, Wiped, mailbox, queues, storage, worker, history
<1>4. PlanInv'
    BY <1>a DEF DeviceInv, DeviceType, Clear, PlanInv, Awaiting, mailbox, queues, storage, worker, history
<1>5. TokenInv'
    BY <1>a, <1>n DEF DeviceInv, DeviceType, Clear, TokenInv, Storing, Awaiting, Direction, Requests, StorageOps, mailbox, queues, storage, worker, history
<1>6. BusyInv'
    BY <1>h DEF DeviceInv, DeviceType, Clear, BusyInv, UiJob, FidoJob, Core0Type, Screen, mailbox, queues, storage, worker, history
<1>7. BatchInv'
    BY <1>n DEF DeviceInv, DeviceType, Clear, BatchInv, Storing, NoCommand, mailbox, queues, storage, worker, history
<1>8. AnswersInv'
    BY DEF DeviceInv, DeviceType, Clear, AnswersInv, Truthful, NotReady, Response, Locked, WorkerType, mailbox, queues, storage, worker, history
<1>9. DeadInv'
    BY <1>p DEF DeviceInv, DeviceType, Clear, DeadInv, LockSent, mailbox, queues, storage, worker, history
<1>10. CancelInv'
    BY <1>h, <1>p DEF DeviceInv, DeviceType, Clear, CancelInv, FidoJob, LockSent, mailbox, queues, storage, worker, history
<1>11. breach' = {}
    BY DEF DeviceInv, Clear, mailbox, queues, storage, worker, history
<1> QED BY <1>1, <1>2, <1>3, <1>4, <1>5, <1>6, <1>7, <1>8, <1>9, <1>10, <1>11 DEF DeviceInv, DeviceType

\* transact puts a request in the queue.
LEMMA SendStep ==
    ASSUME DeviceInv, Send
    PROVE  DeviceInv'
<1>t. todo \in Seq(Step) /\ todo # <<>> /\ todo' = Tail(todo) /\ Head(todo).do = "send" /\ ~Awaiting /\ Planned(todo)
    BY DEF DeviceInv, DeviceType, Core0Type, PlanInv, Awaiting, Send
<1>o. Head(todo) \in Step /\ Head(todo).op \in Requests
    BY <1>t, TailFacts DEF Step
<1>h. \A w : w # "send" => (Has(todo', w) <=> Has(todo, w))
    BY <1>t, TailFacts
<1>s. \A w : Has(todo', w) => Has(todo, w)
    BY <1>t, TailFacts
<1>p. \A d, o : d # "send" => (Plans(todo', d, o) <=> Plans(todo, d, o))
    BY <1>t, TailFacts DEF Do
<1>l. Plans(todo, "send", "lock") => Head(todo).op = "lock" \/ Plans(todo', "send", "lock")
    BY <1>t, TailFacts DEF Do
<1>a. Awaiting' /\ Planned(Tail(todo'))
    BY <1>t, PlanTail DEF Awaiting
<1>n. ~pending /\ ~Storing /\ wpc # "io" /\ stq = <<>>
    BY <1>t DEF DeviceInv, TokenInv, Send, PipelineFree
<1>c. cmdq = <<>> /\ cmdq' # <<>> /\ Head(cmdq').op = Head(todo).op /\ Head(cmdq').op \in Requests
    BY <1>o DEF Send, NoJob
<1>1. FlagType' /\ WorkerType' /\ AnswersInv' /\ OutputInv'
    BY Frames DEF DeviceInv, DeviceType, Send, mailbox, queues, storage, worker, history
<1>2. QueueType'
    BY <1>o DEF DeviceInv, DeviceType, Send, QueueType, Job, NoJob, Requests, StorageOps, Mode, mailbox, queues, storage, worker, history
<1>3. Core0Type'
    BY <1>t, TailFacts DEF DeviceInv, DeviceType, Send, Core0Type, mailbox, queues, storage, worker, history
<1>4. PlanInv'
    BY <1>a DEF DeviceInv, DeviceType, Send, PlanInv, Awaiting, mailbox, queues, storage, worker, history
<1>5. TokenInv'
    BY <1>a, <1>n, <1>c DEF DeviceInv, DeviceType, Send, TokenInv, Storing, Awaiting, Direction, Requests, StorageOps, mailbox, queues, storage, worker, history
<1>6. BusyInv'
    BY <1>h, <1>s, <1>c DEF DeviceInv, DeviceType, Send, BusyInv, UiJob, FidoJob, Requests, UiOps, mailbox, queues, storage, worker, history
<1>7. BatchInv'
    BY <1>t, <1>h, <1>s, <1>n DEF DeviceInv, DeviceType, Send, BatchInv, Storing, mailbox, queues, storage, worker, history
<1>8. DeadInv'
    BY <1>l, <1>c DEF DeviceInv, DeviceType, Send, DeadInv, LockSent, mailbox, queues, storage, worker, history
<1>9. CancelInv'
    BY <1>h, <1>p, <1>l, <1>c DEF DeviceInv, DeviceType, Send, CancelInv, FidoJob, LockSent, Requests, mailbox, queues, storage, worker, history
<1>10. breach' = {}
    BY DEF DeviceInv, Send, mailbox, queues, storage, worker, history
<1> QED BY <1>1, <1>2, <1>3, <1>4, <1>5, <1>6, <1>7, <1>8, <1>9, <1>10 DEF DeviceInv, DeviceType

\* suppress_invalidated: what it returns is of the same type, and as truthful.
LEMMA SuppressedFacts ==
    ASSUME WorkerType, NEW r \in Answers, Truthful(r)
    PROVE  Suppressed(r) \in Answers /\ Truthful(Suppressed(r)) /\ (Suppressed(r).ok => Suppressed(r) = r)
<1> DEFINE q == [NotReady EXCEPT !.gen = r.gen]
<1>1. q \in Answers /\ q.gen = r.gen /\ q.mode = "locked" /\ q.ok = FALSE
    BY DEF NotReady, Response, Locked, Answers, Mode
<1>2. Suppressed(r) = q \/ Suppressed(r) = r
    BY DEF Suppressed
<1> HIDE DEF q
<1>3. Truthful(q)
    BY <1>1 DEF Truthful
<1> QED BY <1>1, <1>2, <1>3

\* An answer that nothing has filled yet.
LEMMA NotReadyFacts ==
    ASSUME WorkerType
    PROVE  NotReady \in Answers /\ Truthful(NotReady) /\ ~NotReady.ok
BY DEF NotReady, Response, Locked, Answers, Mode, Truthful, WorkerType

\* fv_usb_storage_poll takes the flag only when it plans a lock.
LEMMA PollTaken ==
    ASSUME FlagType, PollTakes
    PROVE  inval' \in BOOLEAN /\ (inval' => inval) /\ (inval /\ ~inval' => Poll # <<>> /\ ~busy /\ ~maint)
BY PollFacts, Zenon DEF FlagType, PollTakes

\* transact takes the answer of the worker, and fv_usb_rpc publishes it.
LEMMA AwaitStep ==
    ASSUME DeviceInv, Await
    PROVE  DeviceInv'
<1>t. todo \in Seq(Step) /\ todo # <<>> /\ Head(todo).do = "await" /\ Awaiting /\ Planned(Tail(todo)) /\ Tail(todo) \in Seq(Step)
    BY TailFacts DEF DeviceInv, DeviceType, Core0Type, PlanInv, Awaiting, Await
<1>k. /\ Poll \in Seq(Step) /\ Planned(Poll) /\ (\A w \in Ends : ~Has(Poll, w)) /\ ~Has(Poll, "rpc") /\ (\A o : ~Plans(Poll, "rpc", o))
      /\ (Poll = <<>> \/ (Poll # <<>> /\ Head(Poll).do = "send" /\ Has(Poll, "clear") /\ Plans(Poll, "send", "lock")))
    BY PollFacts DEF DeviceInv, DeviceType
<1>c. (todo' = Tail(todo) /\ inval' = inval) \/ (todo' = Poll \o Tail(todo) /\ PollTakes)
    BY DEF Await
<1>i. inval' \in BOOLEAN /\ (inval' => inval) /\ (inval /\ ~inval' => Poll # <<>> /\ ~busy /\ ~maint /\ todo' = Poll \o Tail(todo))
  <2>1. inval \in BOOLEAN /\ (PollTakes => inval' \in BOOLEAN /\ (inval' => inval)
                                           /\ (inval /\ ~inval' => Poll # <<>> /\ ~busy /\ ~maint))
      BY PollTaken DEF DeviceInv, DeviceType, FlagType
  <2>2. CASE inval' = inval
      BY <2>1, <2>2
  <2>3. CASE todo' = Poll \o Tail(todo) /\ PollTakes
      BY <2>1, <2>3
  <2> QED BY <1>c, <2>2, <2>3
<1>j. todo' \in Seq(Step) /\ Planned(todo')
  <2>1. Poll \o Tail(todo) \in Seq(Step)
      BY <1>t, <1>k, JoinFacts
  <2>2. Planned(Poll \o Tail(todo))
      BY <1>t, <1>k, PlanJoin
  <2> QED BY <1>t, <1>c, <2>1, <2>2
<1>h. /\ \A w \in Ends \cup {"rpc"} : Has(todo', w) <=> Has(todo, w)
      /\ Has(todo, "clear") => Has(todo', "clear")
      /\ Has(todo', "send") \/ Has(todo', "await") => Has(todo', "clear") \/ Has(todo, "send") \/ Has(todo, "await")
      /\ Has(todo, "await")
  <2>1. \A w : Has(todo, w) <=> w = "await" \/ Has(Tail(todo), w)
      BY <1>t, TailFacts
  <2>2. \A w : Has(Poll \o Tail(todo), w) <=> Has(Poll, w) \/ Has(Tail(todo), w)
      BY <1>t, <1>k, JoinFacts
  <2>3. Poll = <<>> => Poll \o Tail(todo) = Tail(todo)
      BY <1>t, <1>k, JoinFacts
  <2> QED BY <1>c, <1>k, <2>1, <2>2, <2>3 DEF Ends
<1>p. /\ Plans(todo', "rpc", "lock") <=> Plans(todo, "rpc", "lock")
      /\ Plans(todo, "send", "lock") => Plans(todo', "send", "lock")
      /\ Poll # <<>> /\ todo' = Poll \o Tail(todo) => Plans(todo', "send", "lock")
  <2>1. \A d, o : d # "await" => (Plans(todo, d, o) <=> Plans(Tail(todo), d, o))
      BY <1>t, TailFacts DEF Do
  <2>2. \A d, o : Plans(Poll \o Tail(todo), d, o) <=> Plans(Poll, d, o) \/ Plans(Tail(todo), d, o)
      BY <1>t, <1>k, JoinFacts
  <2> QED BY <1>c, <1>k, <2>1, <2>2
<1>a. ~Awaiting'
    BY <1>j, PlanTail DEF Awaiting
<1>n. ~pending /\ ~Storing /\ wpc # "io"
    BY <1>t DEF DeviceInv, TokenInv, Await
<1>r. Head(stq) \in Answers /\ Truthful(Head(stq))
    BY DEF DeviceInv, DeviceType, QueueType, AnswersInv, Await
<1>s. Suppressed(Head(stq)) \in Answers /\ Truthful(Suppressed(Head(stq)))
    BY <1>r, SuppressedFacts DEF DeviceInv, DeviceType
<1>e. (answer' = answer /\ cached' = cached) \/ (answer' = Suppressed(Head(stq)) /\ cached' = answer')
    BY DEF Await
<1>m. ~msc.active \/ Has(todo', "clear")
    BY <1>h DEF DeviceInv, BatchInv
<1>1. WorkerType' /\ OutputInv'
    BY Frames DEF DeviceInv, DeviceType, Await, mailbox, queues, storage, worker, history
<1>2. FlagType'
    BY <1>i DEF DeviceInv, DeviceType, Await, FlagType, mailbox, queues, storage, worker, history
<1>3. QueueType'
    BY DEF DeviceInv, DeviceType, Await, QueueType, mailbox, queues, storage, worker, history
<1>4. Core0Type'
    BY <1>j, <1>e, <1>s DEF DeviceInv, DeviceType, Await, Core0Type, mailbox, queues, storage, worker, history
<1>5. PlanInv'
    BY <1>a, <1>j DEF DeviceInv, DeviceType, Await, PlanInv, Awaiting, mailbox, queues, storage, worker, history
<1>6. TokenInv'
    BY <1>a, <1>n DEF DeviceInv, DeviceType, Await, TokenInv, Storing, Awaiting, Direction, Requests, StorageOps, mailbox, queues, storage, worker, history
<1>7. BusyInv'
    BY <1>h DEF DeviceInv, DeviceType, Await, BusyInv, UiJob, FidoJob, Ends, mailbox, queues, storage, worker, history
<1>8. BatchInv'
    BY <1>t, <1>h, <1>n, <1>m DEF DeviceInv, DeviceType, Await, BatchInv, Storing, NoCommand, Ends, mailbox, queues, storage, worker, history
<1>9. AnswersInv'
    BY <1>e, <1>s DEF DeviceInv, DeviceType, Await, AnswersInv, Truthful, mailbox, queues, storage, worker, history
<1>10. DeadInv'
    BY <1>i, <1>p DEF DeviceInv, DeviceType, Await, DeadInv, LockSent, BusyInv, mailbox, queues, storage, worker, history
<1>11. CancelInv'
    BY <1>i, <1>h, <1>p DEF DeviceInv, DeviceType, Await, CancelInv, FidoJob, LockSent, Ends, mailbox, queues, storage, worker, history
<1>12. breach' = {}
    BY DEF DeviceInv, Await, mailbox, queues, storage, worker, history
<1> QED BY <1>1, <1>2, <1>3, <1>4, <1>5, <1>6, <1>7, <1>8, <1>9, <1>10, <1>11, <1>12 DEF DeviceInv, DeviceType

\* fv_usb_storage_poll finds that the bus was lost.
LEMMA StoragePollStep ==
    ASSUME DeviceInv, StoragePoll
    PROVE  DeviceInv'
<1>k. /\ todo = <<>> /\ todo' = Poll /\ Poll # <<>> /\ todo' \in Seq(Step) /\ Planned(todo') /\ (\A w \in Ends : ~Has(todo', w))
      /\ ~Has(todo', "rpc") /\ Head(todo').do = "send" /\ Has(todo', "clear") /\ Plans(todo', "send", "lock")
    BY PollFacts DEF DeviceInv, DeviceType, StoragePoll
<1>i. inval' \in BOOLEAN /\ ~busy /\ ~maint /\ (inval' => inval)
    BY PollFacts, Zenon DEF DeviceInv, DeviceType, FlagType, StoragePoll, PollTakes
<1>e. (\A w : ~Has(todo, w)) /\ (\A d, o : ~Plans(todo, d, o)) /\ ~Awaiting /\ ~Awaiting'
    BY <1>k, EmptyPlan DEF Awaiting
<1>1. QueueType' /\ WorkerType' /\ AnswersInv' /\ OutputInv'
    BY Frames DEF DeviceInv, DeviceType, StoragePoll, mailbox, queues, storage, worker, history
<1>2. FlagType'
    BY <1>i DEF DeviceInv, DeviceType, StoragePoll, FlagType, mailbox, queues, storage, worker, history
<1>3. Core0Type'
    BY <1>k DEF DeviceInv, DeviceType, StoragePoll, Core0Type, mailbox, queues, storage, worker, history
<1>4. PlanInv'
    BY <1>k, <1>e DEF DeviceInv, DeviceType, StoragePoll, PlanInv, Awaiting, mailbox, queues, storage, worker, history
<1>5. TokenInv'
    BY <1>e DEF DeviceInv, DeviceType, StoragePoll, TokenInv, Storing, Awaiting, Direction, Requests, StorageOps, mailbox, queues, storage, worker, history
<1>6. BusyInv'
    BY <1>k, <1>e DEF DeviceInv, DeviceType, StoragePoll, BusyInv, UiJob, FidoJob, Ends, mailbox, queues, storage, worker, history
<1>7. BatchInv'
    BY <1>k, <1>e DEF DeviceInv, DeviceType, StoragePoll, BatchInv, Storing, Ends, mailbox, queues, storage, worker, history
<1>8. DeadInv'
    BY <1>k, <1>i DEF DeviceInv, DeviceType, StoragePoll, DeadInv, LockSent, BusyInv, mailbox, queues, storage, worker, history
<1>9. CancelInv'
    BY <1>k, <1>i, <1>e DEF DeviceInv, DeviceType, StoragePoll, CancelInv, FidoJob, LockSent, Ends, mailbox, queues, storage, worker, history
<1>10. breach' = {}
    BY DEF DeviceInv, StoragePoll, mailbox, queues, storage, worker, history
<1> QED BY <1>1, <1>2, <1>3, <1>4, <1>5, <1>6, <1>7, <1>8, <1>9, <1>10 DEF DeviceInv, DeviceType

\* fv_usb_rpc: refused, answered from the cache, or sent.
LEMMA RpcStep ==
    ASSUME DeviceInv, Rpc
    PROVE  DeviceInv'
<1> DEFINE r == Head(todo).op
           z == <<Do("send", r), Do("await", r)>>
           x == Poll \o z
           Refused == (maint \/ (busy /\ r = "lock")) /\ answer' = NotReady /\ todo' = Tail(todo)
           Kept == inval' = inval /\ cancel' = cancel /\ hid' = hid /\ dead' = dead
           Raised == inval' = TRUE /\ cancel' = TRUE /\ hid' = [hid EXCEPT !.lost = TRUE] /\ dead' = Ended
           Cached == ~maint /\ busy /\ r = "status" /\ answer' = Suppressed(cached) /\ todo' = Tail(todo) /\ Kept
           Passed == ~maint /\ ~busy /\ todo' = x \o Tail(todo) /\ PollTakes /\ answer' = answer
                     /\ cancel' = cancel /\ hid' = hid /\ dead' = dead
<1>c. (Refused /\ maint /\ Kept) \/ (Refused /\ ~maint /\ busy /\ Raised) \/ Cached \/ Passed
    BY DEF Rpc
<1>t. /\ todo \in Seq(Step) /\ todo # <<>> /\ Head(todo).do = "rpc" /\ ~Awaiting /\ Planned(todo) /\ Tail(todo) \in Seq(Step)
      /\ Head(todo) \in Step /\ r \in Requests
    BY TailFacts DEF DeviceInv, DeviceType, Core0Type, PlanInv, Awaiting, Rpc, Step
<1>u. Planned(Tail(todo)) /\ (Tail(todo) # <<>> => Head(Tail(todo)).do # "await")
    BY <1>t, PlanTail
<1>k. /\ Poll \in Seq(Step) /\ Planned(Poll) /\ (\A w \in Ends : ~Has(Poll, w)) /\ ~Has(Poll, "rpc") /\ (\A o : ~Plans(Poll, "rpc", o))
      /\ (Poll = <<>> \/ (Poll # <<>> /\ Head(Poll).do = "send" /\ Has(Poll, "clear") /\ Plans(Poll, "send", "lock")))
    BY PollFacts DEF DeviceInv, DeviceType
<1>z. /\ z \in Seq(Step) /\ z # <<>> /\ Head(z).do = "send" /\ Planned(z)
      /\ \A w : Has(z, w) <=> w = "send" \/ w = "await"
      /\ Plans(z, "send", r)
  <2> DEFINE a == Do("send", r)
             b == Do("await", r)
  <2>1. a \in Step /\ b \in Step /\ a.do = "send" /\ b.do = "await"
      BY <1>t DEF Step, Do, Requests
  <2> HIDE DEF a, b
  <2>2. /\ <<a, b>> \in Seq(Step) /\ <<a, b>> # <<>> /\ Head(<<a, b>>) = a /\ Planned(<<a, b>>)
        /\ \A w : Has(<<a, b>>, w) <=> a.do = w \/ b.do = w
      BY <2>1, TwoSteps
  <2>3. \A d, o : Plans(<<a, b>>, d, o) <=> a = Do(d, o) \/ b = Do(d, o)
      BY <2>1, TwoSteps
  <2>4. a = Do("send", r) /\ b = Do("await", r)
      BY DEF a, b
  <2> QED BY <2>1, <2>2, <2>3, <2>4
<1> HIDE DEF r, z
<1>x. /\ x \in Seq(Step) /\ Planned(x) /\ x # <<>> /\ Head(x).do = "send" /\ (\A w \in Ends \cup {"rpc"} : ~Has(x, w))
      /\ Plans(x, "send", r) /\ (Poll # <<>> => Plans(x, "send", "lock"))
  <2>1. x \in Seq(Step) /\ (Poll # <<>> => x # <<>> /\ Head(x) = Head(Poll)) /\ (Poll = <<>> => x = z)
      BY <1>k, <1>z, JoinFacts
  <2>2. \A w : Has(x, w) <=> Has(Poll, w) \/ Has(z, w)
      BY <1>k, <1>z, JoinFacts
  <2>3. \A d, o : Plans(x, d, o) <=> Plans(Poll, d, o) \/ Plans(z, d, o)
      BY <1>k, <1>z, JoinFacts
  <2>4. Planned(x)
      BY <1>k, <1>z, PlanJoin
  <2> HIDE DEF x
  <2> QED BY <1>k, <1>z, <2>1, <2>2, <2>3, <2>4 DEF Ends
<1> HIDE DEF x
<1>y. /\ x \o Tail(todo) \in Seq(Step) /\ Planned(x \o Tail(todo)) /\ x \o Tail(todo) # <<>> /\ Head(x \o Tail(todo)).do = "send"
      /\ (\A w : Has(x \o Tail(todo), w) <=> Has(x, w) \/ Has(Tail(todo), w))
      /\ (\A d, o : Plans(x \o Tail(todo), d, o) <=> Plans(x, d, o) \/ Plans(Tail(todo), d, o))
  <2>1. Planned(x \o Tail(todo))
      BY <1>t, <1>u, <1>x, PlanJoin
  <2> QED BY <1>t, <1>x, <2>1, JoinFacts
<1>b. /\ \A w : Has(todo, w) <=> w = "rpc" \/ Has(Tail(todo), w)
      /\ \A d, o : Plans(todo, d, o) <=> Head(todo) = Do(d, o) \/ Plans(Tail(todo), d, o)
    BY <1>t, TailFacts
<1>d. todo' = Tail(todo) \/ (Passed /\ todo' = x \o Tail(todo))
    BY <1>c
<1>j. todo' \in Seq(Step) /\ Planned(todo') /\ ~Awaiting'
    BY <1>t, <1>u, <1>y, <1>d DEF Awaiting
<1>h. /\ \A w \in Ends : Has(todo', w) <=> Has(todo, w)
      /\ Has(todo', "rpc") => Has(todo, "rpc")
      /\ Has(todo, "clear") => Has(todo', "clear")
      /\ Has(todo, "rpc")
    BY <1>b, <1>d, <1>x, <1>y DEF Ends
<1>p. /\ Plans(todo, "send", "lock") => Plans(todo', "send", "lock")
      /\ Plans(todo, "rpc", "lock") => Plans(todo', "rpc", "lock") \/ r = "lock"
      /\ Passed => Plans(todo', "send", r) /\ (Poll # <<>> => Plans(todo', "send", "lock"))
  <2>1. \A o : Head(todo) # Do("send", o)
      BY <1>t DEF Do
  <2>2. Head(todo) = Do("rpc", "lock") => r = "lock"
      BY DEF Do, r
  <2> QED BY <1>b, <1>d, <1>x, <1>y, <2>1, <2>2
<1>w. Passed => inval' \in BOOLEAN /\ (inval' => inval) /\ (inval /\ ~inval' => Poll # <<>>)
    BY PollTaken DEF DeviceInv, DeviceType
<1>s. /\ Suppressed(cached) \in Answers /\ Truthful(Suppressed(cached)) /\ NotReady \in Answers /\ Truthful(NotReady)
    BY SuppressedFacts, NotReadyFacts DEF DeviceInv, DeviceType, Core0Type, AnswersInv
<1>e. answer' = answer \/ answer' = Suppressed(cached) \/ answer' = NotReady
    BY <1>c
<1>l. hid' = hid \/ hid' = [hid EXCEPT !.lost = TRUE]
    BY <1>c
<1>f. /\ inval' \in BOOLEAN /\ cancel' \in BOOLEAN /\ (cancel => cancel')
      /\ (inval' => inval \/ cancel') /\ (inval /\ ~inval' => Passed /\ Poll # <<>> /\ ~busy /\ ~maint)
      /\ dead' = dead \/ (dead' = Ended /\ inval')
  <2>0. inval \in BOOLEAN /\ cancel \in BOOLEAN
      BY DEF DeviceInv, DeviceType, FlagType
  <2>1. CASE Kept
      BY <2>0, <2>1
  <2>2. CASE Raised
      BY <2>2
  <2>3. CASE Passed
      BY <1>w, <2>0, <2>3
  <2> QED BY <1>c, <2>1, <2>2, <2>3
<1>q. r = "lock" => Passed \/ ~Has(todo, "reply")
  <2>1. Has(todo, "reply") => ~maint /\ ~busy
      BY <1>h DEF DeviceInv, BusyInv, CancelInv
  <2> QED BY <1>c, <2>1
<1>o. r = "lock" /\ Has(todo, "reply") => Plans(todo', "send", "lock")
    BY <1>p, <1>q
<1>g. pending' = pending /\ cmdq' = cmdq /\ wpc' = wpc /\ stq' = stq /\ msc' = msc /\ job' = job /\ uiq' = uiq /\ ui' = ui
      /\ maint' = maint /\ busy' = busy /\ fido' = fido /\ done' = done /\ cached' = cached /\ ses' = ses
      /\ scratch' = scratch /\ stored' = stored /\ abort' = abort /\ approved' = approved
    BY DEF Rpc, mailbox, queues, worker
<1> HIDE DEF Refused, Kept, Raised, Cached, Passed
<1>1. QueueType' /\ WorkerType'
    BY Frames DEF DeviceInv, DeviceType, Rpc, mailbox, queues, storage, worker, history
<1>2. FlagType'
    BY <1>f, <1>g DEF DeviceInv, DeviceType, FlagType
<1>3. Core0Type'
    BY <1>j, <1>e, <1>s, <1>l, <1>g DEF DeviceInv, DeviceType, Core0Type, Channel
<1>4. PlanInv'
    BY <1>j DEF PlanInv
<1>5. TokenInv'
    BY <1>t, <1>j, <1>g DEF DeviceInv, TokenInv, Storing, Direction
<1>6. BusyInv'
    BY <1>h, <1>g DEF DeviceInv, BusyInv, UiJob, FidoJob, Ends
<1>7. BatchInv'
    BY <1>h, <1>g, <1>t DEF DeviceInv, BatchInv, Storing, Ends, NoCommand
<1>8. AnswersInv'
    BY <1>e, <1>s, <1>g DEF DeviceInv, AnswersInv, Truthful
<1>9. DeadInv'
    BY <1>f, <1>p, <1>g DEF DeviceInv, DeviceType, WorkerType, DeadInv, LockSent, BusyInv, Ended
<1>10. OutputInv'
    BY <1>l, <1>g DEF DeviceInv, DeviceType, Core0Type, Channel, OutputInv
<1>11. CancelInv'
    BY <1>f, <1>h, <1>p, <1>o, <1>l, <1>g DEF DeviceInv, DeviceType, Core0Type, Channel, CancelInv, FidoJob, LockSent, Ends
<1>12. breach' = {}
    BY DEF DeviceInv, Rpc, mailbox, queues, storage, worker, history
<1> QED BY <1>1, <1>2, <1>3, <1>4, <1>5, <1>6, <1>7, <1>8, <1>9, <1>10, <1>11, <1>12 DEF DeviceInv, DeviceType

\* What ends a callback is all that is left of it.
LEMMA LastStep ==
    ASSUME NEW t \in Seq(Step), t # <<>>, Planned(t), Head(t).do \in Ends
    PROVE  /\ \A w : Has(t, w) <=> w = Head(t).do
           /\ \A d, o : Plans(t, d, o) <=> Head(t) = Do(d, o)
<1>1. Tail(t) = <<>>
    BY PlanTail
<1>2. /\ \A w : Has(t, w) <=> Head(t).do = w \/ Has(<<>>, w)
      /\ \A d, o : Plans(t, d, o) <=> Head(t) = Do(d, o) \/ Plans(<<>>, d, o)
    BY <1>1, TailFacts, Zenon
<1> QED BY <1>2, EmptyPlan, Zenon

-----------------------------------------------------------------------------
(* Core 0: mass storage *)

\* fv_usb_storage_begin: the pipeline is wiped, the status is asked for.
LEMMA BeginStep ==
    ASSUME NEW op \in {"read", "write"}, DeviceInv, Begin(op)
    PROVE  DeviceInv'
<1>e. todo = <<>> /\ (\A w : ~Has(todo, w)) /\ (\A d, o : ~Plans(todo, d, o)) /\ ~Awaiting
    BY EmptyPlan DEF Awaiting, Begin
<1>k. /\ todo' \in Seq(Step) /\ todo' # <<>> /\ Planned(todo') /\ Head(todo').do = "clear"
      /\ \A w : Has(todo', w) <=> w = "clear" \/ w = "rpc" \/ w = "begun"
  <2> DEFINE a == Do("clear", "none")
             b == Do("rpc", "status")
             c == Do("begun", op)
  <2>1. a \in Step /\ a.do = "clear" /\ b \in Step /\ b.do = "rpc" /\ c \in Step /\ c.do = "begun"
      BY DEF Step, Do, Requests
  <2>2. todo' = <<a, b, c>>
      BY DEF Begin
  <2> HIDE DEF a, b, c
  <2>3. <<a, b, c>> \in Seq(Step) /\ <<a, b, c>> # <<>> /\ Head(<<a, b, c>>) = a /\ Planned(<<a, b, c>>)
      BY <2>1, ThreeSteps DEF Ends
  <2>4. \A w : Has(<<a, b, c>>, w) <=> a.do = w \/ b.do = w \/ c.do = w
      BY <2>1, ThreeSteps
  <2> QED BY <2>1, <2>2, <2>3, <2>4
<1>a. ~Awaiting'
    BY <1>k DEF Awaiting
<1>1. FlagType' /\ QueueType' /\ WorkerType' /\ AnswersInv' /\ OutputInv'
    BY Frames DEF DeviceInv, DeviceType, Begin, mailbox, queues, storage, worker, history
<1>2. Core0Type'
    BY <1>k DEF DeviceInv, DeviceType, Begin, Core0Type, mailbox, queues, storage, worker, history
<1>3. PlanInv'
    BY <1>k, <1>a DEF DeviceInv, DeviceType, Begin, PlanInv, Awaiting, mailbox, queues, storage, worker, history
<1>4. TokenInv'
    BY <1>e, <1>a DEF DeviceInv, DeviceType, Begin, TokenInv, Storing, Awaiting, Direction, Requests, StorageOps, mailbox, queues, storage, worker, history
<1>5. BusyInv'
    BY <1>e, <1>k DEF DeviceInv, DeviceType, Begin, BusyInv, UiJob, FidoJob, mailbox, queues, storage, worker, history
<1>6. BatchInv'
    BY <1>e, <1>k DEF DeviceInv, DeviceType, Begin, BatchInv, Storing, mailbox, queues, storage, worker, history
<1>7. DeadInv'
    BY <1>e DEF DeviceInv, DeviceType, Begin, DeadInv, LockSent, mailbox, queues, storage, worker, history
<1>8. CancelInv'
    BY <1>e, <1>k DEF DeviceInv, DeviceType, Begin, CancelInv, FidoJob, LockSent, mailbox, queues, storage, worker, history
<1>9. breach' = {}
    BY DEF DeviceInv, Begin, mailbox, queues, storage, worker, history
<1> QED BY <1>1, <1>2, <1>3, <1>4, <1>5, <1>6, <1>7, <1>8, <1>9 DEF DeviceInv, DeviceType

\* The host ejects the medium (tud_msc_start_stop_cb).
LEMMA EjectStep ==
    ASSUME DeviceInv, Eject
    PROVE  DeviceInv'
<1>e. todo = <<>> /\ (\A w : ~Has(todo, w)) /\ (\A d, o : ~Plans(todo, d, o)) /\ ~Awaiting
    BY EmptyPlan DEF Awaiting, Eject
<1>k. /\ todo' \in Seq(Step) /\ todo' # <<>> /\ Planned(todo') /\ Head(todo').do = "rpc"
      /\ \A w : Has(todo', w) <=> w = "rpc" \/ w = "clear"
  <2> DEFINE a == Do("rpc", "lock")
             b == Do("clear", "forget")
  <2>1. a \in Step /\ a.do = "rpc" /\ b \in Step /\ b.do = "clear"
      BY DEF Step, Do, Requests
  <2>2. todo' = <<a, b>>
      BY DEF Eject
  <2> HIDE DEF a, b
  <2>3. <<a, b>> \in Seq(Step) /\ <<a, b>> # <<>> /\ Head(<<a, b>>) = a /\ Planned(<<a, b>>)
      BY <2>1, TwoSteps DEF Ends
  <2>4. \A w : Has(<<a, b>>, w) <=> a.do = w \/ b.do = w
      BY <2>1, TwoSteps
  <2> QED BY <2>1, <2>2, <2>3, <2>4
<1>a. ~Awaiting'
    BY <1>k DEF Awaiting
<1>1. FlagType' /\ QueueType' /\ WorkerType' /\ AnswersInv' /\ OutputInv'
    BY Frames DEF DeviceInv, DeviceType, Eject, mailbox, queues, storage, worker, history
<1>2. Core0Type'
    BY <1>k DEF DeviceInv, DeviceType, Eject, Core0Type, mailbox, queues, storage, worker, history
<1>3. PlanInv'
    BY <1>k, <1>a DEF DeviceInv, DeviceType, Eject, PlanInv, Awaiting, mailbox, queues, storage, worker, history
<1>4. TokenInv'
    BY <1>e, <1>a DEF DeviceInv, DeviceType, Eject, TokenInv, Storing, Awaiting, Direction, Requests, StorageOps, mailbox, queues, storage, worker, history
<1>5. BusyInv'
    BY <1>e, <1>k DEF DeviceInv, DeviceType, Eject, BusyInv, UiJob, FidoJob, mailbox, queues, storage, worker, history
<1>6. BatchInv'
    BY <1>e, <1>k DEF DeviceInv, DeviceType, Eject, BatchInv, Storing, mailbox, queues, storage, worker, history
<1>7. DeadInv'
    BY <1>e DEF DeviceInv, DeviceType, Eject, DeadInv, LockSent, mailbox, queues, storage, worker, history
<1>8. CancelInv'
    BY <1>e, <1>k DEF DeviceInv, DeviceType, Eject, CancelInv, FidoJob, LockSent, mailbox, queues, storage, worker, history
<1>9. breach' = {}
    BY DEF DeviceInv, Eject, mailbox, queues, storage, worker, history
<1> QED BY <1>1, <1>2, <1>3, <1>4, <1>5, <1>6, <1>7, <1>8, <1>9 DEF DeviceInv, DeviceType

\* transfer ends a command that failed or outlived its session.
LEMMA TransferErrorStep ==
    ASSUME DeviceInv, TransferError
    PROVE  DeviceInv'
<1>e. todo = <<>> /\ (\A w : ~Has(todo, w)) /\ (\A d, o : ~Plans(todo, d, o)) /\ ~Awaiting
    BY EmptyPlan DEF Awaiting, TransferError, Transferring
<1>k. /\ todo' \in Seq(Step) /\ todo' # <<>> /\ Planned(todo') /\ Head(todo').do = "clear"
      /\ \A w : Has(todo', w) <=> w = "clear"
  <2> DEFINE a == Do("clear", "none")
  <2>1. a \in Step /\ a.do = "clear"
      BY DEF Step, Do, Requests
  <2>2. todo' = <<a>>
      BY DEF TransferError
  <2> HIDE DEF a
  <2>3. <<a>> \in Seq(Step) /\ <<a>> # <<>> /\ Head(<<a>>) = a /\ Planned(<<a>>)
      BY <2>1, OneStep DEF Ends
  <2>4. \A w : Has(<<a>>, w) <=> a.do = w
      BY <2>1, OneStep
  <2> QED BY <2>1, <2>2, <2>3, <2>4
<1>a. ~Awaiting'
    BY <1>k DEF Awaiting
<1>1. FlagType' /\ QueueType' /\ WorkerType' /\ AnswersInv' /\ OutputInv'
    BY Frames DEF DeviceInv, DeviceType, TransferError, mailbox, queues, storage, worker, history
<1>2. Core0Type'
    BY <1>k DEF DeviceInv, DeviceType, TransferError, Core0Type, mailbox, queues, storage, worker, history
<1>3. PlanInv'
    BY <1>k, <1>a DEF DeviceInv, DeviceType, TransferError, PlanInv, Awaiting, mailbox, queues, storage, worker, history
<1>4. TokenInv'
    BY <1>e, <1>a DEF DeviceInv, DeviceType, TransferError, TokenInv, Storing, Awaiting, Direction, Requests, StorageOps, mailbox, queues, storage, worker, history
<1>5. BusyInv'
    BY <1>e, <1>k DEF DeviceInv, DeviceType, TransferError, BusyInv, UiJob, FidoJob, mailbox, queues, storage, worker, history
<1>6. BatchInv'
    BY <1>e, <1>k DEF DeviceInv, DeviceType, TransferError, BatchInv, Storing, mailbox, queues, storage, worker, history
<1>7. DeadInv'
    BY <1>e DEF DeviceInv, DeviceType, TransferError, DeadInv, LockSent, mailbox, queues, storage, worker, history
<1>8. CancelInv'
    BY <1>e, <1>k DEF DeviceInv, DeviceType, TransferError, CancelInv, FidoJob, LockSent, mailbox, queues, storage, worker, history
<1>9. breach' = {}
    BY DEF DeviceInv, TransferError, mailbox, queues, storage, worker, history
<1> QED BY <1>1, <1>2, <1>3, <1>4, <1>5, <1>6, <1>7, <1>8, <1>9 DEF DeviceInv, DeviceType

\* The end of fv_usb_storage_begin: the command is accepted for the session that answered.
LEMMA BegunStep ==
    ASSUME DeviceInv, Begun
    PROVE  DeviceInv'
<1>t. todo \in Seq(Step) /\ todo # <<>> /\ Head(todo).do = "begun" /\ ~Awaiting /\ Planned(todo)
    BY DEF DeviceInv, DeviceType, Core0Type, PlanInv, Awaiting, Begun
<1>h. (\A w : Has(todo, w) <=> w = "begun") /\ (\A d, o : Plans(todo, d, o) <=> Head(todo) = Do(d, o))
    BY <1>t, LastStep DEF Ends
<1>e. todo' = <<>> /\ todo' \in Seq(Step) /\ Planned(todo') /\ (\A w : ~Has(todo', w)) /\ (\A d, o : ~Plans(todo', d, o)) /\ ~Awaiting'
    BY EmptyPlan DEF Awaiting, Begun
<1>p. ~Plans(todo, "send", "lock") /\ ~Plans(todo, "rpc", "lock")
    BY <1>t, <1>h DEF Do
<1>m. msc = NoCommand /\ ~msc.active /\ ~pending
    BY <1>t, <1>h DEF DeviceInv, BatchInv, TokenInv, NoCommand
<1>c. msc' = NoCommand \/ (msc' \in Command /\ msc'.active /\ msc'.left = Batches /\ msc'.batch = "none")
  <2>1. answer.gen \in Nat /\ Batches \in Nat /\ (Head(todo).op = "write") \in BOOLEAN
      BY SessionSizes DEF DeviceInv, DeviceType, Core0Type, Answers
  <2> QED BY <1>m, <2>1 DEF Begun, Command
<1>n. NoCommand \in Command /\ NoCommand.batch = "none" /\ ~NoCommand.active /\ ~NoCommand.write
    BY DEF NoCommand, Command
<1>1. FlagType' /\ QueueType' /\ OutputInv'
    BY Frames DEF DeviceInv, DeviceType, Begun, mailbox, queues, storage, worker, history
<1>2. Core0Type'
    BY <1>e, <1>c, <1>n, NotReadyFacts DEF DeviceInv, DeviceType, Begun, Core0Type, mailbox, queues, storage, worker, history
<1>3. WorkerType'
    BY DEF DeviceInv, DeviceType, Begun, WorkerType, mailbox, queues, storage, worker, history
<1>4. PlanInv'
    BY <1>e DEF DeviceInv, DeviceType, Begun, PlanInv, Awaiting, mailbox, queues, storage, worker, history
<1>5. TokenInv'
    BY <1>t, <1>m, <1>e DEF DeviceInv, DeviceType, Begun, TokenInv, Storing, Awaiting, Direction, Requests, StorageOps, mailbox, queues, storage, worker, history
<1>6. BusyInv'
    BY <1>h, <1>e DEF DeviceInv, DeviceType, Begun, BusyInv, UiJob, FidoJob, mailbox, queues, storage, worker, history
<1>7. BatchInv'
    BY <1>m, <1>c, <1>n, <1>e, SessionSizes DEF DeviceInv, DeviceType, Begun, BatchInv, Storing, mailbox, queues, storage, worker, history
<1>8. AnswersInv'
    BY NotReadyFacts DEF DeviceInv, DeviceType, Begun, AnswersInv, Truthful, mailbox, queues, storage, worker, history
<1>9. DeadInv'
    BY <1>p, <1>e DEF DeviceInv, DeviceType, Begun, DeadInv, LockSent, mailbox, queues, storage, worker, history
<1>10. CancelInv'
    BY <1>h, <1>e DEF DeviceInv, DeviceType, Begun, CancelInv, FidoJob, LockSent, mailbox, queues, storage, worker, history
<1>11. breach' = {}
    BY DEF DeviceInv, Begun, mailbox, queues, storage, worker, history
<1> QED BY <1>1, <1>2, <1>3, <1>4, <1>5, <1>6, <1>7, <1>8, <1>9, <1>10, <1>11 DEF DeviceInv, DeviceType

\* harvest of usb_storage.c takes the answer of a batch.
LEMMA HarvestStep ==
    ASSUME DeviceInv, Harvest
    PROVE  DeviceInv'
<1>e. todo = <<>> /\ (\A w : ~Has(todo, w)) /\ (\A d, o : ~Plans(todo, d, o)) /\ ~Awaiting
    BY EmptyPlan DEF Awaiting, Harvest, Transferring
<1>n. pending /\ stq # <<>> /\ msc.active /\ ~Storing /\ wpc # "io"
    BY <1>e DEF DeviceInv, BatchInv, TokenInv, Harvest, Transferring
<1>r. Head(stq) \in Answers /\ Truthful(Head(stq))
    BY <1>n DEF DeviceInv, DeviceType, QueueType, AnswersInv
<1>s. answer' \in Answers /\ Truthful(answer') /\ (answer'.ok => answer' = Head(stq))
    BY <1>r, SuppressedFacts DEF DeviceInv, DeviceType, Harvest
<1>m. /\ msc' \in Command /\ msc'.batch = "ready" /\ msc'.active /\ msc'.left = msc.left /\ msc'.write = msc.write
      /\ pending' = FALSE /\ stq' = <<>> /\ todo' = todo /\ cmdq' = cmdq /\ wpc' = wpc /\ scratch' = scratch /\ stored' = stored
    BY <1>n DEF DeviceInv, DeviceType, Core0Type, Command, Harvest, worker, history
<1>w. msc.write \in BOOLEAN
    BY DEF DeviceInv, DeviceType, Core0Type, Command
<1>1. WorkerType' /\ PlanInv' /\ BusyInv' /\ DeadInv' /\ OutputInv' /\ CancelInv'
    BY Frames DEF DeviceInv, DeviceType, Harvest, mailbox, queues, storage, worker, history
<1>2. FlagType'
    BY DEF DeviceInv, DeviceType, Harvest, FlagType, mailbox, queues, storage, worker, history
<1>3. QueueType'
    BY DEF DeviceInv, DeviceType, Harvest, QueueType, mailbox, queues, storage, worker, history
<1>4. Core0Type'
    BY <1>m, <1>s DEF DeviceInv, DeviceType, Harvest, Core0Type, mailbox, queues, storage, worker, history
<1>5. TokenInv'
    BY <1>n, <1>e, <1>m DEF DeviceInv, DeviceType, Harvest, TokenInv, Storing, Awaiting, Direction, Requests, StorageOps, mailbox, queues, storage, worker, history
<1>6. BatchInv'
    BY <1>n, <1>m, <1>e, <1>s, <1>w DEF DeviceInv, BatchInv
<1>7. AnswersInv'
    BY <1>s, <1>m DEF DeviceInv, AnswersInv, Truthful, Harvest, worker
<1>8. breach' = {}
    BY DEF DeviceInv, Harvest, mailbox, queues, storage, worker, history
<1> QED BY <1>1, <1>2, <1>3, <1>4, <1>5, <1>6, <1>7, <1>8 DEF DeviceInv, DeviceType

\* start_batch of usb_storage.c queues the first batch, or the next one of a write.
LEMMA StartBatchStep ==
    ASSUME DeviceInv, StartBatch
    PROVE  DeviceInv'
<1>e. todo = <<>> /\ (\A w : ~Has(todo, w)) /\ (\A d, o : ~Plans(todo, d, o)) /\ ~Awaiting
    BY EmptyPlan DEF Awaiting, StartBatch, Transferring
<1>m. /\ msc' \in Command /\ msc'.batch = "pending" /\ msc'.active = msc.active /\ msc'.write = msc.write
      /\ msc'.left = IF msc.write THEN msc.left - 1 ELSE msc.left
  <2>1. msc.left \in Nat /\ msc.active \in BOOLEAN /\ msc.write \in BOOLEAN /\ msc.gen \in Nat
      BY DEF DeviceInv, DeviceType, Core0Type, Command
  <2>2. msc.write => msc.left > 0
      BY <1>e, <2>1, SessionSizes DEF DeviceInv, BatchInv, StartBatch
  <2> DEFINE l == IF msc.write THEN msc.left - 1 ELSE msc.left
             m == [msc EXCEPT !.batch = "pending"]
  <2>3. l \in Nat
      BY <2>1, <2>2
  <2>4. m \in Command /\ m.batch = "pending" /\ m.active = msc.active /\ m.write = msc.write /\ m.left = msc.left
      BY DEF DeviceInv, DeviceType, Core0Type, Command
  <2>5. msc' = [m EXCEPT !.left = l]
      BY <2>4 DEF StartBatch
  <2> HIDE DEF l, m
  <2>6. [m EXCEPT !.left = l] \in Command /\ [m EXCEPT !.left = l].batch = m.batch /\ [m EXCEPT !.left = l].active = m.active
        /\ [m EXCEPT !.left = l].write = m.write /\ [m EXCEPT !.left = l].left = l
      BY <2>3, <2>4 DEF Command
  <2> QED BY <2>4, <2>5, <2>6 DEF l
<1>n. ~pending /\ msc.active /\ cmdq = <<>> /\ ~Storing /\ wpc # "io" /\ stq = <<>> /\ msc.batch # "pending"
    BY <1>e DEF DeviceInv, TokenInv, BatchInv, StartBatch, Transferring, Submits, Storing
<1>c. cmdq' # <<>> /\ Head(cmdq').op = Direction /\ cmdq' \in Seq(Job) /\ Len(cmdq') = 1
  <2> DEFINE c == [op |-> IF msc.write THEN "write" ELSE "read", gen |-> msc.gen, mode |-> "locked"]
  <2>1. c \in Job /\ c.op = Direction
      BY DEF DeviceInv, DeviceType, Core0Type, Command, Job, StorageOps, Mode, Direction
  <2>2. cmdq' = <<c>>
      BY DEF StartBatch, Submitted
  <2> HIDE DEF c
  <2> QED BY <2>1, <2>2
<1>d. Direction \in {"read", "write"} /\ Direction' = Direction
    BY <1>m DEF Direction
<1>f. /\ pending' = TRUE /\ stq' = stq /\ todo' = todo /\ wpc' = wpc /\ stored' = stored /\ answer' = answer /\ ~Awaiting'
      /\ scratch' = IF msc.write THEN HostData ELSE scratch
    BY <1>e DEF StartBatch, Submitted, worker, history, Awaiting
<1>a. ~UiJob' /\ ~FidoJob' /\ Head(cmdq').op # "lock"
    BY <1>c, <1>d DEF UiJob, FidoJob, UiOps
<1>1. PlanInv' /\ AnswersInv' /\ OutputInv'
    BY Frames DEF DeviceInv, DeviceType, StartBatch, mailbox, queues, storage, worker, history
<1>2. FlagType'
    BY <1>f DEF DeviceInv, DeviceType, StartBatch, FlagType, mailbox, queues, storage, worker, history
<1>3. QueueType'
    BY <1>c DEF DeviceInv, DeviceType, StartBatch, QueueType, mailbox, queues, storage, worker, history
<1>4. Core0Type'
    BY <1>m DEF DeviceInv, DeviceType, StartBatch, Core0Type, mailbox, queues, storage, worker, history
<1>5. WorkerType'
    BY DEF DeviceInv, DeviceType, StartBatch, WorkerType, HostData, mailbox, queues, storage, worker, history
<1>6. TokenInv'
    BY <1>e, <1>n, <1>c, <1>d, <1>f, <1>m DEF TokenInv, Storing
<1>7. BusyInv'
    BY <1>a, <1>n DEF DeviceInv, DeviceType, StartBatch, BusyInv, UiJob, FidoJob, mailbox, queues, storage, worker, history
<1>8. BatchInv'
  <2>1. msc.write \in BOOLEAN /\ msc.left \in Nat /\ stored \in Nat /\ Batches \in Nat
      BY SessionSizes DEF DeviceInv, DeviceType, Core0Type, WorkerType, Command
  <2>2. msc.write => stored + msc.left = Batches
      BY <1>e, <2>1 DEF DeviceInv, BatchInv, StartBatch, Good
  <2>3. ~msc.write => msc.left >= 1
      BY <1>n DEF DeviceInv, BatchInv
  <2> QED BY <1>e, <1>n, <1>f, <1>m, <2>1, <2>2, <2>3 DEF BatchInv
<1>9. DeadInv'
    BY <1>a, <1>n DEF DeviceInv, DeviceType, StartBatch, DeadInv, LockSent, mailbox, queues, storage, worker, history
<1>10. CancelInv'
    BY <1>a, <1>n DEF DeviceInv, DeviceType, StartBatch, CancelInv, FidoJob, LockSent, mailbox, queues, storage, worker, history
<1>11. breach' = {}
    BY DEF DeviceInv, StartBatch, mailbox, queues, storage, worker, history
<1> QED BY <1>1, <1>2, <1>3, <1>4, <1>5, <1>6, <1>7, <1>8, <1>9, <1>10, <1>11 DEF DeviceInv, DeviceType

\* Between two callbacks no lock is on its way: a session that no bus event
\* has touched since the flag was taken is alive.
LEMMA AliveIdle ==
    ASSUME DeviceInv, ~Awaiting, ~Plans(todo, "send", "lock")
    PROVE  /\ ~LockSent
           /\ ~inval /\ ses.mode # "locked" => ses.gen \notin dead
<1>1. Storing => pending /\ Head(cmdq).op = Direction
    BY DEF DeviceInv, TokenInv
<1>2. Direction # "lock"
    BY DEF Direction
<1>3. cmdq # <<>> /\ Head(cmdq).op = "lock" => Storing
    BY DEF Storing, StorageOps
<1>4. ~LockSent
    BY <1>1, <1>2, <1>3 DEF LockSent
<1> QED BY <1>4 DEF DeviceInv, DeadInv

\* transfer tells the host that its write succeeded.
LEMMA AcknowledgeStep ==
    ASSUME DeviceInv, Acknowledge
    PROVE  DeviceInv'
<1>e. todo = <<>> /\ (\A w : ~Has(todo, w)) /\ (\A d, o : ~Plans(todo, d, o)) /\ ~Awaiting
    BY EmptyPlan DEF Awaiting, Acknowledge, Transferring
<1>n. msc.active /\ msc.batch = "ready" /\ ~pending /\ ~Storing /\ wpc # "io" /\ stq = <<>>
    BY <1>e DEF DeviceInv, TokenInv, Acknowledge, Transferring, Finished
<1>m. msc' = NoCommand /\ NoCommand \in Command /\ NoCommand.batch = "none" /\ ~NoCommand.active /\ ~NoCommand.write
      /\ pending' = pending /\ cmdq' = cmdq /\ wpc' = wpc /\ stq' = stq /\ todo' = todo
    BY DEF Acknowledge, NoCommand, Command, queues, worker
<1>s. stored = Batches
  <2>1. stored \in Nat /\ Batches \in Nat /\ msc.left = 0
      BY SessionSizes DEF DeviceInv, DeviceType, WorkerType, Acknowledge, Finished
  <2>2. stored + msc.left = Batches
      BY <1>e, <1>n DEF DeviceInv, BatchInv, Acknowledge, Finished, Good
  <2> QED BY <2>1, <2>2
<1>1. FlagType' /\ QueueType' /\ PlanInv' /\ BusyInv' /\ AnswersInv' /\ DeadInv' /\ OutputInv' /\ CancelInv'
    BY Frames DEF DeviceInv, DeviceType, Acknowledge, mailbox, queues, storage, worker, history
<1>2. Core0Type'
    BY <1>m DEF DeviceInv, DeviceType, Acknowledge, Core0Type, mailbox, queues, storage, worker, history
<1>3. WorkerType'
    BY DEF DeviceInv, DeviceType, Acknowledge, WorkerType, Wiped, mailbox, queues, storage, worker, history
<1>4. TokenInv'
    BY <1>e, <1>n, <1>m DEF DeviceInv, DeviceType, Acknowledge, TokenInv, Storing, Awaiting, Direction, Requests, StorageOps, mailbox, queues, storage, worker, history
<1>5. BatchInv'
    BY <1>e, <1>n, <1>m DEF BatchInv, Storing
<1>6. breach' = {}
    BY <1>s DEF DeviceInv, Acknowledge
<1> QED BY <1>1, <1>2, <1>3, <1>4, <1>5, <1>6 DEF DeviceInv, DeviceType

\* transfer sends a batch of plaintext to the host and prefetches the next one.
LEMMA DeliverStep ==
    ASSUME DeviceInv, Deliver
    PROVE  DeviceInv'
<1>e. todo = <<>> /\ (\A w : ~Has(todo, w)) /\ (\A d, o : ~Plans(todo, d, o)) /\ ~Awaiting
    BY EmptyPlan DEF Awaiting, Deliver, Transferring
<1>b. msc.active /\ msc.batch = "ready" /\ ~msc.write /\ ~pending /\ ~Storing /\ wpc # "io" /\ stq = <<>>
    BY <1>e DEF DeviceInv, TokenInv, Deliver, Transferring
<1>l. msc.left \in Nat /\ msc.left >= 1
    BY <1>b DEF DeviceInv, DeviceType, Core0Type, Command, BatchInv
<1> DEFINE l == msc.left - 1
           p == [msc EXCEPT !.batch = "pending"]
           q == [msc EXCEPT !.batch = "none"]
           More == cmdq = <<>> /\ l >= 1 /\ Submitted /\ msc' = [p EXCEPT !.left = l]
           Over == cmdq' = cmdq /\ pending' = pending /\ (msc' = NoCommand \/ (l >= 1 /\ msc' = [q EXCEPT !.left = l]))
<1>c. More \/ Over
  <2>1. CASE msc.left > 1 /\ Submits
      BY <1>l, <2>1 DEF Deliver, Submits
  <2>2. CASE ~(msc.left > 1 /\ Submits)
    <3>1. msc.left = 1 \/ l >= 1
        BY <1>l
    <3>2. msc' = (IF msc.left = 1 THEN NoCommand ELSE [q EXCEPT !.left = l]) /\ cmdq' = cmdq /\ pending' = pending
        BY <2>2 DEF Deliver
    <3> HIDE DEF l, q
    <3> QED BY <3>1, <3>2
  <2> QED BY <2>1, <2>2
<1>0. l \in Nat /\ msc \in Command
    BY <1>l DEF DeviceInv, DeviceType, Core0Type
<1> HIDE DEF l
<1>p. p \in Command /\ p.batch = "pending" /\ p.active /\ ~p.write /\ q \in Command /\ q.batch = "none" /\ q.active /\ ~q.write
    BY <1>b, <1>0 DEF Command
<1> HIDE DEF p, q
<1>q. /\ [p EXCEPT !.left = l] \in Command /\ [p EXCEPT !.left = l].batch = "pending" /\ [p EXCEPT !.left = l].active
      /\ ~[p EXCEPT !.left = l].write /\ [p EXCEPT !.left = l].left = l
      /\ [q EXCEPT !.left = l] \in Command /\ [q EXCEPT !.left = l].batch = "none" /\ [q EXCEPT !.left = l].active
      /\ ~[q EXCEPT !.left = l].write /\ [q EXCEPT !.left = l].left = l
    BY <1>p, <1>0 DEF Command
<1>n. NoCommand \in Command /\ NoCommand.batch = "none" /\ ~NoCommand.active /\ ~NoCommand.write
    BY DEF NoCommand, Command
<1>m. /\ msc' \in Command /\ ~msc'.write
      /\ (More => msc'.active /\ msc'.batch = "pending" /\ msc'.left >= 1)
      /\ (Over => msc'.batch = "none" /\ (msc' = NoCommand \/ (msc'.active /\ msc'.left >= 1)))
    BY <1>c, <1>q, <1>n
<1>d. More => pending' = TRUE /\ cmdq' # <<>> /\ Head(cmdq').op = "read" /\ cmdq' \in Seq(Job) /\ Len(cmdq') = 1
  <2> DEFINE c == [op |-> IF msc.write THEN "write" ELSE "read", gen |-> msc.gen, mode |-> "locked"]
  <2>1. c \in Job /\ c.op = "read"
      BY <1>b, <1>0 DEF Command, Job, StorageOps, Mode
  <2>2. Submitted => cmdq' = <<c>> /\ pending' = TRUE
      BY DEF Submitted
  <2>3. More => Submitted
      OBVIOUS
  <2> HIDE DEF c, More
  <2>4. <<c>> # <<>> /\ Head(<<c>>) = c /\ <<c>> \in Seq(Job) /\ Len(<<c>>) = 1
      BY <2>1
  <2> QED BY <2>1, <2>2, <2>3, <2>4, Zenon
<1>f. stq' = stq /\ uiq' = uiq /\ todo' = todo /\ wpc' = wpc /\ stored' = stored /\ answer' = answer /\ ~Awaiting'
    BY <1>e DEF Deliver, worker, Awaiting
<1>a. More => ~UiJob' /\ ~FidoJob' /\ Head(cmdq').op # "lock" /\ cmdq = <<>>
    BY <1>d DEF UiJob, FidoJob, UiOps
<1>w. Direction' = "read"
    BY <1>m DEF Direction
<1>g. scratch = Plain(msc.gen) /\ Live(msc.gen)
  <2>1. answer.ok /\ answer.gen = msc.gen /\ Files(answer.mode) /\ msc.gen = ses.gen /\ ~inval
      BY DEF DeviceInv, DeviceType, WorkerType, Deliver, Outdated, Good
  <2>2. scratch = Plain(msc.gen)
      BY <1>e, <1>b, <2>1 DEF DeviceInv, BatchInv
  <2>3. ses.mode # "locked"
      BY <2>1 DEF DeviceInv, AnswersInv, Truthful, Files
  <2> QED BY <1>e, <2>1, <2>2, <2>3, AliveIdle DEF Live
<1>h. scratch' = Wiped /\ Wiped \in [of : {"nothing", "host", "vault"}, gen : Nat]
    BY DEF Deliver, Wiped
<1> HIDE DEF More, Over
<1>o. Over => cmdq' = cmdq /\ pending' = pending
    BY DEF Over
<1>1. PlanInv' /\ AnswersInv' /\ OutputInv'
    BY Frames DEF DeviceInv, DeviceType, Deliver, mailbox, queues, storage, worker, history
<1>2. FlagType'
    BY <1>c, <1>d, <1>o DEF DeviceInv, DeviceType, Deliver, FlagType, mailbox, queues, storage, worker, history
<1>3. QueueType'
  <2>1. CASE More
    <3>1. cmdq' \in Seq(Job) /\ Len(cmdq') = 1
        BY <1>d, <2>1
    <3>2. 1 <= 1
        OBVIOUS
    <3>3. Len(cmdq') <= 1
        BY <3>1, <3>2, Zenon
    <3>4. stq \in Seq(Answers) /\ Len(stq) <= 1 /\ uiq \in Seq(Mode) /\ Len(uiq) <= 1
        BY DEF DeviceInv, DeviceType, QueueType
    <3> QED BY <1>f, <3>1, <3>3, <3>4, Zenon DEF QueueType
  <2>2. CASE Over
      BY <1>f, <1>o, <2>2 DEF DeviceInv, DeviceType, QueueType
  <2> QED BY <1>c, <2>1, <2>2
<1>4. Core0Type'
    BY <1>m DEF DeviceInv, DeviceType, Deliver, Core0Type, mailbox, queues, storage, worker, history
<1>5. WorkerType'
    BY <1>h DEF DeviceInv, DeviceType, Deliver, WorkerType, mailbox, queues, storage, worker, history
<1>6. TokenInv'
    BY <1>b, <1>c, <1>d, <1>e, <1>f, <1>m, <1>o, <1>w DEF TokenInv, Storing
<1>7. BusyInv'
    BY <1>c, <1>a, <1>o DEF DeviceInv, DeviceType, Deliver, BusyInv, UiJob, FidoJob, mailbox, queues, storage, worker, history
<1>8. BatchInv'
    BY <1>b, <1>c, <1>d, <1>e, <1>f, <1>m, <1>n, <1>o DEF BatchInv, Storing
<1>9. DeadInv'
    BY <1>a, <1>c, <1>o DEF DeviceInv, DeviceType, Deliver, DeadInv, LockSent, mailbox, queues, storage, worker, history
<1>10. CancelInv'
    BY <1>a, <1>c, <1>o DEF DeviceInv, DeviceType, Deliver, CancelInv, FidoJob, LockSent, mailbox, queues, storage, worker, history
<1>11. breach' = {}
    BY <1>g DEF DeviceInv, Deliver
<1> QED BY <1>1, <1>2, <1>3, <1>4, <1>5, <1>6, <1>7, <1>8, <1>9, <1>10, <1>11 DEF DeviceInv, DeviceType

\* A command is put in the empty queue of the worker.
LEMMA QueuedOne ==
    ASSUME QueueType, NEW c \in Job, cmdq' = cmdq \/ cmdq' = <<c>>, stq' = stq, uiq' = uiq
    PROVE  QueueType'
<1>1. <<c>> \in Seq(Job) /\ Len(<<c>>) = 1 /\ 1 <= 1
    OBVIOUS
<1>2. Len(<<c>>) <= 1
    BY <1>1, Zenon
<1>3. cmdq' \in Seq(Job) /\ Len(cmdq') <= 1
    BY <1>1, <1>2, Zenon DEF QueueType
<1> QED BY <1>3, Zenon DEF QueueType

-----------------------------------------------------------------------------
(* Core 0: the FIDO transport *)

\* The last packet of a request arrives.
LEMMA HostRequestStep ==
    ASSUME NEW private \in BOOLEAN, DeviceInv, HostRequest(private)
    PROVE  DeviceInv'
<1>e. todo = <<>> /\ (\A w : ~Has(todo, w)) /\ (\A d, o : ~Plans(todo, d, o)) /\ ~Awaiting
    BY EmptyPlan DEF Awaiting, HostRequest
<1>1. FlagType' /\ QueueType' /\ WorkerType' /\ PlanInv' /\ TokenInv' /\ BusyInv' /\ BatchInv' /\ AnswersInv' /\ DeadInv'
    BY Frames DEF DeviceInv, DeviceType, HostRequest, mailbox, queues, storage, worker, history
<1>2. Core0Type'
    BY DEF DeviceInv, DeviceType, HostRequest, Core0Type, Channel, mailbox, queues, storage, worker, history
<1>3. OutputInv'
    BY DEF DeviceInv, DeviceType, HostRequest, OutputInv, Core0Type, Channel, mailbox, queues, storage, worker, history
<1>4. CancelInv'
    BY <1>e DEF DeviceInv, DeviceType, HostRequest, CancelInv, FidoJob, LockSent, Core0Type, Channel, mailbox, queues, storage, worker, history
<1>5. breach' = {}
    BY DEF DeviceInv, HostRequest, mailbox, queues, storage, worker, history
<1> QED BY <1>1, <1>2, <1>3, <1>4, <1>5 DEF DeviceInv, DeviceType

\* tud_hid_set_report_cb: the host cancels the request in progress.
LEMMA HostCancelStep ==
    ASSUME DeviceInv, HostCancel
    PROVE  DeviceInv'
<1>e. todo = <<>> /\ (\A w : ~Has(todo, w)) /\ (\A d, o : ~Plans(todo, d, o)) /\ ~Awaiting
    BY EmptyPlan DEF Awaiting, HostCancel
<1>1. QueueType' /\ WorkerType' /\ PlanInv' /\ TokenInv' /\ BusyInv' /\ BatchInv' /\ AnswersInv' /\ DeadInv'
    BY Frames DEF DeviceInv, DeviceType, HostCancel, mailbox, queues, storage, worker, history
<1>2. FlagType'
    BY DEF DeviceInv, DeviceType, HostCancel, FlagType, mailbox, queues, storage, worker, history
<1>3. Core0Type'
    BY DEF DeviceInv, DeviceType, HostCancel, Core0Type, Channel, mailbox, queues, storage, worker, history
<1>4. OutputInv'
    BY DEF DeviceInv, DeviceType, HostCancel, OutputInv, Core0Type, Channel, mailbox, queues, storage, worker, history
<1>5. CancelInv'
    BY <1>e DEF DeviceInv, DeviceType, HostCancel, CancelInv, FidoJob, LockSent, Core0Type, Channel, mailbox, queues, storage, worker, history
<1>6. breach' = {}
    BY DEF DeviceInv, HostCancel, mailbox, queues, storage, worker, history
<1> QED BY <1>1, <1>2, <1>3, <1>4, <1>5, <1>6 DEF DeviceInv, DeviceType

\* fv_fido_poll after fv_fido_disconnect.
LEMMA LostStep ==
    ASSUME DeviceInv, Lost
    PROVE  DeviceInv'
<1>e. todo = <<>> /\ (\A w : ~Has(todo, w)) /\ (\A d, o : ~Plans(todo, d, o)) /\ ~Awaiting
    BY EmptyPlan DEF Awaiting, Lost
<1>q. QuietHid \in Channel /\ ~QuietHid.cancelled /\ ~QuietHid.tx.private
    BY DEF QuietHid, NoReply, Channel, Transmission
<1>a. hid \in Channel
    BY DEF DeviceInv, DeviceType, Core0Type
<1>k. hid' \in Channel /\ ((hid'.cancelled = hid.cancelled /\ hid'.tx = hid.tx) \/ hid' = QuietHid)
  <2> DEFINE h == [hid EXCEPT !.lost = FALSE]
             g == [h EXCEPT !.discard = TRUE]
  <2>1. h \in Channel /\ h.cancelled = hid.cancelled /\ h.tx = hid.tx
      BY <1>a DEF Channel
  <2>2. hid' = g \/ hid' = QuietHid
      BY <1>a DEF Lost, Channel
  <2> HIDE DEF h
  <2>3. g \in Channel /\ g.cancelled = h.cancelled /\ g.tx = h.tx
      BY <2>1 DEF Channel
  <2> HIDE DEF g
  <2> QED BY <1>q, <2>1, <2>2, <2>3
<1>1. FlagType' /\ QueueType' /\ WorkerType' /\ PlanInv' /\ TokenInv' /\ BusyInv' /\ BatchInv' /\ AnswersInv' /\ DeadInv'
    BY Frames DEF DeviceInv, DeviceType, Lost, mailbox, queues, storage, worker, history
<1>2. Core0Type'
    BY <1>k DEF DeviceInv, DeviceType, Lost, Core0Type, mailbox, queues, storage, worker, history
<1>3. OutputInv'
    BY <1>k, <1>q DEF DeviceInv, DeviceType, Lost, OutputInv, mailbox, queues, storage, worker, history
<1>4. CancelInv'
    BY <1>e, <1>k, <1>q DEF DeviceInv, DeviceType, Lost, CancelInv, FidoJob, LockSent, mailbox, queues, storage, worker, history
<1>5. breach' = {}
    BY DEF DeviceInv, Lost, mailbox, queues, storage, worker, history
<1> QED BY <1>1, <1>2, <1>3, <1>4, <1>5 DEF DeviceInv, DeviceType

\* fv_fido_poll sends the next report of a reply, or withdraws it.
LEMMA SendReportStep ==
    ASSUME DeviceInv, SendReport
    PROVE  DeviceInv'
<1>e. todo = <<>> /\ (\A w : ~Has(todo, w)) /\ (\A d, o : ~Plans(todo, d, o)) /\ ~Awaiting
    BY EmptyPlan DEF Awaiting, SendReport
<1>a. hid \in Channel /\ hid.tx \in Transmission
    BY DEF DeviceInv, DeviceType, Core0Type, Channel
<1> DEFINE l == hid.tx.left - 1
           t == IF hid.tx.left = 1 THEN NoReply ELSE [hid.tx EXCEPT !.left = l]
<1>t. hid' = [hid EXCEPT !.tx = NoReply] \/ (~Revoked /\ hid' = [hid EXCEPT !.tx = t])
  <2>1. CASE Revoked
      BY <2>1 DEF SendReport
  <2>2. CASE ~Revoked /\ hid.tx.left = 1
      BY <1>a, <2>2 DEF SendReport, Channel
  <2>3. CASE ~Revoked /\ hid.tx.left # 1
    <3>1. hid' = [hid EXCEPT !.tx.left = hid.tx.left - 1]
        BY <2>3 DEF SendReport
    <3>2. t = [hid.tx EXCEPT !.left = l]
        BY <2>3
    <3>3. [hid EXCEPT !.tx.left = hid.tx.left - 1] = [hid EXCEPT !.tx.left = l]
        OBVIOUS
    <3> HIDE DEF l
    <3>4. [hid EXCEPT !.tx.left = l] = [hid EXCEPT !.tx = [hid.tx EXCEPT !.left = l]]
        BY <1>a DEF Channel, Transmission
    <3> HIDE DEF t
    <3> QED BY <2>3, <3>1, <3>2, <3>3, <3>4, Zenon
  <2> QED BY <2>1, <2>2, <2>3
<1>l. l \in Nat
    BY <1>a DEF Transmission, SendReport
<1> HIDE DEF l
<1>n. NoReply \in Transmission /\ ~NoReply.private
    BY DEF NoReply, Transmission
<1>u. t \in Transmission /\ (t.private => t.private = hid.tx.private /\ t.scoped = hid.tx.scoped /\ t.gen = hid.tx.gen /\ t.from = hid.tx.from)
    BY <1>a, <1>l, <1>n DEF Transmission
<1> HIDE DEF t
<1>k. hid' \in Channel /\ hid'.cancelled = hid.cancelled /\ (hid'.tx = NoReply \/ hid'.tx = t)
    BY <1>a, <1>t, <1>u, <1>n DEF Channel
<1>b. ~Revoked /\ hid.tx.private => Live(hid.tx.from)
  <2>1. SUFFICES ASSUME ~Revoked, hid.tx.private PROVE Live(hid.tx.from)
      OBVIOUS
  <2>2. hid.tx.scoped /\ hid.tx.gen = hid.tx.from /\ (hid.tx.from = ses.gen => ses.mode # "locked")
      BY <2>1 DEF DeviceInv, OutputInv
  <2>3. hid.tx.gen = ses.gen /\ ~inval
      BY <2>1, <2>2 DEF DeviceInv, DeviceType, WorkerType, Revoked
  <2> QED BY <1>e, <2>2, <2>3, AliveIdle DEF Live
<1>1. FlagType' /\ QueueType' /\ WorkerType' /\ PlanInv' /\ TokenInv' /\ BusyInv' /\ BatchInv' /\ AnswersInv' /\ DeadInv'
    BY Frames DEF DeviceInv, DeviceType, SendReport, mailbox, queues, storage, worker, history
<1>2. Core0Type'
    BY <1>k DEF DeviceInv, DeviceType, SendReport, Core0Type, mailbox, queues, storage, worker, history
<1>3. OutputInv'
    BY <1>k, <1>n, <1>u DEF DeviceInv, DeviceType, SendReport, OutputInv, mailbox, queues, storage, worker, history
<1>4. CancelInv'
    BY <1>e, <1>k DEF DeviceInv, DeviceType, SendReport, CancelInv, FidoJob, LockSent, mailbox, queues, storage, worker, history
<1>5. breach' = {}
    BY <1>b DEF DeviceInv, SendReport
<1> QED BY <1>1, <1>2, <1>3, <1>4, <1>5 DEF DeviceInv, DeviceType

\* fv_fido_poll hands a request to the worker, or denies it.
LEMMA StartStep ==
    ASSUME DeviceInv, Start
    PROVE  DeviceInv'
<1>e. todo = <<>> /\ (\A w : ~Has(todo, w)) /\ (\A d, o : ~Plans(todo, d, o)) /\ ~Awaiting
    BY EmptyPlan DEF Awaiting, Start
<1>a. hid \in Channel /\ hid.cancelled \in BOOLEAN
    BY DEF DeviceInv, DeviceType, Core0Type, Channel
<1> DEFINE r == [NoReply EXCEPT !.left = 1]
           c == [NoJob EXCEPT !.op = "fido"]
           s == [hid EXCEPT !.st = "idle"]
           u == [s EXCEPT !.cancelled = FALSE]
           v == [hid EXCEPT !.st = "processing"]
<1>r. r \in Transmission /\ ~r.private
    BY DEF NoReply, Transmission
<1>j. c \in Job /\ c.op = "fido"
    BY DEF NoJob, Job, Mode
<1>s. s \in Channel /\ s.tx = hid.tx /\ v \in Channel /\ v.cancelled = hid.cancelled /\ v.tx = hid.tx
    BY <1>a DEF Channel
<1>d. \/ hid' = [u EXCEPT !.tx = r] /\ busy' = busy /\ cancel' = cancel /\ cmdq' = cmdq
      \/ hid' = v /\ cancel' = hid.cancelled /\ busy' = TRUE /\ cmdq' = <<c>>
    BY <1>a DEF Start, Channel
<1> HIDE DEF r, c, s, v
<1>u. u \in Channel /\ ~u.cancelled
    BY <1>s DEF Channel
<1> HIDE DEF u
<1>v. [u EXCEPT !.tx = r] \in Channel /\ ~[u EXCEPT !.tx = r].cancelled /\ [u EXCEPT !.tx = r].tx = r
    BY <1>r, <1>u DEF Channel
<1>q. <<c>> \in Seq(Job) /\ Len(<<c>>) = 1 /\ <<c>> # <<>> /\ Head(<<c>>) = c
    BY <1>j
<1>n. cmdq = <<>> /\ ~busy /\ ~maint /\ fido.at = "none" /\ ~done /\ fido = NoFido
    BY <1>e DEF DeviceInv, BusyInv, Start
<1>f. ~fido.locks
    BY <1>n DEF NoFido
<1>o. UNCHANGED <<inval, maint, done, abort, approved, stq, uiq, pending, todo, answer, cached, msc, ui, wpc, ses, job, fido, dead>>
    BY DEF Start, mailbox, storage, worker, history
<1>p. (hid' = [u EXCEPT !.tx = r] /\ busy' = busy /\ cancel' = cancel /\ cmdq' = cmdq) \/ (hid' = v /\ cancel' = hid.cancelled /\ busy' = TRUE /\ cmdq' # <<>> /\ Head(cmdq').op = "fido")
    BY <1>d, <1>q, <1>j
<1>1. WorkerType' /\ PlanInv' /\ AnswersInv'
    BY Frames DEF DeviceInv, DeviceType, Start, mailbox, queues, storage, worker, history
<1>2. FlagType'
    BY <1>a, <1>d, <1>o DEF DeviceInv, DeviceType, FlagType
<1>3. QueueType'
    BY <1>d, <1>j, <1>o, QueuedOne DEF DeviceInv, DeviceType
<1>4. Core0Type'
    BY <1>d, <1>s, <1>v, <1>o DEF DeviceInv, DeviceType, Core0Type
<1>5. TokenInv'
    BY <1>n, <1>p, <1>e, <1>o DEF DeviceInv, TokenInv, Storing, Awaiting, Direction, StorageOps
<1>6. BusyInv'
    BY <1>n, <1>p, <1>e, <1>o DEF DeviceInv, BusyInv, UiJob, FidoJob, UiOps
<1>7. BatchInv'
    BY <1>n, <1>p DEF DeviceInv, DeviceType, Start, BatchInv, Storing, StorageOps, mailbox, queues, storage, worker, history
<1>8. DeadInv'
    BY <1>n, <1>p, <1>o DEF DeviceInv, DeadInv, LockSent
<1>9. OutputInv'
    BY <1>d, <1>s, <1>v, <1>r, <1>o DEF DeviceInv, OutputInv
<1>10. CancelInv'
    BY <1>n, <1>p, <1>f, <1>s, <1>v, <1>e, <1>o DEF DeviceInv, CancelInv, FidoJob, LockSent
<1>11. breach' = {}
    BY DEF DeviceInv, Start, mailbox, queues, storage, worker, history
<1> QED BY <1>1, <1>2, <1>3, <1>4, <1>5, <1>6, <1>7, <1>8, <1>9, <1>10, <1>11 DEF DeviceInv, DeviceType

\* A step that is planned only in some cases.
LEMMA OptionalStep ==
    ASSUME NEW a \in Step, NEW g \in BOOLEAN, NEW s, s = IF g THEN <<a>> ELSE <<>>, a.do \notin {"await", "send"}
    PROVE  /\ s \in Seq(Step) /\ Planned(s) /\ (s # <<>> => g /\ Head(s) = a)
           /\ \A w : Has(s, w) <=> g /\ a.do = w
           /\ \A d, o : Plans(s, d, o) <=> g /\ a = Do(d, o)
<1>1. CASE g
  <2>1. s = <<a>>
      BY <1>1
  <2>2. <<a>> \in Seq(Step) /\ Planned(<<a>>) /\ Head(<<a>>) = a
      BY OneStep
  <2>3. (\A w : Has(<<a>>, w) <=> a.do = w) /\ (\A d, o : Plans(<<a>>, d, o) <=> a = Do(d, o))
      BY OneStep
  <2> QED BY <1>1, <2>1, <2>2, <2>3, Zenon
<1>2. CASE ~g
  <2>1. s = <<>>
      BY <1>2
  <2> QED BY <1>2, <2>1, EmptyPlan, Zenon
<1> QED BY <1>1, <1>2

\* fv_fido_poll acquires the answer of the worker.
LEMMA DoneStep ==
    ASSUME DeviceInv, Done
    PROVE  DeviceInv'
<1>e. todo = <<>> /\ (\A w : ~Has(todo, w)) /\ (\A d, o : ~Plans(todo, d, o)) /\ ~Awaiting
    BY EmptyPlan DEF Awaiting, Done
<1> DEFINE a == Do("rpc", "lock")
           b == Do("clear", "forget")
           c == Do("reply", "none")
           Wipes == ~(fido.unlocked /\ fido.gen = pub /\ ~inval /\ ~CancelLocks)
           s == IF CancelLocks THEN <<a>> ELSE <<>>
           t == IF Wipes THEN <<b>> ELSE <<>>
<1>a. a \in Step /\ b \in Step /\ c \in Step /\ a.do = "rpc" /\ b.do = "clear" /\ c.do = "reply"
      /\ a # Do("send", "lock") /\ b # Do("send", "lock") /\ c # Do("send", "lock")
    BY DEF Step, Do, Requests
<1>b. todo' = (s \o t) \o <<c>>
    BY Zenon DEF Done
<1>l. CancelLocks \in BOOLEAN /\ Wipes \in BOOLEAN /\ (CancelLocks => Wipes) /\ (CancelLocks => cancel)
    BY DEF CancelLocks, DeviceInv, DeviceType, FlagType
<1>i. a = Do("rpc", "lock")
    OBVIOUS
<1> HIDE DEF a, b, c, Wipes
<1>s. /\ s \in Seq(Step) /\ Planned(s) /\ (s # <<>> => CancelLocks /\ Head(s) = a)
      /\ (\A w : Has(s, w) <=> CancelLocks /\ w = "rpc") /\ (\A d, o : Plans(s, d, o) <=> CancelLocks /\ a = Do(d, o))
    BY <1>a, <1>l, OptionalStep
<1>t. /\ t \in Seq(Step) /\ Planned(t) /\ (t # <<>> => Wipes /\ Head(t) = b)
      /\ (\A w : Has(t, w) <=> Wipes /\ w = "clear") /\ (\A d, o : Plans(t, d, o) <=> Wipes /\ b = Do(d, o))
    BY <1>a, <1>l, OptionalStep
<1>u. <<c>> \in Seq(Step) /\ Planned(<<c>>) /\ (\A w : Has(<<c>>, w) <=> w = "reply") /\ (\A d, o : Plans(<<c>>, d, o) <=> c = Do(d, o))
    BY <1>a, OneStep
<1> HIDE DEF s, t
<1>v. /\ s \o t \in Seq(Step) /\ Planned(s \o t) /\ (\A w : Has(s \o t, w) <=> Has(s, w) \/ Has(t, w))
      /\ (\A d, o : Plans(s \o t, d, o) <=> Plans(s, d, o) \/ Plans(t, d, o))
  <2>1. \A w \in Ends : ~Has(s, w)
      BY <1>s DEF Ends
  <2>2. Planned(s \o t)
      BY <1>s, <1>t, <2>1, PlanJoin
  <2> QED BY <1>s, <1>t, <2>2, JoinFacts
<1> DEFINE v == s \o t
<1>w. /\ v \o <<c>> \in Seq(Step) /\ Planned(v \o <<c>>) /\ (\A w : Has(v \o <<c>>, w) <=> Has(v, w) \/ Has(<<c>>, w))
      /\ (\A d, o : Plans(v \o <<c>>, d, o) <=> Plans(v, d, o) \/ Plans(<<c>>, d, o))
  <2>1. \A w \in Ends : ~Has(v, w)
      BY <1>s, <1>t, <1>v DEF Ends
  <2>0. v \in Seq(Step) /\ Planned(v)
      BY <1>v
  <2> HIDE DEF v
  <2>2. Planned(v \o <<c>>)
      BY <1>u, <2>0, <2>1, PlanJoin
  <2> QED BY <1>u, <2>0, <2>2, JoinFacts
<1>h. \A w : Has(todo', w) <=> (w = "rpc" /\ CancelLocks) \/ (w = "clear" /\ Wipes) \/ w = "reply"
    BY <1>b, <1>s, <1>t, <1>u, <1>v, <1>w, Zenon
<1>p. CancelLocks => Plans(todo', "rpc", "lock")
    BY <1>b, <1>i, <1>s, <1>v, <1>w, Zenon
<1>j. todo' \in Seq(Step) /\ Planned(todo') /\ ~Awaiting'
  <2>1. todo' \in Seq(Step) /\ Planned(todo')
      BY <1>b, <1>w
  <2> QED BY <2>1, PlanTail DEF Awaiting
<1>n. done /\ busy /\ ~maint /\ fido.at = "none" /\ ~FidoJob
    BY DEF DeviceInv, BusyInv, Done
<1>c. (hid.cancelled \/ (fido.locks /\ inval)) => cancel
    BY <1>n DEF DeviceInv, CancelInv
<1>d. hid' \in Channel /\ hid'.tx = hid.tx /\ (hid'.cancelled => hid.cancelled \/ cancel \/ inval \/ fido.gen # pub)
  <2> DEFINE x == hid.cancelled \/ cancel \/ inval \/ fido.gen # pub
  <2>1. hid' = [hid EXCEPT !.cancelled = x] /\ hid \in Channel /\ x \in BOOLEAN
      BY DEF Done, DeviceInv, DeviceType, Core0Type
  <2>2. \A y \in BOOLEAN : [hid EXCEPT !.cancelled = y] \in Channel /\ [hid EXCEPT !.cancelled = y].tx = hid.tx /\ [hid EXCEPT !.cancelled = y].cancelled = y
      BY <2>1 DEF Channel
  <2>3. hid' \in Channel /\ hid'.tx = hid.tx /\ hid'.cancelled = x
      BY <2>1, <2>2, Zenon
  <2> QED BY <2>3, Zenon
<1>f. done' = FALSE /\ busy' \in BOOLEAN /\ (cancel => ~busy')
    BY DEF Done, DeviceInv, DeviceType, FlagType
<1>k. hid'.cancelled /\ fido.locks /\ fido.gen = ses.gen => CancelLocks
    BY <1>c, <1>d DEF CancelLocks, DeviceInv, DeviceType, WorkerType
<1>o. UNCHANGED <<inval, maint, cancel, abort, approved, cmdq, stq, uiq, scratch, pending, answer, cached, msc, ui, wpc, ses, job, fido, stored, dead>>
    BY DEF Done, mailbox, queues, worker, history
<1> HIDE DEF v
<1>1. QueueType' /\ WorkerType' /\ AnswersInv'
    BY Frames DEF DeviceInv, DeviceType, Done, mailbox, queues, storage, worker, history
<1>2. FlagType'
    BY <1>f, <1>o DEF DeviceInv, DeviceType, FlagType
<1>3. Core0Type'
    BY <1>j, <1>d, <1>o DEF DeviceInv, DeviceType, Core0Type
<1>4. PlanInv'
    BY <1>j DEF PlanInv
<1>5. TokenInv'
    BY <1>e, <1>j, <1>o DEF DeviceInv, TokenInv, Storing, Direction
<1>6. BusyInv'
    BY <1>h, <1>n, <1>f, <1>o DEF DeviceInv, BusyInv, UiJob, FidoJob
<1>7. BatchInv'
    BY <1>h, <1>e, <1>l, <1>o DEF DeviceInv, BatchInv, Storing
<1>8. DeadInv'
    BY <1>e, <1>o DEF DeviceInv, DeadInv, LockSent
<1>9. OutputInv'
    BY <1>d, <1>o DEF DeviceInv, OutputInv
<1>10. CancelInv'
    BY <1>h, <1>k, <1>l, <1>p, <1>n, <1>f, <1>o DEF DeviceInv, CancelInv, FidoJob, LockSent
<1>11. breach' = {}
    BY DEF DeviceInv, Done, mailbox, queues, storage, worker, history
<1> QED BY <1>1, <1>2, <1>3, <1>4, <1>5, <1>6, <1>7, <1>8, <1>9, <1>10, <1>11 DEF DeviceInv, DeviceType

\* The end of that poll: the reply goes to the channel, or is discarded.
LEMMA ReplyStep ==
    ASSUME DeviceInv, Reply
    PROVE  DeviceInv'
<1>t. todo \in Seq(Step) /\ todo # <<>> /\ Head(todo).do = "reply" /\ ~Awaiting /\ Planned(todo)
    BY DEF DeviceInv, DeviceType, Core0Type, PlanInv, Awaiting, Reply
<1>h. (\A w : Has(todo, w) <=> w = "reply") /\ (\A d, o : Plans(todo, d, o) <=> Head(todo) = Do(d, o))
    BY <1>t, LastStep DEF Ends
<1>e. todo' = <<>> /\ todo' \in Seq(Step) /\ Planned(todo') /\ (\A w : ~Has(todo', w)) /\ (\A d, o : ~Plans(todo', d, o)) /\ ~Awaiting'
    BY EmptyPlan DEF Awaiting, Reply
<1>p. ~Plans(todo, "send", "lock") /\ ~Plans(todo, "rpc", "lock")
    BY <1>t, <1>h DEF Do
<1>a. hid \in Channel /\ fido \in Execution
    BY DEF DeviceInv, DeviceType, Core0Type, WorkerType
<1> DEFINE n == [NoReply EXCEPT !.left = 1]
           m == [scoped |-> TRUE, private |-> fido.output, gen |-> fido.gen, from |-> fido.from, left |-> IF fido.output THEN Reports ELSE 1]
           x == IF hid.cancelled THEN n ELSE m
           q == [QuietHid EXCEPT !.lost = hid.lost]
           u == [hid EXCEPT !.st = "idle"]
           v == [u EXCEPT !.cancelled = FALSE]
<1>n. n \in Transmission /\ ~n.private
    BY DEF NoReply, Transmission
<1>m. m \in Transmission /\ m.private = fido.output /\ m.scoped /\ m.gen = fido.gen /\ m.from = fido.from
  <2>1. fido.output \in BOOLEAN /\ fido.gen \in Nat /\ fido.from \in Nat /\ (IF fido.output THEN Reports ELSE 1) \in Nat
      BY <1>a, SessionSizes DEF Execution
  <2> QED BY <2>1 DEF Transmission
<1>q. q \in Channel /\ ~q.tx.private
    BY <1>a DEF QuietHid, NoReply, Channel, Transmission
<1>u. u \in Channel
    BY <1>a DEF Channel
<1>d. hid' = q \/ hid' = [v EXCEPT !.tx = x]
    BY <1>a DEF Reply, Channel
<1>x. x = n \/ x = m
    OBVIOUS
<1> HIDE DEF n, m, q, u, x
<1>v. v \in Channel
    BY <1>u DEF Channel
<1> HIDE DEF v
<1>w. [v EXCEPT !.tx = x] \in Channel /\ [v EXCEPT !.tx = x].tx = x
    BY <1>v, <1>x, <1>n, <1>m DEF Channel
<1>k. hid' \in Channel /\ (hid'.tx.private => hid'.tx = m)
    BY <1>d, <1>q, <1>w, <1>x, <1>n
<1>f. ~FidoJob /\ fido.at = "none" /\ ~done /\ ~maint
    BY <1>h DEF DeviceInv, BusyInv
<1>g. fido' = NoFido /\ NoFido \in Execution /\ NoFido.at = "none" /\ ~NoFido.output /\ NoFido.gen = 0
    BY DEF Reply, NoFido, Execution
<1>o. UNCHANGED <<inval, maint, cancel, done, cmdq, stq, uiq, pending, ui, wpc, ses, job, dead, answer, cached, msc, pub, scratch, stored>> /\ busy' = FALSE
    BY DEF Reply, mailbox, queues
<1>b. ~(hid.cancelled /\ fido.locks /\ Live(fido.gen))
  <2>1. ~LockSent
      BY <1>t, <1>p, AliveIdle
  <2> QED BY <1>h, <1>p, <2>1 DEF DeviceInv, CancelInv, Live
<1>1. QueueType' /\ AnswersInv'
    BY Frames DEF DeviceInv, DeviceType, Reply, mailbox, queues, storage, worker, history
<1>2. FlagType'
    BY <1>o DEF DeviceInv, DeviceType, Reply, FlagType, mailbox, queues, storage, worker, history
<1>3. Core0Type'
    BY <1>e, <1>k, <1>o DEF DeviceInv, DeviceType, Core0Type
<1>4. WorkerType'
    BY <1>g, <1>o DEF DeviceInv, DeviceType, WorkerType
<1>5. PlanInv'
    BY <1>e DEF PlanInv
<1>6. TokenInv'
    BY <1>t, <1>e, <1>o DEF DeviceInv, TokenInv, Storing, Direction
<1>7. BusyInv'
    BY <1>h, <1>e, <1>f, <1>g, <1>o DEF DeviceInv, BusyInv, UiJob, FidoJob
<1>8. BatchInv'
    BY <1>h, <1>e, <1>o DEF DeviceInv, BatchInv, Storing
<1>9. DeadInv'
    BY <1>p, <1>e, <1>f, <1>g, <1>o DEF DeviceInv, DeadInv, LockSent
<1>10. OutputInv'
    BY <1>k, <1>m, <1>f, <1>g, <1>o DEF DeviceInv, OutputInv
<1>11. CancelInv'
    BY <1>e, <1>f, <1>g, <1>o DEF DeviceInv, DeviceType, WorkerType, CancelInv, FidoJob
<1>12. breach' = {}
    BY <1>b DEF DeviceInv, Reply
<1> QED BY <1>1, <1>2, <1>3, <1>4, <1>5, <1>6, <1>7, <1>8, <1>9, <1>10, <1>11, <1>12 DEF DeviceInv, DeviceType

\* Two steps one after the other.
LEMMA JoinPair ==
    ASSUME NEW a \in Step, NEW b \in Step
    PROVE  <<a>> \o <<b>> = <<a, b>> /\ <<>> \o <<b>> = <<b>>
<1>1. <<>> \o <<b>> = <<b>>
    OBVIOUS
<1> DEFINE c == <<a>> \o <<b>>
           d == <<a, b>>
<1>2. c \in Seq(Step) /\ d \in Seq(Step) /\ Len(c) = 2 /\ Len(d) = 2
    OBVIOUS
<1>3. c[1] = a /\ c[2] = b /\ d[1] = a /\ d[2] = b
    OBVIOUS
<1> HIDE DEF c, d
<1>4. \A i \in 1 .. Len(c) : i = 1 \/ i = 2
    BY <1>2
<1>5. \A i \in 1 .. Len(c) : c[i] = d[i]
    BY <1>3, <1>4
<1>6. c = d
    BY <1>2, <1>5, SeqEqual
<1> QED BY <1>1, <1>6 DEF c, d

-----------------------------------------------------------------------------
(* Core 0: prompts and jobs of the user interface *)

\* fv_fido_ui_poll shows the prompt, or refuses it.
LEMMA PromptShowStep ==
    ASSUME NEW show \in BOOLEAN, DeviceInv, PromptShow(show)
    PROVE  DeviceInv'
<1>e. todo = <<>> /\ (\A w : ~Has(todo, w)) /\ (\A d, o : ~Plans(todo, d, o)) /\ ~Awaiting
    BY EmptyPlan DEF Awaiting, PromptShow
<1>1. QueueType' /\ WorkerType' /\ PlanInv' /\ TokenInv' /\ BatchInv' /\ AnswersInv' /\ DeadInv' /\ OutputInv' /\ CancelInv'
    BY Frames DEF DeviceInv, DeviceType, PromptShow, mailbox, queues, storage, worker, history
<1>2. FlagType'
    BY DEF DeviceInv, DeviceType, PromptShow, FlagType, mailbox, queues, storage, worker, history
<1>3. Core0Type'
    BY DEF DeviceInv, DeviceType, PromptShow, Core0Type, Screen, Mode, UiOps, mailbox, queues, storage, worker, history
<1>4. BusyInv'
    BY <1>e DEF DeviceInv, DeviceType, PromptShow, BusyInv, UiJob, FidoJob, Core0Type, Screen, mailbox, queues, storage, worker, history
<1>5. breach' = {}
    BY DEF DeviceInv, PromptShow, mailbox, queues, storage, worker, history
<1> QED BY <1>1, <1>2, <1>3, <1>4, <1>5 DEF DeviceInv, DeviceType

\* The user answers the prompt.
LEMMA UserAnswersStep ==
    ASSUME NEW ok \in BOOLEAN, DeviceInv, UserAnswers(ok)
    PROVE  DeviceInv'
<1>1. QueueType' /\ Core0Type' /\ WorkerType' /\ PlanInv' /\ TokenInv' /\ BusyInv' /\ BatchInv' /\ AnswersInv' /\ DeadInv' /\ OutputInv' /\ CancelInv'
    BY Frames DEF DeviceInv, DeviceType, UserAnswers, mailbox, queues, storage, worker, history
<1>2. FlagType'
    BY DEF DeviceInv, DeviceType, UserAnswers, FlagType, mailbox, queues, storage, worker, history
<1>3. breach' = {}
    BY DEF DeviceInv, UserAnswers, mailbox, queues, storage, worker, history
<1> QED BY <1>1, <1>2, <1>3 DEF DeviceInv, DeviceType

\* The prompt ends because the worker asked for it.
LEMMA PromptAbortedStep ==
    ASSUME DeviceInv, PromptAborted
    PROVE  DeviceInv'
<1>1. QueueType' /\ Core0Type' /\ WorkerType' /\ PlanInv' /\ TokenInv' /\ BusyInv' /\ BatchInv' /\ AnswersInv' /\ DeadInv' /\ OutputInv' /\ CancelInv'
    BY Frames DEF DeviceInv, DeviceType, PromptAborted, mailbox, queues, storage, worker, history
<1>2. FlagType'
    BY DEF DeviceInv, DeviceType, PromptAborted, FlagType, mailbox, queues, storage, worker, history
<1>3. breach' = {}
    BY DEF DeviceInv, PromptAborted, mailbox, queues, storage, worker, history
<1> QED BY <1>1, <1>2, <1>3 DEF DeviceInv, DeviceType

\* fv_fido_ui_poll closes the modal.
LEMMA PromptDismissStep ==
    ASSUME DeviceInv, PromptDismiss
    PROVE  DeviceInv'
<1>e. todo = <<>> /\ (\A w : ~Has(todo, w)) /\ (\A d, o : ~Plans(todo, d, o)) /\ ~Awaiting
    BY EmptyPlan DEF Awaiting, PromptDismiss
<1>u. ui \in Screen
    BY DEF DeviceInv, DeviceType, Core0Type
<1>v. ui' \in Screen /\ (ui' = ui \/ (ui.st = "modal" /\ ui'.st = "pending"))
  <2> DEFINE a == [ui EXCEPT !.st = "pending"]
             b == [a EXCEPT !.op = "uistatus"]
             c == [b EXCEPT !.mode = "locked"]
  <2>1. a \in Screen /\ a.st = "pending"
      BY <1>u DEF Screen
  <2>2. ui' = ui \/ (ui.st = "modal" /\ ui' = c)
      BY <1>u DEF PromptDismiss, Screen
  <2> HIDE DEF a
  <2>3. b \in Screen /\ b.st = "pending"
      BY <2>1 DEF Screen, UiOps
  <2> HIDE DEF b
  <2>4. c \in Screen /\ c.st = "pending"
      BY <2>3 DEF Screen, Mode
  <2> HIDE DEF c
  <2> QED BY <1>u, <2>2, <2>4
<1>1. QueueType' /\ WorkerType' /\ PlanInv' /\ TokenInv' /\ BatchInv' /\ AnswersInv' /\ DeadInv' /\ OutputInv' /\ CancelInv'
    BY Frames DEF DeviceInv, DeviceType, PromptDismiss, mailbox, queues, storage, worker, history
<1>2. FlagType'
    BY DEF DeviceInv, DeviceType, PromptDismiss, FlagType, mailbox, queues, storage, worker, history
<1>3. Core0Type'
    BY <1>v DEF DeviceInv, DeviceType, PromptDismiss, Core0Type, mailbox, queues, storage, worker, history
<1>4. BusyInv'
    BY <1>e, <1>v DEF DeviceInv, DeviceType, PromptDismiss, BusyInv, UiJob, FidoJob, mailbox, queues, storage, worker, history
<1>5. breach' = {}
    BY DEF DeviceInv, PromptDismiss, mailbox, queues, storage, worker, history
<1> QED BY <1>1, <1>2, <1>3, <1>4, <1>5 DEF DeviceInv, DeviceType

\* The user asks for a job.
LEMMA UiChooseStep ==
    ASSUME NEW op \in {"unlock", "uilock", "change"}, NEW mode \in Mode, DeviceInv, UiChoose(op, mode)
    PROVE  DeviceInv'
<1>e. todo = <<>> /\ (\A w : ~Has(todo, w)) /\ (\A d, o : ~Plans(todo, d, o)) /\ ~Awaiting
    BY EmptyPlan DEF Awaiting, UiChoose
<1>u. ui \in Screen
    BY DEF DeviceInv, DeviceType, Core0Type
<1>v. ui' \in Screen /\ ui.st = "idle" /\ ui'.st = "pending"
  <2> DEFINE a == [ui EXCEPT !.st = "pending"]
             b == [a EXCEPT !.op = op]
             c == [b EXCEPT !.mode = mode]
  <2>1. a \in Screen /\ a.st = "pending"
      BY <1>u DEF Screen
  <2>2. ui.st = "idle" /\ ui' = c
      BY <1>u DEF UiChoose, Screen
  <2> HIDE DEF a
  <2>3. b \in Screen /\ b.st = "pending"
      BY <2>1 DEF Screen, UiOps
  <2> HIDE DEF b
  <2>4. c \in Screen /\ c.st = "pending"
      BY <2>3 DEF Screen
  <2> HIDE DEF c
  <2> QED BY <2>2, <2>4
<1>1. FlagType' /\ QueueType' /\ WorkerType' /\ PlanInv' /\ TokenInv' /\ BatchInv' /\ AnswersInv' /\ DeadInv' /\ OutputInv' /\ CancelInv'
    BY Frames DEF DeviceInv, DeviceType, UiChoose, mailbox, queues, storage, worker, history
<1>2. Core0Type'
    BY <1>v DEF DeviceInv, DeviceType, UiChoose, Core0Type, mailbox, queues, storage, worker, history
<1>3. BusyInv'
    BY <1>e, <1>v DEF DeviceInv, DeviceType, UiChoose, BusyInv, UiJob, FidoJob, mailbox, queues, storage, worker, history
<1>4. breach' = {}
    BY DEF DeviceInv, UiChoose, mailbox, queues, storage, worker, history
<1> QED BY <1>1, <1>2, <1>3, <1>4 DEF DeviceInv, DeviceType

\* fv_ui_cancel replaces a job not yet handed over by a status query.
LEMMA UiRefreshStep ==
    ASSUME DeviceInv, UiRefresh
    PROVE  DeviceInv'
<1>e. todo = <<>> /\ (\A w : ~Has(todo, w)) /\ (\A d, o : ~Plans(todo, d, o)) /\ ~Awaiting
    BY EmptyPlan DEF Awaiting, UiRefresh
<1>1. FlagType' /\ QueueType' /\ WorkerType' /\ PlanInv' /\ TokenInv' /\ BatchInv' /\ AnswersInv' /\ DeadInv' /\ OutputInv' /\ CancelInv'
    BY Frames DEF DeviceInv, DeviceType, UiRefresh, mailbox, queues, storage, worker, history
<1>2. Core0Type'
    BY DEF DeviceInv, DeviceType, UiRefresh, Core0Type, Screen, Mode, UiOps, mailbox, queues, storage, worker, history
<1>3. BusyInv'
    BY <1>e DEF DeviceInv, DeviceType, UiRefresh, BusyInv, UiJob, FidoJob, mailbox, queues, storage, worker, history
<1>4. breach' = {}
    BY DEF DeviceInv, UiRefresh, mailbox, queues, storage, worker, history
<1> QED BY <1>1, <1>2, <1>3, <1>4 DEF DeviceInv, DeviceType

\* fv_device_ui_poll hands a job over, after it stopped the transport.
LEMMA UiStartStep ==
    ASSUME DeviceInv, UiStart
    PROVE  DeviceInv'
<1>e. todo = <<>> /\ (\A w : ~Has(todo, w)) /\ (\A d, o : ~Plans(todo, d, o)) /\ ~Awaiting
    BY EmptyPlan DEF Awaiting, UiStart
<1> DEFINE a == Do("clear", "forget")
           b == Do("post", "none")
<1>a. a \in Step /\ b \in Step /\ a.do = "clear" /\ b.do = "post"
    BY DEF Step, Do
<1>b. todo' = <<b>> \/ todo' = <<a, b>>
  <2>1. <<a>> \o <<b>> = <<a, b>> /\ <<>> \o <<b>> = <<b>>
      BY <1>a, JoinPair
  <2>2. todo' = (IF ui.op = "uistatus" THEN <<>> ELSE <<a>>) \o <<b>>
      BY Zenon DEF UiStart
  <2> QED BY <2>1, <2>2, Zenon
<1> HIDE DEF a, b
<1>c. /\ <<b>> \in Seq(Step) /\ <<b>> # <<>> /\ Head(<<b>>) = b /\ Planned(<<b>>)
      /\ \A w : Has(<<b>>, w) <=> b.do = w
    BY <1>a, OneStep
<1>d. /\ <<a, b>> \in Seq(Step) /\ <<a, b>> # <<>> /\ Head(<<a, b>>) = a /\ Planned(<<a, b>>)
      /\ \A w : Has(<<a, b>>, w) <=> a.do = w \/ b.do = w
    BY <1>a, TwoSteps DEF Ends
<1>k. /\ todo' \in Seq(Step) /\ Planned(todo') /\ ~Awaiting'
      /\ \A w : Has(todo', w) => w = "clear" \/ w = "post"
    BY <1>a, <1>b, <1>c, <1>d DEF Awaiting
<1>1. FlagType' /\ QueueType' /\ WorkerType' /\ AnswersInv' /\ OutputInv'
    BY Frames DEF DeviceInv, DeviceType, UiStart, mailbox, queues, storage, worker, history
<1>2. Core0Type'
    BY <1>k DEF DeviceInv, DeviceType, UiStart, Core0Type, mailbox, queues, storage, worker, history
<1>3. PlanInv'
    BY <1>k DEF PlanInv
<1>4. TokenInv'
    BY <1>e, <1>k DEF DeviceInv, TokenInv, Storing, Direction, UiStart, queues, worker
<1>5. BusyInv'
    BY <1>e, <1>k DEF DeviceInv, DeviceType, UiStart, BusyInv, UiJob, FidoJob, mailbox, queues, storage, worker, history
<1>6. BatchInv'
    BY <1>e, <1>k DEF DeviceInv, DeviceType, UiStart, BatchInv, Storing, mailbox, queues, storage, worker, history
<1>7. DeadInv'
    BY <1>e DEF DeviceInv, DeviceType, UiStart, DeadInv, LockSent, mailbox, queues, storage, worker, history
<1>8. CancelInv'
    BY <1>e, <1>k DEF DeviceInv, DeviceType, UiStart, CancelInv, FidoJob, LockSent, mailbox, queues, storage, worker, history
<1>9. breach' = {}
    BY DEF DeviceInv, UiStart, mailbox, queues, storage, worker, history
<1> QED BY <1>1, <1>2, <1>3, <1>4, <1>5, <1>6, <1>7, <1>8, <1>9 DEF DeviceInv, DeviceType

\* fv_device_ui_poll takes the result of a job.
LEMMA UiResultStep ==
    ASSUME DeviceInv, UiResult
    PROVE  DeviceInv'
<1>e. todo = <<>> /\ (\A w : ~Has(todo, w)) /\ (\A d, o : ~Plans(todo, d, o)) /\ ~Awaiting
    BY EmptyPlan DEF Awaiting, UiResult
<1> DEFINE a == Do("clear", "forget")
           b == Do("completed", "none")
<1>a. a \in Step /\ b \in Step /\ a.do = "clear" /\ b.do = "completed"
    BY DEF Step, Do
<1>b. todo' = <<b>> \/ todo' = <<a, b>>
  <2>1. <<a>> \o <<b>> = <<a, b>> /\ <<>> \o <<b>> = <<b>>
      BY <1>a, JoinPair
  <2>2. todo' = (IF Head(uiq) = "locked" THEN <<a>> ELSE <<>>) \o <<b>>
      BY Zenon DEF UiResult
  <2> QED BY <2>1, <2>2, Zenon
<1> HIDE DEF a, b
<1>c. /\ <<b>> \in Seq(Step) /\ <<b>> # <<>> /\ Head(<<b>>) = b /\ Planned(<<b>>)
      /\ \A w : Has(<<b>>, w) <=> b.do = w
    BY <1>a, OneStep
<1>d. /\ <<a, b>> \in Seq(Step) /\ <<a, b>> # <<>> /\ Head(<<a, b>>) = a /\ Planned(<<a, b>>)
      /\ \A w : Has(<<a, b>>, w) <=> a.do = w \/ b.do = w
    BY <1>a, TwoSteps DEF Ends
<1>k. /\ todo' \in Seq(Step) /\ Planned(todo') /\ ~Awaiting'
      /\ \A w : Has(todo', w) => w = "clear" \/ w = "completed"
    BY <1>a, <1>b, <1>c, <1>d DEF Awaiting
<1>1. FlagType' /\ WorkerType' /\ AnswersInv' /\ OutputInv'
    BY Frames DEF DeviceInv, DeviceType, UiResult, mailbox, queues, storage, worker, history
<1>2. QueueType'
    BY DEF DeviceInv, DeviceType, UiResult, QueueType, mailbox, queues, storage, worker, history
<1>3. Core0Type'
    BY <1>k DEF DeviceInv, DeviceType, UiResult, Core0Type, mailbox, queues, storage, worker, history
<1>4. PlanInv'
    BY <1>k DEF PlanInv
<1>5. TokenInv'
    BY <1>e, <1>k DEF DeviceInv, TokenInv, Storing, Direction, UiResult, worker
<1>6. BusyInv'
    BY <1>e, <1>k DEF DeviceInv, DeviceType, UiResult, BusyInv, UiJob, FidoJob, mailbox, queues, storage, worker, history
<1>7. BatchInv'
    BY <1>e, <1>k DEF DeviceInv, DeviceType, UiResult, BatchInv, Storing, mailbox, queues, storage, worker, history
<1>8. DeadInv'
    BY <1>e DEF DeviceInv, DeviceType, UiResult, DeadInv, LockSent, mailbox, queues, storage, worker, history
<1>9. CancelInv'
    BY <1>e, <1>k DEF DeviceInv, DeviceType, UiResult, CancelInv, FidoJob, LockSent, mailbox, queues, storage, worker, history
<1>10. breach' = {}
    BY DEF DeviceInv, UiResult, mailbox, queues, storage, worker, history
<1> QED BY <1>1, <1>2, <1>3, <1>4, <1>5, <1>6, <1>7, <1>8, <1>9, <1>10 DEF DeviceInv, DeviceType

\* fv_device_ui_poll puts the job in the queue of the worker.
LEMMA PostStep ==
    ASSUME DeviceInv, Post
    PROVE  DeviceInv'
<1>t. todo \in Seq(Step) /\ todo # <<>> /\ Head(todo).do = "post" /\ ~Awaiting /\ Planned(todo)
    BY DEF DeviceInv, DeviceType, Core0Type, PlanInv, Awaiting, Post
<1>h. (\A w : Has(todo, w) <=> w = "post") /\ (\A d, o : Plans(todo, d, o) <=> Head(todo) = Do(d, o))
    BY <1>t, LastStep DEF Ends
<1>e. todo' = <<>> /\ todo' \in Seq(Step) /\ Planned(todo') /\ (\A w : ~Has(todo', w)) /\ (\A d, o : ~Plans(todo', d, o)) /\ ~Awaiting'
    BY EmptyPlan DEF Awaiting, Post
<1>p. ~Plans(todo, "send", "lock") /\ ~Plans(todo, "rpc", "lock")
    BY <1>t, <1>h DEF Do
<1>u. ui \in Screen /\ ui.st = "pending" /\ ~busy
    BY <1>h DEF DeviceInv, DeviceType, Core0Type, BusyInv
<1> DEFINE c == [op |-> ui.op, gen |-> 0, mode |-> ui.mode]
           w == [ui EXCEPT !.st = "waiting"]
<1>c. c \in Job /\ c.op = ui.op /\ c.op \in UiOps \cup {"none"} /\ w \in Screen /\ w.st = "waiting"
    BY <1>u DEF Screen, Job
<1>d. (cmdq = <<>> /\ cmdq' = <<c>> /\ ui' = w) \/ (cmdq' = cmdq /\ ui' = ui)
    BY DEF Post
<1> HIDE DEF c, w
<1>q. (cmdq = <<>> /\ cmdq' # <<>> /\ Head(cmdq').op \in UiOps \cup {"none"} /\ ui'.st = "waiting") \/ (cmdq' = cmdq /\ ui' = ui)
    BY <1>c, <1>d
<1>o. UNCHANGED <<inval, busy, cancel, done, abort, approved, stq, uiq, scratch, answer, cached, pending, msc, hid, wpc, ses, job, fido, dead, stored>> /\ maint' = TRUE
    BY DEF Post, mailbox, worker, history
<1>1. WorkerType' /\ AnswersInv' /\ OutputInv'
    BY Frames DEF DeviceInv, DeviceType, Post, mailbox, queues, storage, worker, history
<1>2. FlagType'
    BY <1>o DEF DeviceInv, DeviceType, Post, FlagType, mailbox, queues, storage, worker, history
<1>3. QueueType'
    BY <1>c, <1>d, <1>o, QueuedOne DEF DeviceInv, DeviceType
<1>4. Core0Type'
    BY <1>c, <1>d, <1>e, <1>u, <1>o DEF DeviceInv, DeviceType, Core0Type
<1>5. PlanInv'
    BY <1>e DEF PlanInv
<1>6. TokenInv'
    BY <1>t, <1>e, <1>q, <1>o DEF DeviceInv, TokenInv, Storing, Direction, StorageOps, UiOps
<1>7. BusyInv'
    BY <1>h, <1>e, <1>q, <1>u, <1>o DEF DeviceInv, BusyInv, UiJob, FidoJob, UiOps
<1>8. BatchInv'
    BY <1>h, <1>e, <1>q, <1>o DEF DeviceInv, BatchInv, Storing, StorageOps, UiOps
<1>9. DeadInv'
    BY <1>p, <1>e, <1>q, <1>o DEF DeviceInv, DeadInv, LockSent
<1>10. CancelInv'
    BY <1>h, <1>e, <1>q, <1>o DEF DeviceInv, CancelInv, FidoJob, UiOps
<1>11. breach' = {}
    BY DEF DeviceInv, Post, mailbox, queues, storage, worker, history
<1> QED BY <1>1, <1>2, <1>3, <1>4, <1>5, <1>6, <1>7, <1>8, <1>9, <1>10, <1>11 DEF DeviceInv, DeviceType

\* fv_device_ui_poll ends the job.
LEMMA CompletedStep ==
    ASSUME DeviceInv, Completed
    PROVE  DeviceInv'
<1>t. todo \in Seq(Step) /\ todo # <<>> /\ Head(todo).do = "completed" /\ ~Awaiting /\ Planned(todo)
    BY DEF DeviceInv, DeviceType, Core0Type, PlanInv, Awaiting, Completed
<1>h. (\A w : Has(todo, w) <=> w = "completed") /\ (\A d, o : Plans(todo, d, o) <=> Head(todo) = Do(d, o))
    BY <1>t, LastStep DEF Ends
<1>e. todo' = <<>> /\ todo' \in Seq(Step) /\ Planned(todo') /\ (\A w : ~Has(todo', w)) /\ (\A d, o : ~Plans(todo', d, o)) /\ ~Awaiting'
    BY EmptyPlan DEF Awaiting, Completed
<1>p. ~Plans(todo, "send", "lock") /\ ~Plans(todo, "rpc", "lock")
    BY <1>t, <1>h DEF Do
<1>u. ui \in Screen /\ ~UiJob /\ wpc \notin {"derive", "opened"} /\ uiq = <<>>
    BY <1>h DEF DeviceInv, DeviceType, Core0Type, BusyInv
<1>v. ui' \in Screen
  <2> DEFINE a == [ui EXCEPT !.st = "idle"]
             b == [a EXCEPT !.op = "none"]
             c == [b EXCEPT !.mode = "locked"]
  <2>1. a \in Screen
      BY <1>u DEF Screen
  <2>2. ui' = c
      BY <1>u DEF Completed, Screen
  <2> HIDE DEF a
  <2>3. b \in Screen
      BY <2>1 DEF Screen
  <2> HIDE DEF b
  <2> QED BY <2>2, <2>3 DEF Screen, Mode
<1>1. QueueType' /\ WorkerType' /\ AnswersInv' /\ OutputInv'
    BY Frames DEF DeviceInv, DeviceType, Completed, mailbox, queues, storage, worker, history
<1>2. FlagType'
    BY DEF DeviceInv, DeviceType, Completed, FlagType, mailbox, queues, storage, worker, history
<1>3. Core0Type'
    BY <1>e, <1>v DEF DeviceInv, DeviceType, Completed, Core0Type, mailbox, queues, storage, worker, history
<1>4. PlanInv'
    BY <1>e DEF PlanInv
<1>5. TokenInv'
    BY <1>t, <1>e DEF DeviceInv, TokenInv, Storing, Direction, Completed, queues, worker
<1>6. BusyInv'
    BY <1>h, <1>e, <1>u DEF DeviceInv, DeviceType, Completed, BusyInv, UiJob, FidoJob, mailbox, queues, storage, worker, history
<1>7. BatchInv'
    BY <1>h, <1>e DEF DeviceInv, DeviceType, Completed, BatchInv, Storing, mailbox, queues, storage, worker, history
<1>8. DeadInv'
    BY <1>p, <1>e DEF DeviceInv, DeviceType, Completed, DeadInv, LockSent, mailbox, queues, storage, worker, history
<1>9. CancelInv'
    BY <1>h, <1>e DEF DeviceInv, DeviceType, Completed, CancelInv, FidoJob, LockSent, mailbox, queues, storage, worker, history
<1>10. breach' = {}
    BY DEF DeviceInv, Completed, mailbox, queues, storage, worker, history
<1> QED BY <1>1, <1>2, <1>3, <1>4, <1>5, <1>6, <1>7, <1>8, <1>9, <1>10 DEF DeviceInv, DeviceType

-----------------------------------------------------------------------------
(* The worker: locking, storage commands and jobs of the user interface *)

\* usb_lock, any number of times: the published generation moves on, and the session is locked.
LEMMA LockTimesFacts ==
    ASSUME WorkerType, NEW n \in Nat, LockTimes(n)
    PROVE  /\ ses' \in [gen : Nat, mode : Mode] /\ pub' = ses'.gen /\ ses'.gen = ses.gen + n
           /\ n = 0 => ses' = ses
           /\ n > 0 => ses'.mode = "locked" /\ ses'.gen > ses.gen
BY DEF WorkerType, LockTimes, Mode

\* A FIDO request in execution learns that its session is gone, and nothing else of it changes.
LEMMA CutFacts ==
    ASSUME WorkerType, NEW n \in Nat
    PROVE  /\ Cut(n) \in Execution /\ Cut(n).at = fido.at /\ Cut(n).output = fido.output /\ Cut(n).from = fido.from
           /\ Cut(n).gen = fido.gen /\ Cut(n).locks = fido.locks /\ Cut(n).secret = fido.secret
           /\ n = 0 \/ fido.at = "none" => Cut(n) = fido
           /\ fido.cut => Cut(n).cut
           /\ n > 0 /\ fido.at = "finish" => Cut(n).cut
<1> DEFINE c == [fido EXCEPT !.cut = TRUE]
<1>0. fido \in Execution
    BY DEF WorkerType
<1>1. c \in Execution /\ c.at = fido.at /\ c.output = fido.output /\ c.from = fido.from
      /\ c.gen = fido.gen /\ c.locks = fido.locks /\ c.secret = fido.secret /\ c.cut
    BY <1>0 DEF Execution
<1>2. Cut(n) = IF n > 0 /\ Executing THEN c ELSE fido
    BY DEF Cut
<1> HIDE DEF c
<1> QED BY <1>0, <1>1, <1>2 DEF Executing

\* When the session stays as it is or is locked, what is known of answers and output remains true.
LEMMA MovedOn ==
    ASSUME DeviceInv, ses' = ses \/ (ses'.gen \in Nat /\ ses'.gen > ses.gen /\ ses'.mode = "locked")
    PROVE  /\ \A r \in Answers : Truthful(r) => r.gen <= ses'.gen /\ (r.gen = ses'.gen /\ r.mode # "locked" => ses'.mode # "locked")
           /\ \A g \in Nat : g <= ses.gen => g <= ses'.gen /\ (g = ses'.gen => ses' = ses)
<1>1. ses.gen \in Nat
    BY DEF DeviceInv, DeviceType, WorkerType
<1>2. \A r \in Answers : r.gen \in Nat
    BY DEF Answers
<1>3. \A g \in Nat : g <= ses.gen => g <= ses'.gen /\ (g = ses'.gen => ses' = ses)
    BY <1>1
<1>4. ASSUME NEW r \in Answers, Truthful(r)
      PROVE r.gen <= ses'.gen /\ (r.gen = ses'.gen /\ r.mode # "locked" => ses'.mode # "locked")
    BY <1>2, <1>3, <1>4 DEF Truthful
<1> QED BY <1>3, <1>4

\* The session timer expires at a poll of the worker.
LEMMA ExpireStep ==
    ASSUME DeviceInv, Expire
    PROVE  DeviceInv'
<1>l. /\ ses' \in [gen : Nat, mode : Mode] /\ pub' = ses'.gen /\ ses'.gen = ses.gen + 1 /\ ses'.mode = "locked" /\ ses'.gen > ses.gen
    BY LockTimesFacts DEF DeviceInv, DeviceType, Expire
<1>c. /\ fido' \in Execution /\ fido'.at = fido.at /\ fido'.output = fido.output /\ fido'.from = fido.from /\ fido'.gen = fido.gen
      /\ fido'.locks = fido.locks /\ (fido.at = "none" => fido' = fido) /\ (fido.at = "finish" => fido'.cut)
    BY CutFacts DEF DeviceInv, DeviceType, Expire
<1>s. ses' = ses \/ (ses'.gen \in Nat /\ ses'.gen > ses.gen /\ ses'.mode = "locked")
    BY <1>l
<1>v. /\ \A r \in Answers : Truthful(r) => r.gen <= ses'.gen /\ (r.gen = ses'.gen /\ r.mode # "locked" => ses'.mode # "locked")
      /\ \A g \in Nat : g <= ses.gen => g <= ses'.gen /\ (g = ses'.gen => ses' = ses)
    BY <1>s, MovedOn
<1>y. /\ answer \in Answers /\ cached \in Answers /\ (stq # <<>> => Head(stq) \in Answers) /\ fido \in Execution
      /\ fido.gen \in Nat /\ fido.from \in Nat /\ hid.tx.from \in Nat /\ ses.gen \in Nat
    BY DEF DeviceInv, DeviceType, Core0Type, QueueType, WorkerType, Execution, Channel, Transmission
<1>u. ui' \in Screen /\ ui'.st = ui.st
    BY DEF DeviceInv, DeviceType, Core0Type, Screen, Expire
<1>o. UNCHANGED <<inval, maint, busy, cancel, done, cmdq, stq, uiq, todo, answer, cached, msc, hid, wpc, job, dead, scratch, stored>>
    BY DEF Expire, queues, storage
<1>1. FlagType' /\ QueueType' /\ PlanInv' /\ TokenInv' /\ BatchInv'
    BY Frames DEF DeviceInv, DeviceType, Expire, mailbox, queues, storage, worker, history
<1>2. Core0Type'
    BY <1>u DEF DeviceInv, DeviceType, Expire, Core0Type, mailbox, queues, storage, worker, history
<1>3. WorkerType'
    BY <1>l, <1>c, <1>o DEF DeviceInv, DeviceType, WorkerType
<1>4. BusyInv'
    BY <1>c, <1>u, <1>o DEF DeviceInv, BusyInv, UiJob, FidoJob
<1>5. AnswersInv'
    BY <1>v, <1>y, <1>o DEF DeviceInv, AnswersInv, Truthful
<1>6. DeadInv'
    BY <1>l, <1>c, <1>y, <1>o DEF DeviceInv, DeadInv
<1>7. OutputInv'
    BY <1>l, <1>c, <1>v, <1>y, <1>o DEF DeviceInv, OutputInv
<1>8. CancelInv'
    BY <1>l, <1>c, <1>v, <1>y, <1>o DEF DeviceInv, CancelInv, FidoJob
<1>9. breach' = {}
    BY DEF DeviceInv, Expire, mailbox, queues, storage, worker, history
<1> QED BY <1>1, <1>2, <1>3, <1>4, <1>5, <1>6, <1>7, <1>8, <1>9 DEF DeviceInv, DeviceType

\* fv_usb_storage_execute takes a command: a lock, a status, a batch refused or a batch begun.
LEMMA StorageTakeStep ==
    ASSUME DeviceInv, StorageTake
    PROVE  DeviceInv'
<1> DEFINE c == Head(cmdq)
           n == (IF inval THEN 1 ELSE 0) + (IF c.op = "lock" THEN 1 ELSE 0)
           serve == c.op \in {"read", "write"} /\ ~inval /\ Serves(c)
<1>a. cmdq # <<>> /\ c \in Job /\ c.op \in StorageOps /\ Storing /\ stq = <<>> /\ wpc = "idle" /\ fido.at \in {"none", "ask", "dismiss"}
    BY DEF DeviceInv, DeviceType, QueueType, StorageTake, Free, Storing, StorageOps
<1>b. n \in Nat /\ (c.op = "lock" \/ inval => n > 0)
    BY DEF DeviceInv, DeviceType, FlagType
<1>d. /\ LockTimes(n) /\ fido' = Cut(n) /\ cmdq' = <<>>
      /\ wpc' = (IF serve THEN "io" ELSE "idle") /\ job' = (IF serve THEN c ELSE NoJob)
      /\ stq' = (IF serve THEN <<>> ELSE <<Response(c.op \in {"lock", "status"}, ses')>>)
    BY Zenon DEF StorageTake
<1>x. serve => c.op \in {"read", "write"}
    OBVIOUS
<1> HIDE DEF c, n, serve
<1>l. /\ ses' \in [gen : Nat, mode : Mode] /\ pub' = ses'.gen /\ (n = 0 => ses' = ses) /\ (n > 0 => ses'.mode = "locked" /\ ses'.gen > ses.gen)
    BY <1>b, <1>d, LockTimesFacts DEF DeviceInv, DeviceType
<1>c. /\ fido' \in Execution /\ fido'.at = fido.at /\ fido'.output = fido.output /\ fido'.from = fido.from /\ fido'.gen = fido.gen
      /\ fido'.locks = fido.locks /\ (fido.at = "none" => fido' = fido)
    BY <1>b, <1>d, CutFacts DEF DeviceInv, DeviceType
<1>s. ses' = ses \/ (ses'.gen \in Nat /\ ses'.gen > ses.gen /\ ses'.mode = "locked")
    BY <1>l, <1>b
<1>v. /\ \A r \in Answers : Truthful(r) => r.gen <= ses'.gen /\ (r.gen = ses'.gen /\ r.mode # "locked" => ses'.mode # "locked")
      /\ \A g \in Nat : g <= ses.gen => g <= ses'.gen /\ (g = ses'.gen => ses' = ses)
    BY <1>s, MovedOn
<1>y. /\ answer \in Answers /\ cached \in Answers /\ (stq # <<>> => Head(stq) \in Answers) /\ fido \in Execution
      /\ fido.gen \in Nat /\ fido.from \in Nat /\ hid.tx.from \in Nat /\ ses.gen \in Nat
    BY DEF DeviceInv, DeviceType, Core0Type, QueueType, WorkerType, Execution, Channel, Transmission
<1>r. /\ \/ wpc' = "io" /\ stq' = <<>> /\ job' = c /\ c.op \in {"read", "write"}
         \/ wpc' = "idle" /\ stq' # <<>> /\ Head(stq').ok = (c.op \in {"lock", "status"}) /\ Head(stq').gen = ses'.gen
              /\ Head(stq').mode = ses'.mode /\ job' = NoJob
      /\ stq' \in Seq(Answers) /\ Len(stq') <= 1
  <2> DEFINE r == Response(c.op \in {"lock", "status"}, ses')
  <2>1. r \in Answers /\ r.ok = (c.op \in {"lock", "status"}) /\ r.gen = ses'.gen /\ r.mode = ses'.mode
      BY <1>l DEF Response, Answers
  <2>2. stq' = (IF serve THEN <<>> ELSE <<r>>)
      BY <1>d
  <2> HIDE DEF r
  <2>3. <<r>> \in Seq(Answers) /\ <<r>> # <<>> /\ Head(<<r>>) = r /\ Len(<<r>>) <= 1 /\ <<>> \in Seq(Answers) /\ Len(<<>>) <= 1
      BY <2>1
  <2>4. CASE serve
      BY <1>d, <1>x, <2>2, <2>3, <2>4
  <2>5. CASE ~serve
      BY <1>d, <2>1, <2>2, <2>3, <2>5
  <2> QED BY <2>4, <2>5
<1>o. UNCHANGED <<inval, maint, busy, cancel, done, uiq, todo, answer, cached, pending, msc, hid, ui, dead, scratch, stored>> /\ cmdq' = <<>>
    BY <1>d DEF StorageTake, storage, history
<1>j. NoJob \in Job
    BY DEF NoJob, Job, Mode
<1>t. /\ c.op \in {"read", "write"} => pending /\ c.op = Direction
      /\ pending => c.op \in {"read", "write"}
      /\ pending \/ Awaiting
    BY <1>a DEF DeviceInv, TokenInv, Direction, Requests, c
<1>1. FlagType' /\ Core0Type' /\ PlanInv'
    BY Frames DEF DeviceInv, DeviceType, StorageTake, mailbox, queues, storage, worker, history
<1>2. QueueType'
    BY <1>r, <1>o DEF DeviceInv, DeviceType, QueueType
<1>3. WorkerType'
    BY <1>l, <1>c, <1>r, <1>a, <1>j, <1>o DEF DeviceInv, DeviceType, WorkerType
<1>4. TokenInv'
    BY <1>a, <1>r, <1>t, <1>o DEF DeviceInv, TokenInv, Storing, Awaiting, Direction
<1>5. BusyInv'
    BY <1>a, <1>r, <1>c, <1>o DEF DeviceInv, BusyInv, UiJob, FidoJob, UiOps, StorageOps
<1>6. BatchInv'
    BY <1>a, <1>r, <1>t, <1>o DEF DeviceInv, BatchInv, Storing
<1>7. AnswersInv'
    BY <1>l, <1>r, <1>v, <1>y, <1>o DEF DeviceInv, AnswersInv, Truthful
<1>8. DeadInv'
    BY <1>a, <1>b, <1>l, <1>c, <1>r, <1>s, <1>y, <1>o DEF DeviceInv, DeadInv, LockSent, c
<1>9. OutputInv'
    BY <1>a, <1>s, <1>c, <1>v, <1>y, <1>o DEF DeviceInv, OutputInv
<1>10. CancelInv'
    BY <1>a, <1>b, <1>l, <1>s, <1>c, <1>v, <1>y, <1>o DEF DeviceInv, CancelInv, FidoJob, LockSent, c
<1>11. breach' = {}
    BY DEF DeviceInv, StorageTake, mailbox, queues, storage, worker, history
<1> QED BY <1>1, <1>2, <1>3, <1>4, <1>5, <1>6, <1>7, <1>8, <1>9, <1>10, <1>11 DEF DeviceInv, DeviceType

\* fv_usb_vault_io: a batch is transferred, fails, or is followed by an expiry.
LEMMA TransferStep ==
    ASSUME NEW outcome \in {"ok", "fault", "expired"}, DeviceInv, Transfer(outcome)
    PROVE  DeviceInv'
<1> DEFINE n == IF outcome = "ok" THEN 0 ELSE 1
<1>b. n \in Nat /\ (outcome # "ok" <=> n > 0) /\ (outcome = "ok" <=> n = 0)
    OBVIOUS
<1>d. LockTimes(n) /\ fido' = Cut(n)
    BY DEF Transfer
<1> HIDE DEF n
<1>l. /\ ses' \in [gen : Nat, mode : Mode] /\ pub' = ses'.gen /\ (n = 0 => ses' = ses) /\ (n > 0 => ses'.mode = "locked" /\ ses'.gen > ses.gen)
    BY <1>b, <1>d, LockTimesFacts DEF DeviceInv, DeviceType
<1>c. /\ fido' \in Execution /\ fido'.at = fido.at /\ fido'.output = fido.output /\ fido'.from = fido.from /\ fido'.gen = fido.gen
      /\ fido'.locks = fido.locks /\ (fido.at = "none" => fido' = fido) /\ (fido.cut => fido'.cut) /\ (n > 0 /\ fido.at = "finish" => fido'.cut)
    BY <1>b, <1>d, CutFacts DEF DeviceInv, DeviceType
<1>s. ses' = ses \/ (ses'.gen \in Nat /\ ses'.gen > ses.gen /\ ses'.mode = "locked")
    BY <1>l, <1>b
<1>v. /\ \A r \in Answers : Truthful(r) => r.gen <= ses'.gen /\ (r.gen = ses'.gen /\ r.mode # "locked" => ses'.mode # "locked")
      /\ \A g \in Nat : g <= ses.gen => g <= ses'.gen /\ (g = ses'.gen => ses' = ses)
    BY <1>s, MovedOn
<1>y. /\ answer \in Answers /\ cached \in Answers /\ (stq # <<>> => Head(stq) \in Answers) /\ fido \in Execution
      /\ fido.gen \in Nat /\ fido.from \in Nat /\ hid.tx.from \in Nat /\ ses.gen \in Nat
    BY DEF DeviceInv, DeviceType, Core0Type, QueueType, WorkerType, Execution, Channel, Transmission
<1>r. /\ stq' # <<>> /\ Head(stq').ok = (outcome = "ok") /\ Head(stq').gen = ses'.gen /\ Head(stq').mode = ses'.mode
      /\ stq' \in Seq(Answers) /\ Len(stq') <= 1
  <2> DEFINE r == Response(outcome = "ok", ses')
  <2>1. r \in Answers /\ r.ok = (outcome = "ok") /\ r.gen = ses'.gen /\ r.mode = ses'.mode
      BY <1>l DEF Response, Answers
  <2>2. stq' = <<r>>
      BY DEF Transfer
  <2> HIDE DEF r
  <2>3. <<r>> \in Seq(Answers) /\ <<r>> # <<>> /\ Head(<<r>>) = r /\ Len(<<r>>) <= 1
      BY <2>1
  <2> QED BY <2>1, <2>2, <2>3
<1>u. ui' \in Screen /\ ui'.st = ui.st
    BY DEF DeviceInv, DeviceType, Core0Type, Screen, Transfer
<1>o. UNCHANGED <<inval, maint, busy, cancel, done, cmdq, uiq, todo, answer, cached, pending, msc, hid, dead>> /\ wpc = "io" /\ wpc' = "idle" /\ job' = NoJob
    BY DEF Transfer, storage
<1>j. NoJob \in Job
    BY DEF NoJob, Job, Mode
<1>t. pending /\ ~Storing /\ stq = <<>> /\ job.op = Direction /\ msc.batch = "pending"
    BY <1>o DEF DeviceInv, TokenInv
<1>w. /\ stored' \in Nat /\ (outcome = "ok" /\ job.op = "write" /\ scratch = HostData => stored' = stored + 1)
      /\ (outcome = "ok" /\ job.op = "read" => scratch' = Plain(ses.gen))
  <2>1. stored \in Nat /\ stored + 1 \in Nat
      BY DEF DeviceInv, DeviceType, WorkerType
  <2>2. stored' = IF outcome # "fault" /\ job.op = "write" /\ scratch = HostData THEN stored + 1 ELSE stored
      BY DEF Transfer
  <2>3. outcome = "ok" /\ job.op = "read" => scratch' = Plain(ses.gen)
      BY DEF Transfer
  <2> QED BY <2>1, <2>2, <2>3
<1>z. scratch' \in [of : {"nothing", "host", "vault"}, gen : Nat]
  <2>1. ses.gen \in Nat /\ scratch \in [of : {"nothing", "host", "vault"}, gen : Nat]
      BY DEF DeviceInv, DeviceType, WorkerType
  <2>2. scratch' = Wiped \/ scratch' = Plain(ses.gen) \/ scratch' = scratch
      BY DEF Transfer
  <2> QED BY <2>1, <2>2 DEF Wiped, Plain
<1>i. (msc.write \in BOOLEAN) /\ Direction = (IF msc.write THEN "write" ELSE "read") /\ msc.left \in Nat /\ stored \in Nat
    BY DEF DeviceInv, DeviceType, WorkerType, Core0Type, Command, Direction
<1>p. msc.write => scratch = HostData /\ stored + msc.left + 1 = Batches
    BY <1>o, <1>t DEF DeviceInv, BatchInv
<1>q. Head(stq').ok => IF msc.write THEN stored' + msc.left = Batches ELSE scratch' = Plain(Head(stq').gen)
  <2>1. SUFFICES ASSUME outcome = "ok" PROVE IF msc.write THEN stored' + msc.left = Batches ELSE scratch' = Plain(Head(stq').gen)
      BY <1>r
  <2>2. ses' = ses
      BY <1>b, <1>l, <2>1
  <2>3. CASE msc.write
      BY <1>w, <1>i, <1>t, <1>p, <2>1, <2>3, SessionSizes
  <2>4. CASE ~msc.write
      BY <1>r, <1>w, <1>i, <1>t, <2>1, <2>2, <2>4
  <2> QED BY <2>3, <2>4
<1>1. FlagType' /\ PlanInv'
    BY Frames DEF DeviceInv, DeviceType, Transfer, mailbox, queues, storage, worker, history
<1>2. QueueType'
    BY <1>r, <1>o DEF DeviceInv, DeviceType, QueueType
<1>3. Core0Type'
    BY <1>u, <1>o DEF DeviceInv, DeviceType, Core0Type
<1>4. WorkerType'
    BY <1>l, <1>c, <1>w, <1>z, <1>j, <1>o DEF WorkerType
<1>5. TokenInv'
    BY <1>r, <1>t, <1>o DEF DeviceInv, TokenInv, Storing, Awaiting, Direction
<1>6. BusyInv'
    BY <1>c, <1>u, <1>o DEF DeviceInv, BusyInv, UiJob, FidoJob
<1>7. BatchInv'
    BY <1>r, <1>t, <1>q, <1>o DEF DeviceInv, BatchInv, Storing
<1>8. AnswersInv'
    BY <1>l, <1>r, <1>v, <1>y, <1>o DEF DeviceInv, AnswersInv, Truthful
<1>9. DeadInv'
    BY <1>b, <1>l, <1>c, <1>s, <1>y, <1>o DEF DeviceInv, DeadInv, LockSent
<1>10. OutputInv'
    BY <1>b, <1>l, <1>s, <1>c, <1>v, <1>y, <1>o DEF DeviceInv, OutputInv
<1>11. CancelInv'
    BY <1>s, <1>c, <1>v, <1>y, <1>o DEF DeviceInv, CancelInv, FidoJob, LockSent
<1>12. breach' = {}
    BY DEF DeviceInv, Transfer, mailbox, queues, storage, worker, history
<1> QED BY <1>1, <1>2, <1>3, <1>4, <1>5, <1>6, <1>7, <1>8, <1>9, <1>10, <1>11, <1>12 DEF DeviceInv, DeviceType

\* fv_device_ui_execute takes a job; an unlock goes on to the derivation.
LEMMA UiTakeStep ==
    ASSUME DeviceInv, UiTake
    PROVE  DeviceInv'
<1> DEFINE c == Head(cmdq)
           mode == IF inval THEN "locked" ELSE ses.mode
           denied == \/ inval /\ c.op \in {"unlock", "change"}
                     \/ c.op = "change" /\ ~Admin(mode)
                     \/ c.op = "unlock" /\ mode # "locked"
           n == (IF inval THEN 1 ELSE 0) + (IF ~denied /\ c.op # "uistatus" THEN 1 ELSE 0)
           derives == c.op = "unlock" /\ ~denied
<1>a. cmdq # <<>> /\ c \in Job /\ c.op \in UiOps /\ UiJob /\ uiq = <<>> /\ wpc = "idle" /\ fido.at = "none" /\ ~Storing
    BY DEF DeviceInv, DeviceType, QueueType, UiTake, UiJob, Storing, StorageOps, UiOps
<1>b. n \in Nat /\ (inval => n > 0)
    BY DEF DeviceInv, DeviceType, FlagType
<1>d. /\ LockTimes(n) /\ cmdq' = <<>>
      /\ wpc' = (IF derives THEN "derive" ELSE "idle") /\ job' = (IF derives THEN c ELSE NoJob)
      /\ uiq' = (IF derives THEN <<>> ELSE <<ses'.mode>>)
    BY Zenon DEF UiTake
<1> HIDE DEF c, mode, denied, n, derives
<1>l. /\ ses' \in [gen : Nat, mode : Mode] /\ pub' = ses'.gen /\ (n = 0 => ses' = ses) /\ (n > 0 => ses'.mode = "locked" /\ ses'.gen > ses.gen)
    BY <1>b, <1>d, LockTimesFacts DEF DeviceInv, DeviceType
<1>s. ses' = ses \/ (ses'.gen \in Nat /\ ses'.gen > ses.gen /\ ses'.mode = "locked")
    BY <1>l, <1>b
<1>v. /\ \A r \in Answers : Truthful(r) => r.gen <= ses'.gen /\ (r.gen = ses'.gen /\ r.mode # "locked" => ses'.mode # "locked")
      /\ \A g \in Nat : g <= ses.gen => g <= ses'.gen /\ (g = ses'.gen => ses' = ses)
    BY <1>s, MovedOn
<1>y. /\ answer \in Answers /\ cached \in Answers /\ (stq # <<>> => Head(stq) \in Answers) /\ fido \in Execution
      /\ fido.gen \in Nat /\ fido.from \in Nat /\ hid.tx.from \in Nat /\ ses.gen \in Nat
    BY DEF DeviceInv, DeviceType, Core0Type, QueueType, WorkerType, Execution, Channel, Transmission
<1>r. /\ (wpc' = "derive" /\ uiq' = <<>> /\ job' = c) \/ (wpc' = "idle" /\ job' = NoJob)
      /\ uiq' \in Seq(Mode) /\ Len(uiq') <= 1
  <2> DEFINE m == ses'.mode
  <2>1. m \in Mode /\ uiq' = (IF derives THEN <<>> ELSE <<m>>)
      BY <1>l, <1>d
  <2> HIDE DEF m
  <2>2. <<m>> \in Seq(Mode) /\ Len(<<m>>) <= 1 /\ <<>> \in Seq(Mode) /\ Len(<<>>) <= 1
      BY <2>1
  <2>3. CASE derives
      BY <1>d, <2>1, <2>2, <2>3
  <2>4. CASE ~derives
      BY <1>d, <2>1, <2>2, <2>4
  <2> QED BY <2>3, <2>4
<1>o. UNCHANGED <<inval, maint, busy, cancel, done, stq, todo, answer, cached, pending, msc, hid, ui, fido, dead, scratch, stored>> /\ cmdq' = <<>>
    BY <1>d DEF UiTake, storage, history
<1>j. NoJob \in Job
    BY DEF NoJob, Job, Mode
<1>k. maint /\ ui.st = "waiting" /\ ~Has(todo, "completed")
    BY <1>a DEF DeviceInv, BusyInv
<1>1. FlagType' /\ Core0Type' /\ PlanInv'
    BY Frames DEF DeviceInv, DeviceType, UiTake, mailbox, queues, storage, worker, history
<1>2. QueueType'
    BY <1>r, <1>o DEF DeviceInv, DeviceType, QueueType
<1>3. WorkerType'
    BY <1>l, <1>a, <1>r, <1>j, <1>o DEF DeviceInv, DeviceType, WorkerType
<1>4. TokenInv'
    BY <1>a, <1>r, <1>o DEF DeviceInv, TokenInv, Storing, Awaiting, Direction
<1>5. BusyInv'
    BY <1>a, <1>r, <1>k, <1>o DEF DeviceInv, BusyInv, UiJob, FidoJob
<1>6. BatchInv'
    BY <1>a, <1>r, <1>o DEF DeviceInv, BatchInv, Storing
<1>7. AnswersInv'
    BY <1>v, <1>y, <1>o DEF DeviceInv, AnswersInv, Truthful
<1>8. DeadInv'
    BY <1>a, <1>b, <1>l, <1>r, <1>s, <1>y, <1>o DEF DeviceInv, DeadInv, LockSent, UiOps, c
<1>9. OutputInv'
    BY <1>a, <1>s, <1>v, <1>y, <1>o DEF DeviceInv, OutputInv
<1>10. CancelInv'
    BY <1>a, <1>b, <1>l, <1>s, <1>v, <1>y, <1>o DEF DeviceInv, CancelInv, FidoJob, LockSent, UiOps, c
<1>11. breach' = {}
    BY DEF DeviceInv, UiTake, mailbox, queues, storage, worker, history
<1> QED BY <1>1, <1>2, <1>3, <1>4, <1>5, <1>6, <1>7, <1>8, <1>9, <1>10, <1>11 DEF DeviceInv, DeviceType

\* fv_session_unlock opens a session, or fails.
LEMMA DeriveStep ==
    ASSUME NEW ok \in BOOLEAN, DeviceInv, Derive(ok)
    PROVE  DeviceInv'
<1>a. /\ ses' = [gen |-> ses.gen + 1, mode |-> IF ok THEN job.mode ELSE "locked"] /\ pub' = ses.gen + 1
      /\ job' = NoJob /\ wpc = "derive"
      /\ (wpc' = "opened" /\ uiq' = <<>>) \/ (wpc' = "idle" /\ uiq' = <<"locked">>)
    BY DEF Derive
<1>y. /\ answer \in Answers /\ cached \in Answers /\ (stq # <<>> => Head(stq) \in Answers) /\ fido \in Execution /\ job.mode \in Mode
      /\ fido.gen \in Nat /\ fido.from \in Nat /\ hid.tx.from \in Nat /\ ses.gen \in Nat
    BY DEF DeviceInv, DeviceType, Core0Type, QueueType, WorkerType, Execution, Channel, Transmission, Job
<1>s. ses' \in [gen : Nat, mode : Mode] /\ ses'.gen = ses.gen + 1 /\ pub' = ses'.gen
    BY <1>a, <1>y DEF Mode
<1>v. \A r \in Answers : Truthful(r) => r.gen <= ses'.gen /\ r.gen # ses'.gen
    BY <1>s, <1>y DEF Answers, Truthful
<1>j. NoJob \in Job /\ "locked" \in Mode
    BY DEF NoJob, Job, Mode
<1>q. uiq' \in Seq(Mode) /\ Len(uiq') <= 1
  <2>1. <<"locked">> \in Seq(Mode) /\ Len(<<"locked">>) <= 1 /\ <<>> \in Seq(Mode) /\ Len(<<>>) <= 1
      BY <1>j
  <2>2. CASE uiq' = <<>>
      BY <2>1, <2>2, Zenon
  <2>3. CASE uiq' = <<"locked">>
      BY <2>1, <2>3, Zenon
  <2> QED BY <1>a, <2>2, <2>3
<1>o. UNCHANGED <<inval, maint, busy, cancel, done, cmdq, stq, todo, answer, cached, pending, msc, hid, ui, fido, dead, scratch, stored>>
    BY DEF Derive, storage, history
<1>1. FlagType' /\ Core0Type' /\ PlanInv'
    BY Frames DEF DeviceInv, DeviceType, Derive, mailbox, queues, storage, worker, history
<1>2. QueueType'
    BY <1>q, <1>o DEF DeviceInv, DeviceType, QueueType
<1>3. WorkerType'
    BY <1>a, <1>s, <1>j, <1>o DEF DeviceInv, DeviceType, WorkerType
<1>4. TokenInv'
    BY <1>a, <1>o DEF DeviceInv, TokenInv, Storing, Awaiting, Direction
<1>5. BusyInv'
    BY <1>a, <1>o DEF DeviceInv, BusyInv, UiJob, FidoJob
<1>6. BatchInv'
    BY <1>a, <1>o DEF DeviceInv, BatchInv, Storing
<1>7. AnswersInv'
    BY <1>v, <1>y, <1>o DEF DeviceInv, AnswersInv, Truthful
<1>8. DeadInv'
    BY <1>a, <1>s, <1>y, <1>o DEF DeviceInv, DeadInv, LockSent
<1>9. OutputInv'
    BY <1>s, <1>y, <1>a, <1>o DEF DeviceInv, OutputInv, BusyInv
<1>10. CancelInv'
    BY <1>s, <1>y, <1>a, <1>o DEF DeviceInv, CancelInv, FidoJob, LockSent
<1>11. breach' = {}
    BY DEF DeviceInv, Derive, mailbox, queues, storage, worker, history
<1> QED BY <1>1, <1>2, <1>3, <1>4, <1>5, <1>6, <1>7, <1>8, <1>9, <1>10, <1>11 DEF DeviceInv, DeviceType

\* A bus event that came during the derivation locks the new session.
LEMMA OpenedStep ==
    ASSUME DeviceInv, Opened
    PROVE  DeviceInv'
<1> DEFINE n == IF Survives THEN 0 ELSE 1
<1>b. n \in Nat /\ (inval <=> n > 0)
    BY DEF Survives, DeviceInv, DeviceType, FlagType
<1>d. LockTimes(n) /\ uiq' = <<ses'.mode>> /\ wpc' = "idle" /\ wpc = "opened"
    BY DEF Opened
<1> HIDE DEF n
<1>l. /\ ses' \in [gen : Nat, mode : Mode] /\ pub' = ses'.gen /\ (n = 0 => ses' = ses) /\ (n > 0 => ses'.mode = "locked" /\ ses'.gen > ses.gen)
    BY <1>b, <1>d, LockTimesFacts DEF DeviceInv, DeviceType
<1>s. ses' = ses \/ (ses'.gen \in Nat /\ ses'.gen > ses.gen /\ ses'.mode = "locked")
    BY <1>l, <1>b
<1>v. /\ \A r \in Answers : Truthful(r) => r.gen <= ses'.gen /\ (r.gen = ses'.gen /\ r.mode # "locked" => ses'.mode # "locked")
      /\ \A g \in Nat : g <= ses.gen => g <= ses'.gen /\ (g = ses'.gen => ses' = ses)
    BY <1>s, MovedOn
<1>y. /\ answer \in Answers /\ cached \in Answers /\ (stq # <<>> => Head(stq) \in Answers) /\ fido \in Execution
      /\ fido.gen \in Nat /\ fido.from \in Nat /\ hid.tx.from \in Nat /\ ses.gen \in Nat
    BY DEF DeviceInv, DeviceType, Core0Type, QueueType, WorkerType, Execution, Channel, Transmission
<1>r. uiq' \in Seq(Mode) /\ Len(uiq') <= 1
  <2> DEFINE m == ses'.mode
  <2>1. m \in Mode /\ uiq' = <<m>>
      BY <1>l, <1>d
  <2> HIDE DEF m
  <2> QED BY <2>1
<1>o. UNCHANGED <<inval, maint, busy, cancel, done, cmdq, stq, todo, answer, cached, pending, msc, hid, ui, fido, job, dead, scratch, stored>>
    BY DEF Opened, storage, history
<1>1. FlagType' /\ Core0Type' /\ PlanInv'
    BY Frames DEF DeviceInv, DeviceType, Opened, mailbox, queues, storage, worker, history
<1>2. QueueType'
    BY <1>r, <1>o DEF DeviceInv, DeviceType, QueueType
<1>3. WorkerType'
    BY <1>l, <1>d, <1>o DEF DeviceInv, DeviceType, WorkerType
<1>4. TokenInv'
    BY <1>d, <1>o DEF DeviceInv, TokenInv, Storing, Awaiting, Direction
<1>5. BusyInv'
    BY <1>d, <1>o DEF DeviceInv, BusyInv, UiJob, FidoJob
<1>6. BatchInv'
    BY <1>d, <1>o DEF DeviceInv, BatchInv, Storing
<1>7. AnswersInv'
    BY <1>v, <1>y, <1>o DEF DeviceInv, AnswersInv, Truthful
<1>8. DeadInv'
    BY <1>b, <1>d, <1>l, <1>s, <1>y, <1>o DEF DeviceInv, DeadInv, LockSent, BusyInv
<1>9. OutputInv'
    BY <1>d, <1>s, <1>v, <1>y, <1>o DEF DeviceInv, OutputInv, BusyInv
<1>10. CancelInv'
    BY <1>s, <1>v, <1>y, <1>o DEF DeviceInv, CancelInv, FidoJob, LockSent
<1>11. breach' = {}
    BY DEF DeviceInv, Opened, mailbox, queues, storage, worker, history
<1> QED BY <1>1, <1>2, <1>3, <1>4, <1>5, <1>6, <1>7, <1>8, <1>9, <1>10, <1>11 DEF DeviceInv, DeviceType

-----------------------------------------------------------------------------
(* The worker: a FIDO request *)

\* fv_fido_execute takes a request and makes the checks before any prompt.
LEMMA FidoTakeStep ==
    ASSUME DeviceInv, FidoTake
    PROVE  DeviceInv'
<1>a. cmdq # <<>> /\ FidoJob /\ fido.at = "none" /\ wpc = "idle" /\ cmdq' = <<>> /\ ~Storing /\ ~UiJob
    BY DEF FidoTake, FidoJob, Storing, StorageOps, UiJob, UiOps
<1> DEFINE owns == hid.private /\ ~inval /\ (ses.mode = "locked" \/ Fido(ses.mode))
<1>b. PICK at \in {"ask", "engine", "finish"}, secret \in BOOLEAN :
         fido' = [NoFido EXCEPT !.at = at, !.secret = secret, !.locks = owns] /\ (abort' = FALSE \/ abort' = abort)
    BY Zenon DEF FidoTake
<1>w. owns \in BOOLEAN /\ (owns => ~inval)
    BY DEF DeviceInv, DeviceType, Core0Type, Channel
<1> HIDE DEF owns
<1>c. /\ fido' \in Execution /\ fido'.at # "none" /\ fido'.at # "verify" /\ ~fido'.output /\ fido'.gen = 0 /\ fido'.locks = owns
  <2> DEFINE x == [NoFido EXCEPT !.at = at]
             y == [x EXCEPT !.secret = secret]
             z == [y EXCEPT !.locks = owns]
  <2>1. x \in Execution /\ x.at = at /\ ~x.output /\ x.gen = 0
      BY DEF NoFido, Execution
  <2>2. fido' = z
      BY <1>b DEF NoFido
  <2> HIDE DEF x
  <2>3. y \in Execution /\ y.at = at /\ ~y.output /\ y.gen = 0
      BY <2>1 DEF Execution
  <2> HIDE DEF y
  <2>4. z \in Execution /\ z.at = at /\ ~z.output /\ z.gen = 0 /\ z.locks = owns
      BY <1>w, <2>3 DEF Execution
  <2> HIDE DEF z
  <2> QED BY <2>2, <2>4
<1>o. UNCHANGED <<inval, maint, busy, cancel, done, approved, stq, uiq, scratch, todo, answer, cached, pending, msc, hid, ui, wpc, ses, pub, job, dead, stored>>
    BY DEF FidoTake, storage, history
<1>d. busy /\ ~Has(todo, "reply") /\ ~done /\ ~maint
    BY <1>a DEF DeviceInv, BusyInv
<1>l. Head(cmdq).op # "lock"
    BY <1>a DEF FidoJob
<1>1. Core0Type' /\ PlanInv' /\ AnswersInv'
    BY Frames DEF DeviceInv, DeviceType, FidoTake, mailbox, queues, storage, worker, history
<1>2. FlagType'
    BY <1>b, <1>o DEF DeviceInv, DeviceType, FlagType
<1>3. QueueType'
    BY <1>a, <1>o DEF DeviceInv, DeviceType, QueueType
<1>4. WorkerType'
    BY <1>c, <1>o DEF DeviceInv, DeviceType, WorkerType
<1>5. TokenInv'
    BY <1>a, <1>o DEF DeviceInv, TokenInv, Storing, Awaiting, Direction
<1>6. BusyInv'
    BY <1>a, <1>c, <1>d, <1>o DEF DeviceInv, BusyInv, UiJob, FidoJob
<1>7. BatchInv'
    BY <1>a, <1>o DEF DeviceInv, BatchInv, Storing
<1>8. DeadInv'
    BY <1>a, <1>c, <1>l, <1>o DEF DeviceInv, DeadInv, LockSent
<1>9. OutputInv'
    BY <1>c, <1>o DEF DeviceInv, OutputInv
<1>10. CancelInv'
    BY <1>a, <1>c, <1>w, <1>d, <1>o DEF DeviceInv, DeviceType, WorkerType, CancelInv, FidoJob
<1>11. breach' = {}
    BY DEF DeviceInv, FidoTake, mailbox, queues, storage, worker, history
<1> QED BY <1>1, <1>2, <1>3, <1>4, <1>5, <1>6, <1>7, <1>8, <1>9, <1>10, <1>11 DEF DeviceInv, DeviceType

\* ask: a cancelled request and a minute without an answer end the prompt.
LEMMA AskAbortStep ==
    ASSUME DeviceInv, AskAbort
    PROVE  DeviceInv'
<1>1. QueueType' /\ Core0Type' /\ WorkerType' /\ PlanInv' /\ TokenInv' /\ BusyInv' /\ BatchInv' /\ AnswersInv' /\ DeadInv' /\ OutputInv' /\ CancelInv'
    BY Frames DEF DeviceInv, DeviceType, AskAbort, mailbox, queues, storage, worker, history, FidoSame
<1>2. FlagType'
    BY DEF DeviceInv, DeviceType, AskAbort, FlagType, FidoSame, mailbox, queues, storage, worker, history
<1>3. breach' = {}
    BY DEF DeviceInv, AskAbort, mailbox, queues, storage, worker, history, FidoSame
<1> QED BY <1>1, <1>2, <1>3 DEF DeviceInv, DeviceType

\* ask reads the answer.
LEMMA AskAnsweredStep ==
    ASSUME DeviceInv, AskAnswered
    PROVE  DeviceInv'
<1>y. /\ fido \in Execution /\ fido.gen \in Nat /\ fido.from \in Nat /\ ses.gen \in Nat /\ fido.output \in BOOLEAN
    BY DEF DeviceInv, DeviceType, WorkerType, Execution
<1>c. /\ fido' \in Execution /\ fido'.at = "dismiss" /\ fido'.output = fido.output /\ fido'.gen = fido.gen /\ fido'.locks = fido.locks
  <2> DEFINE v == approved /\ ~Cancelled
             x == [fido EXCEPT !.at = "dismiss"]
  <2>1. v \in BOOLEAN
      BY DEF DeviceInv, DeviceType, FlagType
  <2>2. fido' = [x EXCEPT !.ok = v]
      BY <1>y DEF AskAnswered, Execution
  <2>3. x \in Execution /\ x.at = "dismiss" /\ x.output = fido.output /\ x.gen = fido.gen /\ x.locks = fido.locks
      BY <1>y DEF Execution
  <2> HIDE DEF v, x
  <2> QED BY <2>1, <2>2, <2>3 DEF Execution
<1>o. UNCHANGED <<inval, maint, busy, cmdq, stq, uiq, scratch, todo, answer, cached, pending, msc, hid, ui, wpc, job, dead, stored, ses, pub, cancel, done>>
    BY DEF AskAnswered, FidoSame, mailbox, queues, storage, history
<1>a. fido.at = "ask" /\ ~fido.output
    BY DEF DeviceInv, OutputInv, AskAnswered
<1>d. busy /\ ~Has(todo, "reply") /\ ~done /\ ~FidoJob /\ wpc # "derive" /\ wpc # "opened"
    BY <1>a DEF DeviceInv, BusyInv
<1>1. FlagType' /\ QueueType' /\ Core0Type' /\ PlanInv' /\ TokenInv' /\ BatchInv' /\ AnswersInv'
    BY Frames DEF DeviceInv, DeviceType, AskAnswered, mailbox, queues, storage, worker, history, FidoSame
<1>2. WorkerType'
    BY <1>c, <1>o DEF DeviceInv, DeviceType, WorkerType
<1>3. BusyInv'
    BY <1>a, <1>c, <1>d, <1>o DEF DeviceInv, BusyInv, UiJob, FidoJob
<1>4. DeadInv'
    BY <1>a, <1>c, <1>o DEF DeviceInv, DeadInv, LockSent
<1>5. OutputInv'
    BY <1>a, <1>c, <1>y, <1>o DEF DeviceInv, OutputInv
<1>6. CancelInv'
    BY <1>a, <1>c, <1>d, <1>o DEF DeviceInv, CancelInv, FidoJob, LockSent
<1>7. breach' = {}
    BY DEF DeviceInv, AskAnswered, FidoSame, history
<1> QED BY <1>1, <1>2, <1>3, <1>4, <1>5, <1>6, <1>7 DEF DeviceInv, DeviceType

\* The prompt is closed; a request without the consent of the user ends.
LEMMA AskDismissedStep ==
    ASSUME DeviceInv, AskDismissed
    PROVE  DeviceInv'
<1>y. /\ fido \in Execution /\ fido.gen \in Nat /\ fido.from \in Nat /\ ses.gen \in Nat /\ fido.output \in BOOLEAN
    BY DEF DeviceInv, DeviceType, WorkerType, Execution
<1>c. /\ fido' \in Execution /\ fido'.at \in {"finish", "verify", "engine"} /\ fido'.output = fido.output /\ fido'.gen = fido.gen /\ fido'.locks = fido.locks
  <2> DEFINE v == IF ~fido.ok THEN "finish" ELSE IF fido.secret THEN "verify" ELSE "engine"
  <2>1. v \in {"finish", "verify", "engine"}
      OBVIOUS
  <2>2. fido' = [fido EXCEPT !.at = v]
      BY DEF AskDismissed
  <2> HIDE DEF v
  <2> QED BY <1>y, <2>1, <2>2 DEF Execution
<1>o. UNCHANGED <<inval, maint, busy, cmdq, stq, uiq, scratch, todo, answer, cached, pending, msc, hid, ui, wpc, job, dead, stored, ses, pub, cancel, done>>
    BY DEF AskDismissed, FidoSame, mailbox, queues, storage, history
<1>a. fido.at = "dismiss" /\ ~fido.output
    BY DEF DeviceInv, OutputInv, AskDismissed
<1>d. busy /\ ~Has(todo, "reply") /\ ~done /\ ~FidoJob /\ wpc # "derive" /\ wpc # "opened"
    BY <1>a DEF DeviceInv, BusyInv
<1>1. FlagType' /\ QueueType' /\ Core0Type' /\ PlanInv' /\ TokenInv' /\ BatchInv' /\ AnswersInv'
    BY Frames DEF DeviceInv, DeviceType, AskDismissed, mailbox, queues, storage, worker, history, FidoSame
<1>2. WorkerType'
    BY <1>c, <1>o DEF DeviceInv, DeviceType, WorkerType
<1>3. BusyInv'
    BY <1>a, <1>c, <1>d, <1>o DEF DeviceInv, BusyInv, UiJob, FidoJob
<1>4. DeadInv'
    BY <1>a, <1>c, <1>o DEF DeviceInv, DeadInv, LockSent
<1>5. OutputInv'
    BY <1>a, <1>c, <1>y, <1>o DEF DeviceInv, OutputInv
<1>6. CancelInv'
    BY <1>a, <1>c, <1>d, <1>o DEF DeviceInv, CancelInv, FidoJob, LockSent
<1>7. breach' = {}
    BY DEF DeviceInv, AskDismissed, FidoSame, history
<1> QED BY <1>1, <1>2, <1>3, <1>4, <1>5, <1>6, <1>7 DEF DeviceInv, DeviceType

\* The engine runs; it has private output only in an authorised session.
LEMMA EngineStep ==
    ASSUME NEW output \in BOOLEAN, DeviceInv, Engine(output)
    PROVE  DeviceInv'
<1>y. /\ fido \in Execution /\ fido.gen \in Nat /\ fido.from \in Nat /\ ses.gen \in Nat /\ fido.output \in BOOLEAN
    BY DEF DeviceInv, DeviceType, WorkerType, Execution
<1>a. fido.at = "engine" /\ wpc = "idle"
    BY DEF Engine
<1>d. busy /\ ~Has(todo, "reply") /\ ~done /\ ~FidoJob
    BY <1>a DEF DeviceInv, BusyInv
<1>o. UNCHANGED <<inval, maint, busy, cmdq, stq, uiq, scratch, todo, answer, cached, pending, msc, hid, ui, wpc, job, dead, stored, ses, pub, cancel, done>>
    BY DEF Engine, FidoSame, mailbox, queues, storage, history
<1>b. output => ses.mode # "locked"
    BY DEF Engine, Fido
<1>c. /\ fido' \in Execution /\ fido'.at = "finish" /\ fido'.output = output /\ fido'.from = ses.gen /\ fido'.gen = fido.gen /\ fido'.locks = fido.locks
  <2> DEFINE x == [fido EXCEPT !.at = "finish"]
             u == [x EXCEPT !.output = output]
             g == ses.gen
  <2>1. fido' = [u EXCEPT !.from = g] /\ g \in Nat
      BY <1>y DEF Engine, Execution
  <2>2. x \in Execution /\ x.at = "finish" /\ x.gen = fido.gen /\ x.locks = fido.locks
      BY <1>y DEF Execution
  <2> HIDE DEF x
  <2>3. u \in Execution /\ u.at = "finish" /\ u.output = output /\ u.gen = fido.gen /\ u.locks = fido.locks
      BY <2>2 DEF Execution
  <2>4. g = ses.gen
      OBVIOUS
  <2> HIDE DEF u, g
  <2> QED BY <2>1, <2>3, <2>4 DEF Execution
<1>1. FlagType' /\ QueueType' /\ Core0Type' /\ PlanInv' /\ TokenInv' /\ BatchInv' /\ AnswersInv'
    BY Frames DEF DeviceInv, DeviceType, Engine, mailbox, queues, storage, worker, history, FidoSame
<1>2. WorkerType'
    BY <1>c, <1>o DEF DeviceInv, DeviceType, WorkerType
<1>3. BusyInv'
    BY <1>a, <1>c, <1>d, <1>o DEF DeviceInv, BusyInv, UiJob, FidoJob
<1>4. DeadInv'
    BY <1>a, <1>c, <1>o DEF DeviceInv, DeadInv, LockSent
<1>5. OutputInv'
    BY <1>b, <1>c, <1>y, <1>o DEF DeviceInv, OutputInv
<1>6. CancelInv'
    BY <1>a, <1>c, <1>d, <1>o DEF DeviceInv, DeviceType, WorkerType, CancelInv, FidoJob, LockSent
<1>7. breach' = {}
    BY DEF DeviceInv, Engine, FidoSame, history
<1> QED BY <1>1, <1>2, <1>3, <1>4, <1>5, <1>6, <1>7 DEF DeviceInv, DeviceType

\* finish: the output of a cancelled request is wiped, then the generation is captured.
LEMMA FinishStep ==
    ASSUME DeviceInv, Finish
    PROVE  DeviceInv'
<1>y. /\ fido \in Execution /\ fido.gen \in Nat /\ fido.from \in Nat /\ ses.gen \in Nat /\ fido.output \in BOOLEAN
    BY DEF DeviceInv, DeviceType, WorkerType, Execution
<1>a. fido.at = "finish" /\ wpc = "idle"
    BY DEF Finish
<1>d. busy /\ ~Has(todo, "reply") /\ ~done /\ ~FidoJob
    BY <1>a DEF DeviceInv, BusyInv
<1>o. UNCHANGED <<inval, maint, busy, cmdq, stq, uiq, scratch, todo, answer, cached, pending, msc, hid, ui, wpc, job, dead, stored, ses, pub, cancel, done>>
    BY DEF Finish, FidoSame, mailbox, queues, storage, history
<1>c. /\ fido' \in Execution /\ fido'.at = "captured" /\ (fido'.output => fido.output /\ ~Cancelled) /\ fido'.from = fido.from
      /\ fido'.gen = ses.gen /\ fido'.locks = fido.locks
  <2> DEFINE x == [fido EXCEPT !.at = "captured"]
             w == fido.output /\ ~Cancelled
             u == [x EXCEPT !.output = w]
  <2>1. w \in BOOLEAN /\ pub \in Nat /\ pub = ses.gen
      BY <1>y DEF DeviceInv, DeviceType, WorkerType
  <2>2. fido' = [u EXCEPT !.gen = pub]
      BY <1>y DEF Finish, Execution
  <2>3. x \in Execution /\ x.at = "captured" /\ x.from = fido.from /\ x.locks = fido.locks
      BY <1>y DEF Execution
  <2> HIDE DEF x
  <2>4. \A b \in BOOLEAN : /\ [x EXCEPT !.output = b] \in Execution /\ [x EXCEPT !.output = b].at = "captured" /\ [x EXCEPT !.output = b].output = b
                           /\ [x EXCEPT !.output = b].from = fido.from /\ [x EXCEPT !.output = b].locks = fido.locks
      BY <2>3 DEF Execution
  <2>5. u \in Execution /\ u.at = "captured" /\ u.output = w /\ u.from = fido.from /\ u.locks = fido.locks
      BY <2>1, <2>4, Zenon
  <2>6. w => fido.output /\ ~Cancelled
      OBVIOUS
  <2> HIDE DEF u, w
  <2>7. fido' \in Execution /\ fido'.at = "captured" /\ fido'.output = u.output /\ fido'.from = fido.from /\ fido'.gen = pub /\ fido'.locks = fido.locks
      BY <2>1, <2>2, <2>5 DEF Execution
  <2> QED BY <2>1, <2>5, <2>6, <2>7
<1>1. FlagType' /\ QueueType' /\ Core0Type' /\ PlanInv' /\ TokenInv' /\ BatchInv' /\ AnswersInv'
    BY Frames DEF DeviceInv, DeviceType, Finish, mailbox, queues, storage, worker, history, FidoSame
<1>2. WorkerType'
    BY <1>c, <1>o DEF DeviceInv, DeviceType, WorkerType
<1>3. BusyInv'
    BY <1>a, <1>c, <1>d, <1>o DEF DeviceInv, BusyInv, UiJob, FidoJob
<1>4. DeadInv'
    BY <1>a, <1>c, <1>o DEF DeviceInv, DeadInv, LockSent
<1>5. OutputInv'
    BY <1>a, <1>c, <1>y, <1>o DEF DeviceInv, OutputInv, Cancelled
<1>6. CancelInv'
    BY <1>a, <1>c, <1>d, <1>y, <1>o DEF DeviceInv, CancelInv, FidoJob
<1>7. breach' = {}
    BY DEF DeviceInv, Finish, FidoSame, history
<1> QED BY <1>1, <1>2, <1>3, <1>4, <1>5, <1>6, <1>7 DEF DeviceInv, DeviceType

\* A cancelled request ends the session it used; then the answer is published.
LEMMA PublishStep ==
    ASSUME DeviceInv, Publish
    PROVE  DeviceInv'
<1>y. /\ fido \in Execution /\ fido.gen \in Nat /\ fido.from \in Nat /\ ses.gen \in Nat /\ fido.output \in BOOLEAN
    BY DEF DeviceInv, DeviceType, WorkerType, Execution
<1>a. fido.at = "captured" /\ wpc = "idle"
    BY DEF Publish
<1>d. busy /\ ~Has(todo, "reply") /\ ~done /\ ~FidoJob
    BY <1>a DEF DeviceInv, BusyInv
<1>o. UNCHANGED <<inval, maint, busy, cmdq, stq, uiq, scratch, todo, answer, cached, pending, msc, hid, ui, wpc, job, dead, stored, job>>
    BY DEF Publish, FidoSame, mailbox, queues, storage, history
<1> DEFINE n == IF inval \/ (cancel /\ fido.locks) THEN 1 ELSE 0
<1>b. n \in Nat /\ (inval => n > 0)
    OBVIOUS
<1>e. LockTimes(n) /\ done' = TRUE /\ cancel' = cancel /\ abort' = abort /\ approved' = approved
    BY DEF Publish, mailbox
<1> HIDE DEF n
<1>l. /\ ses' \in [gen : Nat, mode : Mode] /\ pub' = ses'.gen /\ (n = 0 => ses' = ses) /\ (n > 0 => ses'.mode = "locked" /\ ses'.gen > ses.gen)
    BY <1>b, <1>e, LockTimesFacts DEF DeviceInv, DeviceType
<1>s. ses' = ses \/ (ses'.gen \in Nat /\ ses'.gen > ses.gen /\ ses'.mode = "locked")
    BY <1>l, <1>b
<1>z. answer \in Answers /\ cached \in Answers /\ (stq # <<>> => Head(stq) \in Answers) /\ hid.tx.from \in Nat
    BY DEF DeviceInv, DeviceType, Core0Type, QueueType, Channel, Transmission
<1>v. /\ \A r \in Answers : Truthful(r) => r.gen <= ses'.gen /\ (r.gen = ses'.gen /\ r.mode # "locked" => ses'.mode # "locked")
      /\ \A g \in Nat : g <= ses.gen => g <= ses'.gen /\ (g = ses'.gen => ses' = ses)
    BY <1>s, MovedOn
<1>c. /\ fido' \in Execution /\ fido'.at = "none" /\ fido'.output = fido.output /\ fido'.from = fido.from
      /\ fido'.gen = fido.gen /\ fido'.locks = fido.locks
  <2> DEFINE x == [fido EXCEPT !.at = "none"]
             w == ses'.mode # "locked"
  <2>1. fido' = [x EXCEPT !.unlocked = w]
      BY <1>y DEF Publish, Execution
  <2>2. x \in Execution /\ x.at = "none" /\ x.output = fido.output /\ x.from = fido.from /\ x.gen = fido.gen /\ x.locks = fido.locks
      BY <1>y DEF Execution
  <2>3. w \in BOOLEAN
      OBVIOUS
  <2> HIDE DEF x, w
  <2> QED BY <2>1, <2>2, <2>3 DEF Execution
<1>1. QueueType' /\ Core0Type' /\ PlanInv' /\ TokenInv' /\ BatchInv'
    BY Frames DEF DeviceInv, DeviceType, Publish, mailbox, queues, storage, worker, history, FidoSame
<1>2. FlagType'
    BY <1>e, <1>o DEF DeviceInv, DeviceType, FlagType
<1>3. WorkerType'
    BY <1>c, <1>l, <1>o DEF DeviceInv, DeviceType, WorkerType
<1>4. BusyInv'
    BY <1>a, <1>c, <1>d, <1>e, <1>o DEF DeviceInv, BusyInv, UiJob, FidoJob
<1>5. AnswersInv'
    BY <1>v, <1>y, <1>z, <1>o DEF DeviceInv, AnswersInv, Truthful
<1>6. DeadInv'
    BY <1>a, <1>b, <1>c, <1>l, <1>s, <1>y, <1>o DEF DeviceInv, DeadInv, LockSent
<1>7. OutputInv'
    BY <1>a, <1>c, <1>s, <1>v, <1>y, <1>z, <1>o DEF DeviceInv, OutputInv
<1>8. CancelInv'
    BY <1>a, <1>c, <1>d, <1>e, <1>v, <1>y, <1>o DEF DeviceInv, CancelInv, FidoJob
<1>9. breach' = {}
    BY DEF DeviceInv, Publish, FidoSame, history
<1> QED BY <1>1, <1>2, <1>3, <1>4, <1>5, <1>6, <1>7, <1>8, <1>9 DEF DeviceInv, DeviceType

\* A bus event that came while the secret was verified locks again.
LEMMA VerifiedStep ==
    ASSUME DeviceInv, Verified
    PROVE  DeviceInv'
<1>y. /\ fido \in Execution /\ fido.gen \in Nat /\ fido.from \in Nat /\ ses.gen \in Nat /\ fido.output \in BOOLEAN
    BY DEF DeviceInv, DeviceType, WorkerType, Execution
<1>a. fido.at = "verified" /\ wpc = "idle"
    BY DEF Verified
<1>d. busy /\ ~Has(todo, "reply") /\ ~done /\ ~FidoJob
    BY <1>a DEF DeviceInv, BusyInv
<1>o. UNCHANGED <<inval, maint, busy, cmdq, stq, uiq, scratch, todo, answer, cached, pending, msc, hid, ui, wpc, job, dead, stored, job>>
    BY DEF Verified, FidoSame, mailbox, queues, storage, history
<1> DEFINE n == IF Survives THEN 0 ELSE 1
<1>b. n \in Nat /\ (inval => n > 0)
    BY DEF Survives
<1>e. LockTimes(n) /\ done' = done /\ cancel' = cancel /\ abort' = abort /\ approved' = approved
    BY DEF Verified, mailbox
<1>f. fido' = [Cut(n) EXCEPT !.at = IF Cancelled THEN "finish" ELSE "engine"]
    BY DEF Verified
<1> HIDE DEF n
<1>l. /\ ses' \in [gen : Nat, mode : Mode] /\ pub' = ses'.gen /\ (n = 0 => ses' = ses) /\ (n > 0 => ses'.mode = "locked" /\ ses'.gen > ses.gen)
    BY <1>b, <1>e, LockTimesFacts DEF DeviceInv, DeviceType
<1>s. ses' = ses \/ (ses'.gen \in Nat /\ ses'.gen > ses.gen /\ ses'.mode = "locked")
    BY <1>l, <1>b
<1>z. answer \in Answers /\ cached \in Answers /\ (stq # <<>> => Head(stq) \in Answers) /\ hid.tx.from \in Nat
    BY DEF DeviceInv, DeviceType, Core0Type, QueueType, Channel, Transmission
<1>v. /\ \A r \in Answers : Truthful(r) => r.gen <= ses'.gen /\ (r.gen = ses'.gen /\ r.mode # "locked" => ses'.mode # "locked")
      /\ \A g \in Nat : g <= ses.gen => g <= ses'.gen /\ (g = ses'.gen => ses' = ses)
    BY <1>s, MovedOn
<1>c. /\ fido' \in Execution /\ fido'.at \in {"finish", "engine"} /\ ~fido'.output
      /\ fido'.gen = fido.gen /\ fido'.locks = fido.locks
  <2> DEFINE x == Cut(n)
             w == IF Cancelled THEN "finish" ELSE "engine"
  <2>1. x \in Execution /\ x.output = fido.output /\ x.gen = fido.gen /\ x.locks = fido.locks
      BY <1>b, CutFacts DEF DeviceInv, DeviceType
  <2>2. ~fido.output
      BY <1>a DEF DeviceInv, OutputInv
  <2>3. w \in {"finish", "engine"} /\ fido' = [x EXCEPT !.at = w]
      BY <1>f
  <2> HIDE DEF x, w
  <2> QED BY <2>1, <2>2, <2>3 DEF Execution
<1>1. FlagType' /\ QueueType' /\ Core0Type' /\ PlanInv' /\ TokenInv' /\ BatchInv'
    BY Frames DEF DeviceInv, DeviceType, Verified, mailbox, queues, storage, worker, history, FidoSame
<1>2. WorkerType'
    BY <1>c, <1>l, <1>o DEF DeviceInv, DeviceType, WorkerType
<1>3. BusyInv'
    BY <1>a, <1>c, <1>d, <1>e, <1>o DEF DeviceInv, BusyInv, UiJob, FidoJob
<1>4. AnswersInv'
    BY <1>v, <1>y, <1>z, <1>o DEF DeviceInv, AnswersInv, Truthful
<1>5. DeadInv'
    BY <1>a, <1>b, <1>c, <1>l, <1>s, <1>y, <1>o DEF DeviceInv, DeadInv, LockSent
<1>6. OutputInv'
    BY <1>a, <1>c, <1>s, <1>v, <1>y, <1>z, <1>o DEF DeviceInv, OutputInv
<1>7. CancelInv'
    BY <1>a, <1>c, <1>d, <1>e, <1>v, <1>y, <1>o DEF DeviceInv, CancelInv, FidoJob
<1>8. breach' = {}
    BY DEF DeviceInv, Verified, FidoSame, history
<1> QED BY <1>1, <1>2, <1>3, <1>4, <1>5, <1>6, <1>7, <1>8 DEF DeviceInv, DeviceType

\* fv_fido_verify_secret: a locked vault is opened for passkeys, an open one checks the secret, a wrong secret locks.
LEMMA VerifyStep ==
    ASSUME NEW ok \in BOOLEAN, DeviceInv, Verify(ok)
    PROVE  DeviceInv'
<1>y. /\ fido \in Execution /\ fido.gen \in Nat /\ fido.from \in Nat /\ ses.gen \in Nat /\ fido.output \in BOOLEAN
    BY DEF DeviceInv, DeviceType, WorkerType, Execution
<1>a. fido.at = "verify" /\ wpc = "idle"
    BY DEF Verify
<1>d. busy /\ ~Has(todo, "reply") /\ ~done /\ ~FidoJob
    BY <1>a DEF DeviceInv, BusyInv
<1>o. UNCHANGED <<inval, maint, busy, cmdq, stq, uiq, scratch, todo, answer, cached, pending, msc, hid, ui, wpc, job, dead, stored, job>>
    BY DEF Verify, FidoSame, mailbox, queues, storage, history
<1>z. answer \in Answers /\ cached \in Answers /\ (stq # <<>> => Head(stq) \in Answers) /\ hid.tx.from \in Nat
    BY DEF DeviceInv, DeviceType, Core0Type, QueueType, Channel, Transmission
<1> DEFINE Shut(n, k) == LockTimes(n) /\ fido' = [Cut(k) EXCEPT !.at = "finish"]
           Open == /\ ses' = (IF ses.mode = "locked" THEN [gen |-> ses.gen + 1, mode |-> "passkeys"] ELSE ses) /\ pub' = ses'.gen
                   /\ fido' = [fido EXCEPT !.at = "verified"]
<1>b. (inval /\ Shut(1, 1)) \/ (~inval /\ (Shut(0, 0) \/ Open \/ Shut(2, 2)))
  <2>1. CASE inval
      BY <2>1 DEF Verify
  <2>2. CASE ~inval /\ ses.mode # "locked" /\ ~Fido(ses.mode)
      BY <2>2 DEF Verify
  <2>3. CASE ~inval /\ ~(ses.mode # "locked" /\ ~Fido(ses.mode))
    <3>1. CASE ok
        BY <2>3, <3>1 DEF Verify
    <3>2. CASE ~ok
        BY <2>3, <3>2 DEF Verify
    <3> QED BY <3>1, <3>2
  <2> QED BY <2>1, <2>2, <2>3
<1>e. done' = done /\ cancel' = cancel /\ abort' = abort /\ approved' = approved
    BY DEF Verify, mailbox
<1>f. ~fido.output
    BY <1>a DEF DeviceInv, OutputInv
<1>c. /\ fido' \in Execution /\ fido'.at \in {"finish", "verified"} /\ ~fido'.output /\ fido'.gen = fido.gen /\ fido'.locks = fido.locks
  <2>1. ASSUME NEW k \in Nat, fido' = [Cut(k) EXCEPT !.at = "finish"]
        PROVE fido' \in Execution /\ fido'.at \in {"finish", "verified"} /\ ~fido'.output /\ fido'.gen = fido.gen /\ fido'.locks = fido.locks
    <3> DEFINE x == Cut(k)
    <3>1. x \in Execution /\ x.output = fido.output /\ x.gen = fido.gen /\ x.locks = fido.locks
        BY CutFacts DEF DeviceInv, DeviceType
    <3>2. fido' = [x EXCEPT !.at = "finish"]
        BY <2>1
    <3> HIDE DEF x
    <3> QED BY <1>f, <3>1, <3>2 DEF Execution
  <2>2. CASE fido' = [fido EXCEPT !.at = "verified"]
      BY <1>f, <1>y, <2>2 DEF Execution
  <2> QED BY <1>b, <2>1, <2>2
<1>l. /\ ses' \in [gen : Nat, mode : Mode] /\ pub' = ses'.gen
      /\ ses' = ses \/ (ses'.gen > ses.gen /\ (ses'.mode = "locked" \/ (ses'.gen = ses.gen + 1 /\ ~inval)))
      /\ inval => ses'.mode = "locked" /\ ses'.gen > ses.gen
  <2>1. ASSUME NEW k \in Nat, LockTimes(k)
        PROVE /\ ses' \in [gen : Nat, mode : Mode] /\ pub' = ses'.gen /\ (k = 0 => ses' = ses)
              /\ (k > 0 => ses'.mode = "locked" /\ ses'.gen > ses.gen)
      BY <2>1, LockTimesFacts DEF DeviceInv, DeviceType
  <2>2. CASE Open /\ ~inval
    <3>1. ses \in [gen : Nat, mode : Mode] /\ "passkeys" \in Mode
        BY DEF DeviceInv, DeviceType, WorkerType, Mode
    <3>2. CASE ses.mode = "locked"
        BY <1>y, <2>2, <3>1, <3>2
    <3>3. CASE ses.mode # "locked"
        BY <2>2, <3>1, <3>3
    <3> QED BY <3>2, <3>3
  <2>3. CASE Shut(1, 1)
      BY <2>1, <2>3
  <2>4. CASE ~inval /\ Shut(0, 0)
      BY <2>1, <2>4
  <2>5. CASE Shut(2, 2)
      BY <2>1, <2>5
  <2> QED BY <1>b, <2>2, <2>3, <2>4, <2>5
<1> HIDE DEF Shut, Open
<1>v. /\ \A g \in Nat : g <= ses.gen => g <= ses'.gen /\ (g = ses'.gen => ses' = ses)
    BY <1>l, <1>y
<1>w. \A r \in Answers : Truthful(r) => r.gen <= ses'.gen /\ (r.gen = ses'.gen /\ r.mode # "locked" => ses'.mode # "locked")
    BY <1>v DEF Answers, Truthful
<1>1. FlagType' /\ QueueType' /\ Core0Type' /\ PlanInv' /\ TokenInv' /\ BatchInv'
    BY Frames DEF DeviceInv, DeviceType, Verify, mailbox, queues, storage, worker, history, FidoSame
<1>2. WorkerType'
    BY <1>c, <1>l, <1>o DEF DeviceInv, DeviceType, WorkerType
<1>3. BusyInv'
    BY <1>a, <1>c, <1>d, <1>e, <1>o DEF DeviceInv, BusyInv, UiJob, FidoJob
<1>4. AnswersInv'
    BY <1>w, <1>z, <1>o DEF DeviceInv, AnswersInv, Truthful
<1>5. DeadInv'
    BY <1>a, <1>c, <1>l, <1>y, <1>o DEF DeviceInv, DeadInv, LockSent
<1>6. OutputInv'
    BY <1>c, <1>v, <1>y, <1>z, <1>o DEF DeviceInv, OutputInv
<1>7. CancelInv'
    BY <1>a, <1>c, <1>d, <1>e, <1>v, <1>y, <1>o DEF DeviceInv, CancelInv, FidoJob
<1>8. breach' = {}
    BY DEF DeviceInv, Verify, FidoSame, history
<1> QED BY <1>1, <1>2, <1>3, <1>4, <1>5, <1>6, <1>7, <1>8 DEF DeviceInv, DeviceType

-----------------------------------------------------------------------------
(* The theorems *)

\* The device after start-up.
LEMMA DeviceInit ==
    ASSUME Init
    PROVE  DeviceInv
<1>e. todo = <<>> /\ (\A w : ~Has(todo, w)) /\ (\A d, o : ~Plans(todo, d, o)) /\ ~Awaiting /\ todo \in Seq(Step) /\ Planned(todo)
    BY EmptyPlan DEF Awaiting, Init
<1>s. Locked \in [gen : Nat, mode : Mode] /\ Locked.gen = 0 /\ Locked.mode = "locked"
    BY DEF Locked, Mode
<1>1. FlagType
    BY DEF Init, FlagType
<1>2. QueueType
    BY DEF Init, QueueType
<1>3. WorkerType
  <2>1. NoJob \in Job
      BY DEF NoJob, Job, Mode
  <2>2. NoFido \in Execution
      BY DEF NoFido, Execution
  <2>3. Wiped \in [of : {"nothing", "host", "vault"}, gen : Nat]
      BY DEF Wiped
  <2> QED BY <1>s, <2>1, <2>2, <2>3 DEF Init, WorkerType
<1>n. NotReady \in Answers /\ Truthful(NotReady)
    BY <1>3, NotReadyFacts
<1>4. Core0Type
  <2>1. NoCommand \in Command
      BY DEF NoCommand, Command
  <2>2. QuietHid \in Channel
      BY DEF QuietHid, NoReply, Channel, Transmission
  <2>3. ui \in Screen
      BY DEF Init, Screen, Mode
  <2> QED BY <1>e, <1>n, <2>1, <2>2, <2>3 DEF Init, Core0Type
<1>5. PlanInv
    BY <1>e DEF PlanInv
<1>6. TokenInv
    BY <1>e DEF Init, TokenInv, Storing
<1>7. BusyInv
    BY <1>e DEF Init, BusyInv, UiJob, FidoJob, NoFido
<1>8. BatchInv
    BY <1>e DEF Init, BatchInv, Storing, NoCommand
<1>9. AnswersInv
    BY <1>n DEF Init, AnswersInv
<1>10. DeadInv
    BY <1>s DEF Init, DeadInv
<1>11. OutputInv
    BY DEF Init, OutputInv, NoFido, QuietHid, NoReply
<1>12. CancelInv
    BY <1>e, <1>s DEF Init, CancelInv, FidoJob, NoFido
<1> QED BY <1>1, <1>2, <1>3, <1>4, <1>5, <1>6, <1>7, <1>8, <1>9, <1>10, <1>11, <1>12 DEF DeviceInv, DeviceType, Init

\* Every step of either core, of the host, the user and the bus keeps the invariant.
LEMMA DeviceStep ==
    ASSUME DeviceInv, [Next]_vars
    PROVE  DeviceInv'
<1>1. CASE UNCHANGED vars
    BY <1>1, Frames DEF vars, DeviceInv, DeviceType, mailbox, queues, storage, worker, history
<1>2. CASE Core0
  <2>1. ASSUME NEW show \in BOOLEAN, PromptShow(show) PROVE DeviceInv'
      BY <2>1, PromptShowStep
  <2>2. CASE WaitBatch \/ Rpc \/ Clear \/ Send \/ Await \/ StoragePoll \/ Begun
      BY <2>2, WaitBatchStep, RpcStep, ClearStep, SendStep, AwaitStep, StoragePollStep, BegunStep
  <2>3. CASE Harvest \/ TransferError \/ StartBatch \/ Deliver \/ Acknowledge
      BY <2>3, HarvestStep, TransferErrorStep, StartBatchStep, DeliverStep, AcknowledgeStep
  <2>4. CASE Lost \/ Done \/ Reply \/ Start \/ SendReport
      BY <2>4, LostStep, DoneStep, ReplyStep, StartStep, SendReportStep
  <2>5. CASE PromptAborted \/ PromptDismiss \/ UiRefresh \/ UiStart \/ Post \/ UiResult \/ Completed
      BY <2>5, PromptAbortedStep, PromptDismissStep, UiRefreshStep, UiStartStep, PostStep, UiResultStep, CompletedStep
  <2> QED BY <1>2, <2>1, <2>2, <2>3, <2>4, <2>5 DEF Core0
<1>3. CASE Worker
  <2>1. CASE StorageTake \/ UiTake \/ FidoTake
      BY <2>1, StorageTakeStep, UiTakeStep, FidoTakeStep
  <2>2. ASSUME NEW outcome \in {"ok", "fault", "expired"}, Transfer(outcome) PROVE DeviceInv'
      BY <2>2, TransferStep
  <2>3. ASSUME NEW ok \in BOOLEAN, Derive(ok) \/ Verify(ok) \/ Engine(ok) PROVE DeviceInv'
      BY <2>3, DeriveStep, VerifyStep, EngineStep
  <2>4. CASE Opened \/ AskAbort \/ AskAnswered \/ AskDismissed \/ Verified \/ Finish \/ Publish
      BY <2>4, OpenedStep, AskAbortStep, AskAnsweredStep, AskDismissedStep, VerifiedStep, FinishStep, PublishStep
  <2> QED BY <1>3, <2>1, <2>2, <2>3, <2>4 DEF Worker
<1>4. CASE Environment
  <2>1. CASE BusEvent \/ Expire \/ Eject \/ HostCancel
      BY <2>1, BusEventStep, ExpireStep, EjectStep, HostCancelStep
  <2>2. ASSUME NEW op \in {"read", "write"}, Begin(op) PROVE DeviceInv'
      BY <2>2, BeginStep
  <2>3. ASSUME NEW private \in BOOLEAN, HostRequest(private) PROVE DeviceInv'
      BY <2>3, HostRequestStep
  <2>4. ASSUME NEW ok \in BOOLEAN, UserAnswers(ok) PROVE DeviceInv'
      BY <2>4, UserAnswersStep
  <2>5. ASSUME NEW mode \in Choices, UiChoose("unlock", mode) PROVE DeviceInv'
    <3>1. mode \in Mode
        BY SessionChoices DEF Mode
    <3> QED BY <2>5, <3>1, UiChooseStep
  <2>6. ASSUME NEW op \in {"uilock", "change"}, UiChoose(op, "locked") PROVE DeviceInv'
    <3>1. "locked" \in Mode
        BY DEF Mode
    <3> QED BY <2>6, <3>1, UiChooseStep
  <2> QED BY <1>4, <2>1, <2>2, <2>3, <2>4, <2>5, <2>6 DEF Environment
<1> QED BY <1>1, <1>2, <1>3, <1>4 DEF Next

\* The two cores keep in step: who waits for which answer, whose batch is in
\* the buffer, which session an answer, a batch or a reply belongs to, and
\* that a session ended by a bus event has its lock on the way (usb_storage.c,
\* usb_storage_bridge.c, fido_adapter.c, device_ui_adapter.c, commands.c).
THEOREM DeviceInvariant == Spec => []DeviceInv
<1>1. Init => DeviceInv
    BY DeviceInit
<1>2. DeviceInv /\ [Next]_vars => DeviceInv'
    BY DeviceStep
<1> QED BY <1>1, <1>2, PTL DEF Spec

\* Neither plaintext nor a fragment of a FIDO reply leaves the device after
\* its session ended (transfer, fv_fido_poll).
THEOREM DeviceDeadStaysSilent == Spec => []DeadStaysSilent
<1>1. DeviceInv => DeadStaysSilent
    BY DEF DeviceInv, DeadStaysSilent
<1> QED BY <1>1, DeviceInvariant, PTL

\* An acknowledged write is stored, every batch of it (final_write in transfer).
THEOREM DeviceAckedWritten == Spec => []AckedWritten
<1>1. DeviceInv => AckedWritten
    BY DEF DeviceInv, AckedWritten
<1> QED BY <1>1, DeviceInvariant, PTL

\* When the host reads that its request was cancelled, the session that the
\* request used is over (fv_fido_execute, fv_fido_poll).
THEOREM DeviceCancelledSessionOver == Spec => []CancelledSessionOver
<1>1. DeviceInv => CancelledSessionOver
    BY DEF DeviceInv, CancelledSessionOver
<1> QED BY <1>1, DeviceInvariant, PTL

\* From queueing a batch to the answer of the worker the buffer belongs to the
\* worker (clear_pipeline, transfer).
LEMMA BufferStep ==
    ASSUME DeviceInv, Next, pending, stq = <<>>, scratch' # scratch
    PROVE  wpc = "io" /\ wpc' = "idle"
<1>0. msc.batch = "pending"
    BY DEF DeviceInv, TokenInv
<1>1. CASE Core0
  <2>1. ~Clear
      BY DEF Clear, PipelineFree
  <2>2. ~StartBatch /\ ~Deliver /\ ~Acknowledge
      BY <1>0 DEF StartBatch, Submits, Deliver, Acknowledge, Finished
  <2>3. ~(WaitBatch \/ Rpc \/ Send \/ Await \/ StoragePoll \/ Begun \/ Harvest \/ TransferError)
      BY DEF WaitBatch, Rpc, Send, Await, StoragePoll, Begun, Harvest, TransferError
  <2>4. ~(Lost \/ Done \/ Reply \/ Start \/ SendReport \/ PromptAborted \/ PromptDismiss)
      BY DEF Lost, Done, Reply, Start, SendReport, PromptAborted, PromptDismiss
  <2>5. ~(UiRefresh \/ UiStart \/ Post \/ UiResult \/ Completed) /\ \A show \in BOOLEAN : ~PromptShow(show)
      BY DEF UiRefresh, UiStart, Post, UiResult, Completed, PromptShow
  <2> QED BY <1>1, <2>1, <2>2, <2>3, <2>4, <2>5 DEF Core0
<1>2. CASE Worker
  <2>1. ASSUME NEW outcome \in {"ok", "fault", "expired"}, Transfer(outcome) PROVE wpc = "io" /\ wpc' = "idle"
      BY <2>1 DEF Transfer
  <2>2. ~(StorageTake \/ UiTake \/ FidoTake \/ Opened \/ AskAbort \/ AskAnswered \/ AskDismissed)
      BY DEF StorageTake, UiTake, FidoTake, Opened, AskAbort, AskAnswered, AskDismissed, FidoSame
  <2>3. ~(Verified \/ Finish \/ Publish) /\ \A ok \in BOOLEAN : ~(Derive(ok) \/ Verify(ok) \/ Engine(ok))
      BY DEF Verified, Finish, Publish, Derive, Verify, Engine, FidoSame
  <2> QED BY <1>2, <2>1, <2>2, <2>3 DEF Worker
<1>3. CASE Environment
  <2>1. ~(BusEvent \/ Expire \/ Eject \/ HostCancel)
      BY DEF BusEvent, Expire, Eject, HostCancel
  <2>2. \A op : ~Begin(op)
      BY DEF Begin
  <2>3. \A v : ~HostRequest(v) /\ ~UserAnswers(v)
      BY DEF HostRequest, UserAnswers
  <2>4. \A op, mode : ~UiChoose(op, mode)
      BY DEF UiChoose
  <2> QED BY <1>3, <2>1, <2>2, <2>3, <2>4 DEF Environment
<1> QED BY <1>1, <1>2, <1>3 DEF Next

\* Core 0 leaves the buffer of an outstanding batch alone (clear_pipeline, transfer).
THEOREM DeviceBufferOwned == Spec => BufferOwned
<1>1. DeviceInv /\ [Next]_vars => [pending /\ stq = <<>> /\ scratch' # scratch => wpc = "io" /\ wpc' = "idle"]_vars
    BY BufferStep
<1> QED BY <1>1, DeviceInvariant, PTL DEF Spec, BufferOwned
=============================================================================
