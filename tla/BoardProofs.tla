---------------------------- MODULE BoardProofs ----------------------------
(***************************************************************************)
(* Proofs about the parts of the board that the user and the clock drive:  *)
(* the card driver under an open session, the session timer with its       *)
(* mailbox between the cores, and the screens with their buttons and       *)
(* prompts.                                                                *)
(***************************************************************************)
EXTENDS SessionTimeout, CardDriver, DeviceUi, WellFoundedInduction, SequenceTheorems, TLAPS

-----------------------------------------------------------------------------
(* The card driver, for every set of cards, number of swaps and length of  *)
(* a transfer.  The argument: the driver is bound to another card only by  *)
(* Identify, and every caller of it has ended the session before.          *)

Places == {"idle", "identify", "result", "transfer", "ask", "prompt"}
Returns == {"idle", "result", "ask", "prompt"}
Aims == {"", "unlock", "change", "passkeys", "header", "storage", "profile", "verify", "reverify"}
StepType == [at : Places, for : Aims, left : Int, back : Returns]

\* The worker's step is well formed, and a job that waits for the card to be
\* identified has closed the session.
CardInv ==
    /\ step \in StepType
    /\ step.at = "identify" => session = NoCard
    /\ SessionKeepsCard

\* The two forms of a step that the actions build are well formed.
LEMMA StepForms ==
    /\ \A p \in Places : At(p) \in StepType /\ At(p).at = p
    /\ \A f \in Aims, r \in Returns :
          Transfer(f, r) \in StepType /\ Transfer(f, r).at = "transfer"
<1>1. \A p \in Places : At(p) \in StepType /\ At(p).at = p
    BY DEF At, StepType, Places, Returns, Aims
<1>2. Chunks \in Int
    BY CardAssumption
<1>3. \A f \in Aims, r \in Returns :
          Transfer(f, r) \in StepType /\ Transfer(f, r).at = "transfer"
    BY <1>2 DEF Transfer, StepType, Places
<1>4. QED
    BY <1>1, <1>3

\* fv_rp2354_sd_reinitialize in a locked device leaves the invariant: what the
\* driver is bound to does not matter while no session is open.
LEMMA IdentifyLocked ==
    ASSUME NEW ready \in StepType, NEW refused \in StepType,
           ready.at # "identify", refused.at # "identify",
           session = NoCard, session' = session, Identify(ready, refused)
    PROVE  CardInv'
BY DEF Identify, CardInv, SessionKeepsCard

\* Every step of the worker and every swap keeps the invariant of the driver.
LEMMA CardStep == CardInv /\ [CNext]_cvars => CardInv'
<1> SUFFICES ASSUME CardInv, [CNext]_cvars
             PROVE  CardInv'
    OBVIOUS
<1> USE DEF SessionKeepsCard
<1>1. CASE Chunk
  <2>1. step \in StepType /\ step.back \in Returns /\ step.at = "transfer"
      BY <1>1 DEF Chunk, CardInv, StepType
  <2>2. CASE IsPresent /\ step' = [step EXCEPT !.left = @ - 1] /\ UNCHANGED <<sd, session>>
      BY <2>1, <2>2 DEF CardInv, StepType
  <2>3. CASE Succeeded(step.for) /\ step' = At(step.back) /\ UNCHANGED sd
    <3>1. step' \in StepType /\ step'.at # "identify"
        BY <2>1, <2>3, StepForms DEF Places, Returns
    <3>2. session' \in {sd.of, session, NoCard}
        BY <2>3 DEF Succeeded
    <3>3. QED
        BY <3>1, <3>2, <2>3 DEF CardInv
  <2>4. CASE Fault /\ step' = At(IF step.for = "profile" THEN "idle" ELSE step.back)
    <3>1. step' \in StepType /\ step'.at # "identify"
        BY <2>1, <2>4, StepForms DEF Places, Returns
    <3>2. QED
        BY <3>1, <2>4 DEF CardInv, Fault, Uninitialized
  <2>5. QED
      BY <1>1, <2>2, <2>3, <2>4 DEF Chunk
<1>2. CASE JobIdentifies
  <2>1. step.for \in Aims /\ session = NoCard
      BY <1>2 DEF JobIdentifies, CardInv, StepType
  <2>2. QED
      BY <1>2, <2>1, StepForms, IdentifyLocked DEF JobIdentifies, Places, Returns
<1>3. CASE Result
  <2>1. CASE step' = At("idle") /\ UNCHANGED <<sd, session>>
      BY <2>1, StepForms DEF CardInv, Places
  <2>2. CASE step' = Transfer("header", "idle") /\ UNCHANGED <<sd, session>>
      BY <2>2, StepForms DEF CardInv, Returns, Aims
  <2>3. CASE session = NoCard /\ UNCHANGED session
             /\ Identify(Transfer("header", "idle"), At("idle"))
      BY <2>3, StepForms, IdentifyLocked DEF Places, Returns, Aims
  <2>4. QED
      BY <1>3, <2>1, <2>2, <2>3 DEF Result
<1>4. CASE Locks
    BY <1>4 DEF Locks, CardInv
<1>5. CASE Storage
    BY <1>5, StepForms DEF Storage, CardInv, Returns, Aims
<1>6. CASE FidoRequest
  <2>1. CASE session' = NoCard /\ UNCHANGED <<sd, step>>
      BY <2>1 DEF CardInv
  <2>2. CASE UNCHANGED <<sd, session>>
             /\ \/ step' \in {Transfer("passkeys", "ask"), Transfer("passkeys", "idle")}
                \/ step' = Transfer("profile", "ask")
      BY <2>2, StepForms DEF CardInv, Returns, Aims
  <2>3. CASE session = NoCard /\ UNCHANGED session
             /\ Identify(Transfer("profile", "ask"), At("idle"))
      BY <2>3, StepForms, IdentifyLocked DEF Places, Returns, Aims
  <2>4. QED
      BY <1>6, <2>1, <2>2, <2>3 DEF FidoRequest
<1>7. CASE FidoAsks
    BY <1>7, StepForms DEF FidoAsks, CardInv, Places, Returns, Aims
<1>8. CASE FidoVerify
    BY <1>8, StepForms DEF FidoVerify, CardInv, Places, Returns, Aims
<1>9. CASE SwapCard
    BY <1>9 DEF SwapCard, CardInv
<1>10. ASSUME NEW op \in {"unlock", "change", "status", "passkeys"}, Job(op)
       PROVE  CardInv'
  <2>1. CASE op \in {"unlock", "change"}
    <3>1. /\ session' = NoCard /\ UNCHANGED sd
          /\ step' = [At("identify") EXCEPT !.for = op]
        BY <1>10, <2>1 DEF Job
    <3>2. step' \in StepType
        BY <3>1, <2>1, StepForms DEF StepType, Places, Aims
    <3>3. QED
        BY <3>1, <3>2 DEF CardInv
  <2>2. CASE op = "status"
      BY <1>10, <2>2, StepForms DEF Job, CardInv, Places
  <2>3. CASE op = "passkeys"
      BY <1>10, <2>3, StepForms DEF Job, CardInv, Returns, Aims
  <2>4. QED
      BY <2>1, <2>2, <2>3
<1>11. CASE UNCHANGED cvars
    BY <1>11 DEF cvars, CardInv
<1>12. QED
    BY <1>1, <1>2, <1>3, <1>4, <1>5, <1>6, <1>7, <1>8, <1>9, <1>10, <1>11 DEF CNext

\* No transfer of an open session reaches a card other than the one the session
\* was opened on, however often and whenever cards are swapped, whether or not
\* the build has a detect pin.
THEOREM CardSessionKeepsCard == CSpec => []SessionKeepsCard
<1>1. CInit => CardInv
    BY StepForms DEF CInit, CardInv, SessionKeepsCard, Uninitialized, Places, Returns, Aims
<1>2. CardInv => SessionKeepsCard
    BY DEF CardInv
<1>3. QED
    BY <1>1, <1>2, CardStep, PTL DEF CSpec

-----------------------------------------------------------------------------
(* The session timer, for every clock width, interval, number of sessions  *)
(* and number of presses.                                                  *)

\* Where the worker is when an open session may be renewed.
InSession == {"idle", "verified", "poll", "sequence", "event", "again"}
\* The places where the generation core 0 sees is the worker's own.
Settled == {"idle", "unlock", "start", "revoke", "poll", "sequence", "event", "again"}

\* A generation is left for every lock that is under way or may follow, and a
\* timer runs only under a session, or until the lock that ends it.
GenerationInv ==
    /\ unlocked \/ timer.seconds # 0 \/ pc \in {"opened", "verified", "start", "revoke", "close"}
          => gen < MaxGeneration
    /\ pc \in Settled => published = gen
    /\ pc = "close" => published = gen + 1
    /\ timer.seconds # 0 => unlocked \/ pc \in {"verified", "revoke", "close"}
    /\ pc = "start" => unlocked
    /\ pc = "unlock" => ~unlocked
    /\ pc \in {"poll", "sequence", "event", "again"} => w.gen = gen

\* The sequence is odd exactly while core 0 writes an event, and every press
\* accounts for two steps of it.
MailboxInv ==
    /\ key.pc \in {"idle", "begin"} => seq % 2 = 0
    /\ key.pc \in {"store", "end"} => seq % 2 = 1
    /\ key.pc = "begin" => seq < 2 * MaxPresses
    /\ key.pc = "end" => event = key.gen
    /\ key.pc # "idle" => presses[key.gen] >= 1
    /\ \A g \in Generation :
         2 * presses[g] <= seq + (IF key.pc = "idle" THEN 0 ELSE IF key.pc = "begin" THEN 2 ELSE 1)
    /\ consumed <= seq

\* What the worker has read of the mailbox: a settled sequence that was not
\* taken yet, and the event that belongs to it unless core 0 went on.
ReadInv ==
    /\ pc \in {"event", "again"} => w.seq <= seq /\ w.seq % 2 = 0 /\ w.seq # consumed
    /\ pc = "again" /\ w.seq = seq => w.event = event

\* The presses of this session that may renew it yet: one on its way, and one
\* in the mailbox.
Coming == IF key.pc # "idle" /\ key.gen = gen THEN 1 ELSE 0
Waiting == IF seq % 2 = 0 /\ seq # consumed /\ event = gen THEN 1 ELSE 0
RenewalInv == unlocked /\ pc \in InSession => renewals + Coming + Waiting <= presses[gen]

\* The deadline is at least a whole interval after the last activity, and a
\* poll that passed the expiry test still does.
DeadlineInv ==
    /\ timer.seconds # 0 => timer.deadline >= Deadline(timer.seconds, last)
    /\ pc \in {"sequence", "event", "again"} => ~Expired(timer, w.at)

SessionInv ==
    TypeOK /\ GenerationInv /\ MailboxInv /\ ReadInv /\ RenewalInv /\ DeadlineInv

\* An interval is a number of seconds.
LEMMA SecondsNat == Seconds \cup {0} \subseteq Nat
BY SecondsAssumption

\* Deadline of session_timer.c: a whole interval on, or the end of the clock.
LEMMA DeadlineFacts ==
    ASSUME NEW s \in Nat, NEW t \in Time
    PROVE  /\ Duration(s) \in Nat
           /\ Deadline(s, t) \in Time
           /\ Deadline(s, t) = MaxTime \/ Deadline(s, t) = t + Duration(s)
<1>1. Duration(s) \in Nat
    BY TimeAssumption, SMT DEF Duration
<1>2. QED
    BY <1>1, TimeAssumption DEF Deadline, Time

\* What fv_session_timer_remaining shows is within the interval.
LEMMA RemainingFacts ==
    ASSUME NEW tm \in TimerType, NEW t \in Time
    PROVE  Remaining(tm, t) \in 0 .. tm.seconds
<1>1. tm.seconds \in Nat /\ tm.deadline \in Nat /\ t \in Nat
  <2>1. tm.seconds \in Seconds \cup {0} /\ tm.deadline \in Time /\ t \in Time
      BY DEF TimerType
  <2>2. QED
      BY <2>1, SecondsNat DEF Time
<1>2. CASE tm.seconds = 0 \/ Expired(tm, t)
    BY <1>1, <1>2 DEF Remaining
<1>3. CASE ~(tm.seconds = 0 \/ Expired(tm, t))
  <2> DEFINE n == tm.deadline - t + TicksPerSecond - 1
  <2>1. n \in Nat /\ TicksPerSecond \in Nat \ {0}
      BY <1>1, <1>3, TimeAssumption DEF Expired
  <2>2. n \div TicksPerSecond \in Nat
      BY <2>1, SMT
  <2>3. QED
      BY <1>1, <1>3, <2>2 DEF Remaining
<1>4. QED
    BY <1>2, <1>3

\* fv_session_timer_start: the deadline is on the clock, and an interval on.
LEMMA StartedFacts ==
    ASSUME NEW s \in Seconds \cup {0}, NEW t \in Time
    PROVE  /\ Started(s, t) \in TimerType
           /\ Started(s, t).seconds = s
           /\ s # 0 => Started(s, t).deadline = Deadline(s, t)
<1>1. s \in Nat /\ Deadline(s, t) \in Time /\ 0 \in Time
    BY DeadlineFacts, SecondsAssumption, TimeAssumption DEF Time
<1>2. QED
    BY <1>1 DEF Started, TimerType

\* fv_session_timer_touch on a timer that has not expired: never shortened, and
\* at least an interval after the touch.
LEMMA TouchedFacts ==
    ASSUME NEW tm \in TimerType, NEW t \in Time, ~Expired(tm, t)
    PROVE  /\ Touched(tm, t) \in TimerType
           /\ Touched(tm, t).seconds = tm.seconds
           /\ tm.seconds # 0 => Touched(tm, t).deadline >= Deadline(tm.seconds, t)
<1>1. /\ tm.seconds \in Seconds \cup {0} /\ tm.seconds \in Nat
      /\ tm.deadline \in Time /\ Deadline(tm.seconds, t) \in Time
  <2>1. tm.seconds \in Seconds \cup {0} /\ tm.deadline \in Time
      BY DEF TimerType
  <2>2. QED
      BY <2>1, DeadlineFacts, SecondsNat
<1>2. Time \subseteq Int
    BY DEF Time
<1>3. QED
    BY <1>1, <1>2 DEF Touched, TimerType

\* The end of a poll that found the session alive keeps the timer typed.
LEMMA FinishFacts ==
    ASSUME TypeOK, NEW taken \in BOOLEAN, ~Expired(timer, w.at), Finish(taken)
    PROVE  /\ timer' \in TimerType /\ timer'.seconds = timer.seconds
           /\ last' \in Time /\ remaining' \in 0 .. timer'.seconds
           /\ w' = NoWork /\ pc' = "idle"
           /\ UNCHANGED <<now, unlocked, gen, published, timerGen, mailbox>>
           /\ (timer.seconds # 0 => timer.deadline >= Deadline(timer.seconds, last))
                => (timer'.seconds # 0 => timer'.deadline >= Deadline(timer'.seconds, last'))
<1>1. timer \in TimerType /\ w.at \in Time /\ last \in Time
    BY DEF TypeOK, WorkType
<1>2. /\ Touched(timer, w.at) \in TimerType
      /\ Touched(timer, w.at).seconds = timer.seconds
      /\ timer.seconds # 0 => Touched(timer, w.at).deadline >= Deadline(timer.seconds, w.at)
    BY <1>1, TouchedFacts
<1>3. timer' \in TimerType /\ timer'.seconds = timer.seconds /\ last' \in Time
    BY <1>1, <1>2 DEF Finish
<1>4. remaining' \in 0 .. timer'.seconds
    BY <1>1, <1>3, RemainingFacts DEF Finish
<1>5. QED
    BY <1>2, <1>3, <1>4 DEF Finish

\* The values an idle worker and a stopped timer hold are typed.
LEMMA RestFacts == NoWork \in WorkType /\ Off \in TimerType /\ 0 \in Generation
BY TimeAssumption, SessionBounds DEF NoWork, WorkType, Off, TimerType, Time, Generation

\* Every step of both cores keeps the types.
LEMMA SessionTypeStep == SessionInv /\ [Next]_vars => TypeOK'
<1> SUFFICES ASSUME SessionInv, [Next]_vars
             PROVE  TypeOK'
    OBVIOUS
<1> USE TimeAssumption, SessionBounds, RestFacts DEF TypeOK, Generation
<1>0. TypeOK /\ GenerationInv /\ MailboxInv
    BY DEF SessionInv
<1>1. CASE Press
  <2>0. seq \in Nat /\ MaxPresses \in Nat
      BY <1>0
  <2>1. published \in Generation /\ presses[published] \in Nat
      BY <1>0
  <2>2. 2 * presses[published] <= seq /\ seq % 2 = 0 /\ seq < 2 * MaxPresses
      BY <1>0, <1>1, <2>1 DEF Press, MailboxInv
  <2>3. presses[published] + 1 \in 0 .. MaxPresses
      BY <2>1, <2>2, <2>0
  <2>4. presses' \in [Generation -> 0 .. MaxPresses]
      BY <1>0, <1>1, <2>3 DEF Press
  <2>5. QED
      BY <1>0, <1>1, <2>4 DEF Press, worker
<1>2. CASE EventBegin
  <2>1. seq + 1 \in 0 .. 2 * MaxPresses
    <3>1. seq \in Nat /\ MaxPresses \in Nat /\ seq < 2 * MaxPresses
        BY <1>0, <1>2 DEF EventBegin, MailboxInv
    <3>2. QED
        BY <3>1
  <2>2. QED
      BY <1>0, <1>2, <2>1 DEF EventBegin, worker
<1>3. CASE EventStore
    BY <1>0, <1>3 DEF EventStore, worker
<1>4. CASE EventEnd
  <2>1. seq + 1 \in 0 .. 2 * MaxPresses
    <3>1. seq % 2 = 1 /\ seq \in 0 .. 2 * MaxPresses
        BY <1>0, <1>4 DEF EventEnd, MailboxInv
    <3>2. seq # 2 * MaxPresses
        BY <3>1
    <3>3. QED
        BY <3>1, <3>2
  <2>2. QED
      BY <1>0, <1>4, <2>1 DEF EventEnd, worker
<1>5. CASE Tick
    BY <1>0, <1>5 DEF Tick, Time, worker, mailbox
<1>6. ASSUME NEW right \in BOOLEAN, NEW sec \in Seconds, Unlock(right, sec)
      PROVE  TypeOK'
  <2>0. gen + 1 \in 0 .. MaxGeneration
    <3>1. gen \in 0 .. MaxGeneration /\ gen + 2 <= MaxGeneration
        BY <1>0, <1>6, Zenon DEF Unlock
    <3>2. QED
        BY <3>1
  <2>1. w' \in WorkType
      BY <1>6 DEF Unlock, WorkType
  <2>2. QED
      BY <1>0, <1>6, <2>1, <2>0 DEF Unlock, mailbox
<1>7. CASE UnlockNoCard
    BY <1>0, <1>7 DEF UnlockNoCard, mailbox
<1>8. CASE PublishOpened
    BY <1>0, <1>8 DEF PublishOpened, mailbox
<1>9. CASE PublishVerified
  <2>1. w' \in WorkType
      BY <1>0, <1>9 DEF PublishVerified, WorkType
  <2>2. QED
      BY <1>0, <1>9, <2>1 DEF PublishVerified, mailbox
<1>10. CASE TimerStart
  <2>1. timer' \in TimerType /\ remaining' \in 0 .. timer'.seconds
      BY <1>0, <1>10, StartedFacts, RemainingFacts DEF TimerStart, WorkType
  <2>2. QED
      BY <1>0, <1>10, <2>1 DEF TimerStart, mailbox
<1>11. CASE Revoke
    BY <1>0, <1>11 DEF Revoke, GenerationInv, mailbox
<1>12. CASE Close
  <2>1. timer' = Off /\ remaining' = 0 /\ Off.seconds = 0
      BY <1>12 DEF Close, Stop, Off
  <2>2. gen + 1 \in 0 .. MaxGeneration
    <3>1. gen \in 0 .. MaxGeneration /\ gen < MaxGeneration
        BY <1>0, <1>12 DEF Close, GenerationInv
    <3>2. QED
        BY <3>1
  <2>3. pc' \in {"idle", "unlock"} /\ w' = NoWork /\ UNCHANGED <<now, last, published, renewals>>
      BY <1>12 DEF Close
  <2>4. /\ timerGen' = 0 /\ unlocked' = FALSE /\ gen' = gen + 1 /\ consumed' = seq
        /\ UNCHANGED <<seq, event, key, presses>>
      BY <1>12 DEF Close, Stop, mailbox
  <2>5. gen' \in 0 .. MaxGeneration
      BY <2>2, <2>4
  <2>6. timerGen' = 0 /\ unlocked' = FALSE /\ consumed' = seq /\ UNCHANGED <<seq, event, key, presses>>
      BY <2>4
  <2>7. timer' \in TimerType /\ remaining' \in 0 .. timer'.seconds
      BY <2>1
  <2>8. seq' \in 0 .. 2 * MaxPresses /\ consumed' \in 0 .. 2 * MaxPresses /\ event' \in Generation
      BY <1>0, <2>6
  <2>9. now' \in Time /\ last' \in Time /\ published' \in Generation /\ renewals' \in 0 .. MaxPresses
      BY <1>0, <2>3
  <2>10. unlocked' \in BOOLEAN /\ timerGen' \in Generation
      BY <2>6
  <2>11. QED
      BY <1>0, <2>3, <2>5, <2>6, <2>7, <2>8, <2>9, <2>10
<1>13. CASE PollForeign
  <2>1. timer' = Off /\ remaining' = 0 /\ Off.seconds = 0
      BY <1>13 DEF PollForeign, Stop, Off
  <2>2. QED
      BY <1>0, <1>13, <2>1 DEF PollForeign, Stop, mailbox
<1>14. CASE PollExpired
    BY <1>0, <1>14 DEF PollExpired, Stop, Off, mailbox
<1>15. CASE PollLive
    BY <1>0, <1>15 DEF PollLive, mailbox
<1>16. ASSUME NEW taken \in BOOLEAN, Finish(taken), consumed' \in 0 .. 2 * MaxPresses,
              ~Expired(timer, w.at), taken /\ timer.seconds # 0 => renewals < presses[gen]
       PROVE  TypeOK'
  <2>1. renewals' \in 0 .. MaxPresses
      BY <1>0, <1>16 DEF Finish
  <2>2. QED
      BY <1>0, <1>16, <2>1, FinishFacts DEF mailbox
<1>17. CASE TakeNothing
    BY <1>0, <1>17, <1>16 DEF TakeNothing, SessionInv, DeadlineInv
<1>18. CASE TakeSequence
    BY <1>0, <1>18 DEF TakeSequence, WorkType, mailbox
<1>19. CASE TakeEvent
    BY <1>0, <1>19 DEF TakeEvent, WorkType, mailbox
<1>20. CASE TakeChanged
    BY <1>0, <1>20, <1>16 DEF TakeChanged, SessionInv, DeadlineInv
<1>21. CASE TakeStable
  <2>1. pc = "again" /\ seq = w.seq /\ ~Expired(timer, w.at)
      BY <1>21 DEF TakeStable, SessionInv, DeadlineInv
  <2>2. ASSUME w.event = w.gen, timer.seconds # 0
        PROVE  renewals < presses[gen]
    <3>1. unlocked /\ event = gen /\ seq % 2 = 0 /\ seq # consumed
        BY <1>0, <2>1, <2>2 DEF SessionInv, GenerationInv, ReadInv
    <3>2. renewals + Coming + Waiting <= presses[gen]
        BY <2>1, <3>1 DEF SessionInv, RenewalInv, InSession
    <3>3. QED
        BY <1>0, <3>1, <3>2 DEF Coming, Waiting
  <2>3. consumed' \in 0 .. 2 * MaxPresses /\ Finish(w.event = w.gen)
      BY <1>0, <1>21 DEF TakeStable, WorkType
  <2>4. QED
      BY <1>16, <2>1, <2>2, <2>3, (w.event = w.gen) \in BOOLEAN
<1>22. ASSUME NEW opening \in BOOLEAN, Lock(opening) PROVE TypeOK'
    BY <1>0, <1>22 DEF Lock, WorkType, mailbox
<1>23. ASSUME NEW right \in BOOLEAN, Reverify(right) PROVE TypeOK'
    BY <1>0, <1>23 DEF Reverify, mailbox
<1>24. ASSUME NEW g \in {gen, published}, NEW touch \in BOOLEAN, Poll(g, touch) PROVE TypeOK'
  <2>1. w' \in WorkType
      BY <1>0, <1>24 DEF Poll, WorkType
  <2>2. QED
      BY <1>0, <1>24, <2>1 DEF Poll, mailbox
<1>25. CASE UNCHANGED vars
    BY <1>0, <1>25 DEF vars, worker, mailbox
<1>26. QED
    BY <1>1, <1>2, <1>3, <1>4, <1>5, <1>6, <1>7, <1>8, <1>9, <1>10, <1>11, <1>12, <1>13, <1>14,
       <1>15, <1>17, <1>18, <1>19, <1>20, <1>21, <1>22, <1>23, <1>24, <1>25
       DEF Next, Core0, Worker, Proceed, IdlePoll

\* The generation core 0 sees follows the worker's own in every call, and there
\* is room for the locks that follow.
LEMMA GenerationStep == SessionInv /\ TypeOK' /\ [Next]_vars => GenerationInv'
<1> SUFFICES ASSUME SessionInv, TypeOK', [Next]_vars
             PROVE  GenerationInv'
    OBVIOUS
<1> USE SessionBounds DEF Generation
<1>0. /\ TypeOK /\ GenerationInv
      /\ pc \in {"sequence", "event", "again"} => ~Expired(timer, w.at)
      /\ gen \in Int /\ published \in Int /\ gen' \in Int /\ published' \in Int
  <2>1. gen \in Generation /\ published \in Generation /\ gen' \in Generation /\ published' \in Generation
      BY DEF SessionInv, TypeOK
  <2>2. QED
      BY <2>1 DEF SessionInv, DeadlineInv
<1>1. CASE Press
    BY <1>0, <1>1 DEF Press, worker, GenerationInv, Settled
<1>2. CASE EventBegin
    BY <1>0, <1>2 DEF EventBegin, worker, GenerationInv, Settled
<1>3. CASE EventStore
    BY <1>0, <1>3 DEF EventStore, worker, GenerationInv, Settled
<1>4. CASE EventEnd
    BY <1>0, <1>4 DEF EventEnd, worker, GenerationInv, Settled
<1>5. CASE Tick
    BY <1>0, <1>5 DEF Tick, worker, mailbox, GenerationInv, Settled
<1>6. ASSUME NEW right \in BOOLEAN, NEW sec \in Seconds, Unlock(right, sec) PROVE GenerationInv'
    BY <1>0, <1>6 DEF Unlock, mailbox, GenerationInv, Settled
<1>7. CASE UnlockNoCard
    BY <1>0, <1>7 DEF UnlockNoCard, mailbox, GenerationInv, Settled
<1>8. CASE PublishOpened
    BY <1>0, <1>8 DEF PublishOpened, mailbox, GenerationInv, Settled
<1>9. CASE PublishVerified
    BY <1>0, <1>9 DEF PublishVerified, NoWork, mailbox, GenerationInv, Settled
<1>10. CASE TimerStart
  <2>1. pc' = "idle" /\ UNCHANGED <<unlocked, gen, published>>
      BY <1>10 DEF TimerStart
  <2>2. unlocked /\ published = gen /\ gen < MaxGeneration
      BY <1>0, <1>10 DEF TimerStart, GenerationInv, Settled
  <2>3. QED
      BY <2>1, <2>2 DEF GenerationInv, Settled
<1>11. CASE Revoke
    BY <1>0, <1>11 DEF Revoke, mailbox, GenerationInv, Settled
<1>12. CASE Close
    BY <1>0, <1>12 DEF Close, Stop, Off, mailbox, GenerationInv, Settled
<1>13. CASE PollForeign
    BY <1>0, <1>13 DEF PollForeign, Stop, Off, mailbox, GenerationInv, Settled
<1>14. CASE PollExpired
    BY <1>0, <1>14 DEF PollExpired, Expired, Stop, Off, mailbox, GenerationInv, Settled
<1>15. CASE PollLive
    BY <1>0, <1>15 DEF PollLive, mailbox, GenerationInv, Settled
<1>16. CASE TakeNothing
  <2>1. pc \in {"sequence", "again"} /\ pc' = "idle" /\ timer'.seconds = timer.seconds /\ UNCHANGED <<unlocked, gen, published>>
      BY <1>0, <1>16, FinishFacts DEF TakeNothing
  <2>2. QED
      BY <1>0, <2>1 DEF GenerationInv, Settled
<1>17. CASE TakeSequence
    BY <1>0, <1>17 DEF TakeSequence, mailbox, GenerationInv, Settled
<1>18. CASE TakeEvent
    BY <1>0, <1>18 DEF TakeEvent, mailbox, GenerationInv, Settled
<1>19. CASE TakeChanged
  <2>1. pc \in {"sequence", "again"} /\ pc' = "idle" /\ timer'.seconds = timer.seconds /\ UNCHANGED <<unlocked, gen, published>>
      BY <1>0, <1>19, FinishFacts DEF TakeChanged
  <2>2. QED
      BY <1>0, <2>1 DEF GenerationInv, Settled
<1>20. CASE TakeStable
  <2>1. pc \in {"sequence", "again"} /\ pc' = "idle" /\ timer'.seconds = timer.seconds /\ UNCHANGED <<unlocked, gen, published>>
      BY <1>0, <1>20, FinishFacts, (w.event = w.gen) \in BOOLEAN DEF TakeStable
  <2>2. QED
      BY <1>0, <2>1 DEF GenerationInv, Settled
<1>21. ASSUME NEW opening \in BOOLEAN, Lock(opening) PROVE GenerationInv'
    BY <1>0, <1>21 DEF Lock, mailbox, GenerationInv, Settled
<1>22. ASSUME NEW right \in BOOLEAN, Reverify(right) PROVE GenerationInv'
    BY <1>0, <1>22 DEF Reverify, mailbox, GenerationInv, Settled
<1>23. ASSUME NEW g \in {gen, published}, NEW touch \in BOOLEAN, Poll(g, touch) PROVE GenerationInv'
    BY <1>0, <1>23 DEF Poll, mailbox, GenerationInv, Settled
<1>24. CASE UNCHANGED vars
    BY <1>0, <1>24 DEF vars, worker, mailbox, GenerationInv, Settled
<1>25. QED
    BY <1>1, <1>2, <1>3, <1>4, <1>5, <1>6, <1>7, <1>8, <1>9, <1>10, <1>11, <1>12, <1>13, <1>14,
       <1>15, <1>16, <1>17, <1>18, <1>19, <1>20, <1>21, <1>22, <1>23, <1>24
       DEF Next, Core0, Worker, Proceed, IdlePoll

\* The worker never writes the mailbox: it only remembers what it took.
LEMMA WorkerReads == Worker => UNCHANGED <<now, mailbox>> /\ consumed' \in {consumed, seq}
<1> SUFFICES ASSUME Worker
             PROVE  UNCHANGED <<now, mailbox>> /\ consumed' \in {consumed, seq}
    OBVIOUS
<1>1. CASE Proceed
    BY <1>1 DEF Proceed, Unlock, UnlockNoCard, PublishOpened, PublishVerified, TimerStart, Revoke,
         Close, PollForeign, PollExpired, PollLive, TakeNothing, TakeSequence, TakeEvent,
         TakeChanged, TakeStable, Finish, Stop, mailbox
<1>2. QED
    BY <1>1 DEF Worker, IdlePoll, Poll, Lock, Reverify, Unlock, mailbox

\* fv_session_timeout_local_activity keeps its handshake and accounts for every
\* press, whatever the worker takes meanwhile.
LEMMA MailboxStep == SessionInv /\ TypeOK' /\ [Next]_vars => MailboxInv'
<1> SUFFICES ASSUME SessionInv, TypeOK', [Next]_vars
             PROVE  MailboxInv'
    OBVIOUS
<1> USE SessionBounds
<1>0. /\ MailboxInv
      /\ key \in [pc : {"idle", "begin", "store", "end"}, gen : Generation]
      /\ seq \in Nat /\ seq' \in Nat /\ consumed \in Nat /\ published \in Generation
      /\ presses \in [Generation -> Nat]
    BY DEF SessionInv, TypeOK
<1>1. CASE Press
  <2>1. \A g \in Generation : presses'[g] = IF g = published THEN presses[g] + 1 ELSE presses[g]
      BY <1>0, <1>1 DEF Press
  <2>2. /\ key'.pc = "begin" /\ key'.gen = published /\ key.pc = "idle"
        /\ UNCHANGED <<seq, event, consumed>> /\ seq < 2 * MaxPresses
      BY <1>1 DEF Press, worker
  <2>3. \A g \in Generation : 2 * presses'[g] <= seq' + 2
      BY <1>0, <2>1, <2>2 DEF MailboxInv
  <2>4. presses'[key'.gen] >= 1
      BY <1>0, <2>1, <2>2
  <2>5. QED
      BY <1>0, <2>2, <2>3, <2>4 DEF MailboxInv
<1>2. CASE EventBegin
  <2>1. /\ key'.pc = "store" /\ key'.gen = key.gen /\ key.pc = "begin"
        /\ seq' = seq + 1 /\ UNCHANGED <<event, presses, consumed>>
      BY <1>0, <1>2 DEF EventBegin, worker
  <2>2. QED
      BY <1>0, <2>1 DEF MailboxInv
<1>3. CASE EventStore
  <2>1. /\ key'.pc = "end" /\ key'.gen = key.gen /\ key.pc = "store" /\ event' = key.gen
        /\ UNCHANGED <<seq, presses, consumed>>
      BY <1>0, <1>3 DEF EventStore, worker
  <2>2. QED
      BY <1>0, <2>1 DEF MailboxInv
<1>4. CASE EventEnd
  <2>1. /\ key'.pc = "idle" /\ key.pc = "end"
        /\ seq' = seq + 1 /\ UNCHANGED <<event, presses, consumed>>
      BY <1>0, <1>4 DEF EventEnd, worker
  <2>2. QED
      BY <1>0, <2>1 DEF MailboxInv
<1>5. CASE Worker
    BY <1>0, <1>5, WorkerReads DEF MailboxInv, mailbox
<1>6. CASE Tick \/ UNCHANGED vars
    BY <1>0, <1>6 DEF Tick, vars, worker, mailbox, MailboxInv
<1>7. QED
    BY <1>1, <1>2, <1>3, <1>4, <1>5, <1>6 DEF Next, Core0

\* take_local_activity: while the sequence stands still so does the event.
LEMMA ReadStep == SessionInv /\ [Next]_vars => ReadInv'
<1> SUFFICES ASSUME SessionInv, [Next]_vars
             PROVE  ReadInv'
    OBVIOUS
<1>0. /\ ReadInv /\ MailboxInv /\ w \in WorkType
      /\ key.pc \in {"idle", "begin", "store", "end"}
      /\ seq \in Nat /\ consumed \in Nat /\ w.seq \in Nat
  <2>1. w \in WorkType
      BY DEF SessionInv, TypeOK
  <2>2. w.seq \in 0 .. 2 * MaxPresses
      BY <2>1 DEF WorkType
  <2>3. QED
      BY <2>1, <2>2, SessionBounds DEF SessionInv, TypeOK
<1>1. CASE Core0
  <2>1. /\ UNCHANGED <<pc, w, consumed>>
        /\ \/ UNCHANGED <<seq, event>>
           \/ seq' = seq + 1
           \/ seq % 2 = 1 /\ UNCHANGED seq
      BY <1>0, <1>1 DEF Core0, Press, EventBegin, EventStore, EventEnd, worker, MailboxInv
  <2>2. QED
      BY <1>0, <2>1 DEF ReadInv
<1>2. CASE TakeSequence
  <2>1. /\ pc' = "event" /\ w'.seq = seq /\ seq % 2 # 1 /\ seq # consumed
        /\ UNCHANGED <<seq, event, consumed>>
      BY <1>0, <1>2 DEF TakeSequence, Unstable, mailbox, WorkType
  <2>2. QED
      BY <1>0, <2>1 DEF ReadInv
<1>3. CASE TakeEvent
  <2>1. /\ pc = "event" /\ pc' = "again" /\ w'.seq = w.seq /\ w'.event = event
        /\ UNCHANGED <<seq, event, consumed>>
      BY <1>0, <1>3 DEF TakeEvent, mailbox, WorkType
  <2>2. QED
      BY <1>0, <2>1 DEF ReadInv
<1>4. CASE Worker /\ ~TakeSequence /\ ~TakeEvent
  <2>1. pc' \notin {"event", "again"}
      BY <1>4 DEF Worker, Proceed, Unlock, UnlockNoCard, PublishOpened, PublishVerified, TimerStart,
           Revoke, Close, PollForeign, PollExpired, PollLive, TakeNothing, TakeChanged, TakeStable,
           Finish, IdlePoll, Poll, Lock, Reverify
  <2>2. QED
      BY <2>1 DEF ReadInv
<1>5. CASE Tick \/ UNCHANGED vars
    BY <1>0, <1>5 DEF Tick, vars, worker, mailbox, ReadInv
<1>6. QED
    BY <1>1, <1>2, <1>3, <1>4, <1>5 DEF Next

\* A press adds at most what it may renew, and a renewal uses up what it took:
\* the presses of a session always cover its renewals and those to come.
LEMMA RenewalStep == SessionInv /\ TypeOK' /\ [Next]_vars => RenewalInv'
<1> SUFFICES ASSUME SessionInv, TypeOK', [Next]_vars, unlocked', pc' \in InSession
             PROVE  renewals' + Coming' + Waiting' <= presses'[gen']
    BY DEF RenewalInv
<1>0. /\ TypeOK /\ GenerationInv /\ MailboxInv /\ ReadInv /\ RenewalInv
      /\ pc \in {"sequence", "event", "again"} => ~Expired(timer, w.at)
    BY DEF SessionInv, DeadlineInv
<1>n. /\ key \in [pc : {"idle", "begin", "store", "end"}, gen : Generation]
      /\ seq \in Nat /\ consumed \in Nat /\ gen \in Generation /\ published \in Generation
      /\ presses \in [Generation -> Nat] /\ renewals \in Nat
      /\ presses[gen] \in Nat
    BY <1>0, SessionBounds DEF TypeOK
<1>c. Coming \in {0, 1} /\ Waiting \in {0, 1}
    BY DEF Coming, Waiting
<1>1. CASE Press
  <2>1. /\ unlocked /\ pc \in InSession /\ UNCHANGED <<gen, renewals, seq, consumed, event>>
        /\ key.pc = "idle" /\ key'.pc = "begin" /\ key'.gen = published
        /\ presses' = [presses EXCEPT ![published] = @ + 1]
      BY <1>1 DEF Press, worker
  <2>2. Coming = 0 /\ Coming' = (IF published = gen THEN 1 ELSE 0) /\ Waiting' = Waiting
      BY <2>1 DEF Coming, Waiting
  <2>3. presses'[gen'] = IF published = gen THEN presses[gen] + 1 ELSE presses[gen]
      BY <1>n, <2>1
  <2>4. QED
      BY <1>0, <1>n, <1>c, <2>1, <2>2, <2>3 DEF RenewalInv
<1>2. CASE EventBegin
  <2>1. /\ unlocked /\ pc \in InSession /\ UNCHANGED <<gen, renewals, presses, consumed, event>>
        /\ key.pc = "begin" /\ key'.pc = "store" /\ key'.gen = key.gen /\ seq' = seq + 1
      BY <1>n, <1>2 DEF EventBegin, worker
  <2>2. seq % 2 = 0
      BY <1>0, <2>1 DEF MailboxInv
  <2>3. seq' % 2 # 0
      BY <1>n, <2>1, <2>2
  <2>4. Coming' = Coming /\ Waiting' = 0
      BY <2>1, <2>3 DEF Coming, Waiting
  <2>5. QED
      BY <1>0, <1>n, <1>c, <2>1, <2>4 DEF RenewalInv
<1>3. CASE EventStore
  <2>1. /\ unlocked /\ pc \in InSession /\ UNCHANGED <<gen, renewals, presses, consumed, seq>>
        /\ key.pc = "store" /\ key'.pc = "end" /\ key'.gen = key.gen
      BY <1>n, <1>3 DEF EventStore, worker
  <2>2. seq % 2 = 1
      BY <1>0, <2>1 DEF MailboxInv
  <2>3. Coming' = Coming /\ Waiting' = 0
      BY <2>1, <2>2 DEF Coming, Waiting
  <2>4. QED
      BY <1>0, <1>n, <1>c, <2>1, <2>3 DEF RenewalInv
<1>4. CASE EventEnd
  <2>1. /\ unlocked /\ pc \in InSession /\ UNCHANGED <<gen, renewals, presses, consumed, event>>
        /\ key.pc = "end" /\ key'.pc = "idle" /\ seq' = seq + 1
      BY <1>4 DEF EventEnd, worker
  <2>2. seq % 2 = 1 /\ event = key.gen
      BY <1>0, <2>1 DEF MailboxInv
  <2>3. Coming' = 0 /\ Waiting = 0 /\ Waiting' <= Coming
      BY <2>1, <2>2 DEF Coming, Waiting
  <2>4. Waiting' \in {0, 1}
      BY DEF Waiting
  <2>5. QED
      BY <1>0, <1>n, <1>c, <2>1, <2>3, <2>4 DEF RenewalInv
<1>5. CASE TimerStart
  <2>1. /\ UNCHANGED <<gen, presses, seq, event, key>> /\ consumed' = seq /\ renewals' = 0
      BY <1>5 DEF TimerStart, mailbox
  <2>2. Coming' = Coming /\ Waiting' = 0
      BY <2>1 DEF Coming, Waiting
  <2>3. Coming <= presses[gen]
      BY <1>0, <1>n DEF Coming, MailboxInv
  <2>4. QED
      BY <1>n, <1>c, <2>1, <2>2, <2>3
<1>6. CASE TakeStable
  <2>1. /\ pc = "again" /\ seq = w.seq /\ consumed' = seq /\ ~Expired(timer, w.at)
        /\ Finish(w.event = w.gen) /\ UNCHANGED <<gen, unlocked, presses, seq, event, key>>
      BY <1>0, <1>6 DEF TakeStable, Finish, mailbox
  <2>2. unlocked /\ Coming' = Coming /\ Waiting' = 0
      BY <2>1 DEF Coming, Waiting
  <2>3. renewals + Coming + Waiting <= presses[gen]
      BY <1>0, <2>1, <2>2 DEF RenewalInv, InSession
  <2>4. CASE w.event = w.gen
    <3>1. Waiting = 1
        BY <1>0, <2>1, <2>4 DEF ReadInv, GenerationInv, Waiting
    <3>2. renewals' \in {renewals, renewals + 1}
        BY <2>1 DEF Finish
    <3>3. QED
        BY <1>n, <1>c, <2>1, <2>2, <2>3, <3>1, <3>2
  <2>5. CASE w.event # w.gen
    <3>1. renewals' = renewals
        BY <2>1, <2>5 DEF Finish
    <3>2. QED
        BY <1>n, <1>c, <2>1, <2>2, <2>3, <3>1
  <2>6. QED
      BY <2>4, <2>5
<1>7. ASSUME UNCHANGED <<now, mailbox, gen, unlocked, renewals>>,
             consumed' \in {consumed, seq}, pc \in InSession
      PROVE  renewals' + Coming' + Waiting' <= presses'[gen']
  <2>1. UNCHANGED <<gen, renewals, presses>> /\ unlocked /\ Coming' = Coming
      BY <1>7 DEF Coming, mailbox
  <2>2. Waiting' <= Waiting /\ Waiting' \in {0, 1}
      BY <1>7 DEF Waiting, mailbox
  <2>3. QED
      BY <1>0, <1>n, <1>c, <1>7, <2>1, <2>2 DEF RenewalInv
<1>8. CASE Worker /\ ~TimerStart /\ ~TakeStable
  <2>1. UNCHANGED <<gen, unlocked, renewals>> /\ pc \in InSession
    <3>1. CASE Proceed
        BY <1>0, <1>8, <3>1 DEF Proceed, Unlock, UnlockNoCard, PublishOpened, PublishVerified,
             Revoke, Close, PollForeign, PollExpired, PollLive, TakeNothing, TakeSequence,
             TakeEvent, TakeChanged, Finish, InSession, GenerationInv
    <3>2. CASE ~Proceed
        BY <1>0, <1>8, <3>2 DEF Worker, IdlePoll, Poll, Lock, Reverify, Unlock, InSession
    <3>3. QED
        BY <3>1, <3>2
  <2>2. QED
      BY <1>7, <1>8, <2>1, WorkerReads
<1>9. CASE Tick \/ UNCHANGED vars
  <2>1. UNCHANGED <<mailbox, consumed, gen, unlocked, renewals, pc>>
      BY <1>9 DEF Tick, vars, worker
  <2>2. UNCHANGED <<gen, renewals, presses>> /\ unlocked /\ pc \in InSession
        /\ Coming' = Coming /\ Waiting' = Waiting
      BY <2>1 DEF mailbox, Coming, Waiting
  <2>3. QED
      BY <1>0, <2>2 DEF RenewalInv
<1>10. QED
    BY <1>1, <1>2, <1>3, <1>4, <1>5, <1>6, <1>8, <1>9 DEF Next, Core0

\* Every touch moves the deadline a whole interval on, and a poll never touches
\* a timer it should have expired.
LEMMA DeadlineStep == SessionInv /\ [Next]_vars => DeadlineInv'
<1> SUFFICES ASSUME SessionInv, [Next]_vars
             PROVE  DeadlineInv'
    OBVIOUS
<1>0. TypeOK /\ DeadlineInv
    BY DEF SessionInv
<1>1. CASE TimerStart
  <2>1. /\ timer' = Started(w.seconds, now) /\ last' = now /\ pc' = "idle"
        /\ now \in Time /\ w.seconds \in Seconds \cup {0}
      BY <1>0, <1>1 DEF TimerStart, TypeOK, WorkType
  <2>2. /\ timer'.seconds = w.seconds
        /\ w.seconds # 0 => timer'.deadline = Deadline(w.seconds, now)
      BY <2>1, StartedFacts
  <2>3. Deadline(w.seconds, now) \in Int
    <3>1. Deadline(w.seconds, now) \in Time
        BY <2>1, DeadlineFacts, SecondsNat
    <3>2. QED
        BY <3>1 DEF Time
  <2>4. QED
      BY <2>1, <2>2, <2>3 DEF DeadlineInv
<1>2. ASSUME NEW taken \in BOOLEAN, Finish(taken), pc \in {"sequence", "again"}
      PROVE  DeadlineInv'
    BY <1>0, <1>2, FinishFacts DEF DeadlineInv
<1>3. CASE TakeNothing \/ TakeChanged \/ TakeStable
    BY <1>2, <1>3, (w.event = w.gen) \in BOOLEAN DEF TakeNothing, TakeChanged, TakeStable
<1>4. CASE Close \/ PollForeign \/ PollExpired
    BY <1>4 DEF Close, PollForeign, PollExpired, Stop, Off, DeadlineInv
<1>5. CASE PollLive
    BY <1>0, <1>5 DEF PollLive, DeadlineInv
<1>6. CASE TakeSequence \/ TakeEvent
  <2>1. w'.at = w.at /\ UNCHANGED <<timer, last>> /\ pc \in {"sequence", "event"}
      BY <1>0, <1>6 DEF TakeSequence, TakeEvent, TypeOK, WorkType
  <2>2. QED
      BY <1>0, <2>1 DEF DeadlineInv, Expired
<1>7. CASE Core0 \/ Tick \/ UNCHANGED vars
  <2>1. UNCHANGED <<timer, last, pc, w>>
      BY <1>7 DEF Core0, Press, EventBegin, EventStore, EventEnd, Tick, vars, worker
  <2>2. QED
      BY <1>0, <2>1 DEF DeadlineInv, Expired
<1>8. CASE \/ \E right \in BOOLEAN, sec \in Seconds : Unlock(right, sec)
           \/ UnlockNoCard \/ PublishOpened \/ PublishVerified \/ Revoke
           \/ \E opening \in BOOLEAN : Lock(opening)
           \/ \E right \in BOOLEAN : Reverify(right)
           \/ \E g \in {gen, published}, touch \in BOOLEAN : Poll(g, touch)
  <2>1. UNCHANGED <<timer, last>> /\ pc' \notin {"sequence", "event", "again"}
      BY <1>8 DEF Unlock, UnlockNoCard, PublishOpened, PublishVerified, Revoke, Lock, Reverify, Poll
  <2>2. QED
      BY <1>0, <2>1 DEF DeadlineInv
<1>9. QED
    BY <1>1, <1>3, <1>4, <1>5, <1>6, <1>7, <1>8 DEF Next, Worker, Proceed, IdlePoll

\* The inductive invariant of the session timer and its mailbox.
THEOREM SessionInvariant == Spec => []SessionInv
<1>1. Init => SessionInv
  <2> SUFFICES ASSUME Init
               PROVE  SessionInv
      OBVIOUS
  <2>1. TypeOK
    <3>1. Off.seconds = 0 /\ 0 \in Time /\ 0 \in 0 .. 2 * MaxPresses /\ 0 \in 0 .. MaxPresses
        BY TimeAssumption, SessionBounds DEF Off, Time
    <3>2. presses \in [Generation -> 0 .. MaxPresses] /\ remaining \in 0 .. timer.seconds
        BY <3>1 DEF Init
    <3>3. QED
        BY <3>1, <3>2, RestFacts DEF Init, TypeOK
  <2>2. GenerationInv /\ ReadInv /\ RenewalInv /\ DeadlineInv
      BY RestFacts, SessionBounds
         DEF Init, Off, Generation, GenerationInv, Settled, ReadInv, RenewalInv, DeadlineInv
  <2>3. MailboxInv
      BY SessionBounds DEF Init, MailboxInv, Generation
  <2>4. QED
      BY <2>1, <2>2, <2>3 DEF SessionInv
<1>2. SessionInv /\ [Next]_vars => SessionInv'
    BY SessionTypeStep, GenerationStep, MailboxStep, ReadStep, RenewalStep, DeadlineStep
       DEF SessionInv
<1>3. QED
    BY <1>1, <1>2, PTL DEF Spec

\* However the cores interleave, a session is renewed at most once by each press
\* made in it.
THEOREM SessionRenewedByOwnPresses == Spec => []RenewedByOwnPresses
<1>1. SessionInv => RenewedByOwnPresses
  <2> SUFFICES ASSUME SessionInv, pc = "idle", unlocked
               PROVE  renewals <= presses[gen]
      BY DEF RenewedByOwnPresses
  <2>1. renewals + Coming + Waiting <= presses[gen] /\ Coming \in {0, 1} /\ Waiting \in {0, 1}
      BY DEF SessionInv, RenewalInv, InSession, Coming, Waiting
  <2>2. renewals \in Nat /\ presses[gen] \in Nat
      BY SessionBounds DEF SessionInv, TypeOK
  <2>3. QED
      BY <2>1, <2>2
<1>2. QED
    BY <1>1, SessionInvariant, PTL

\* usb_lock on expiry comes only after the whole interval without activity, or
\* at the end of the clock.
THEOREM SessionNotEarly == Spec => [][NotEarly]_vars
<1>1. SessionInv /\ [Next]_vars => [NotEarly]_vars
  <2> SUFFICES ASSUME SessionInv, Next, pc = "poll", pc' = "revoke"
               PROVE  w.at = MaxTime \/ w.at >= last + Duration(timer.seconds)
      BY DEF NotEarly
  <2>1. Expired(timer, w.at)
      BY DEF Next, Core0, Press, EventBegin, EventStore, EventEnd, Tick, Worker, Proceed, Unlock,
             UnlockNoCard, PublishOpened, PublishVerified, TimerStart, Revoke, Close, PollForeign,
             PollExpired, PollLive, TakeNothing, TakeSequence, TakeEvent, TakeChanged, TakeStable,
             Finish, IdlePoll, Poll, Lock, Reverify, worker
  <2>2. /\ w.at \in Time /\ last \in Time
        /\ timer.seconds \in Seconds \cup {0} /\ timer.deadline \in Time
      BY DEF SessionInv, TypeOK, WorkType, TimerType
  <2>3. /\ Duration(timer.seconds) \in Nat
        /\ \/ Deadline(timer.seconds, last) = MaxTime
           \/ Deadline(timer.seconds, last) = last + Duration(timer.seconds)
      BY <2>2, DeadlineFacts, SecondsNat
  <2>4. w.at >= timer.deadline /\ timer.deadline >= Deadline(timer.seconds, last)
      BY <2>1 DEF SessionInv, DeadlineInv, Expired
  <2>5. QED
      BY <2>2, <2>3, <2>4, TimeAssumption DEF Time
<1>2. QED
    BY <1>1, SessionInvariant, PTL DEF Spec

-----------------------------------------------------------------------------
(* The user interface, for every number of wheels and words, every length   *)
(* of a pattern, every number of ciphers and attempts and every vault the   *)
(* device starts with.  The argument: each screen of a flow is entered only *)
(* when the job built so far is ready for it, so that what the review or a  *)
(* credential screen submits is complete; every way out of the flow passes  *)
(* ui_clear_input; and a screen that must not take an old key asks for the  *)
(* buttons to be released in the step that shows it.                        *)

\* The forms of the state.
Modes == {"locked", "full", "passkeys", "readonly"}
Ops == {"status", "lock", "unlock", "create", "policy", "change", "erase", "reset", "verification", "list", "delete"}
Flows == {"setup", "unlock", "policy", "change"}
FlowScreens == {"secret", "confirm", "method", "stack", "options", "review"}
Screens == FlowScreens \cup {"home", "dashboard", "settings", "erase", "reset", "delete", "verification",
                             "passkeys", "approve", "dashsetting", "error", "wait"}
DiskType == [status : Statuses, profile : 0 .. 4, policy : Policies]
DeviceType == [status : Statuses, profile : 0 .. 4, policy : Policies, mode : Modes, pk : Passkeys]
EntryType == [profile : 0 .. 4, values : Seq(Int), selected : Int, depth : Int, prefix : Int]
JobType == [op : Ops, mode : Modes, profile : 0 .. 4, secret : Seq(Int), current : Seq(Int),
            stack : Seq(1 .. Algorithms), policy : Policies, id : Int]
UiType == [screen : Screens, cursor : Nat, flow : Flows, job : JobType, confirmation : Seq(Int),
           entry : EntryType, pending : BOOLEAN, dev : DeviceType, modal : BOOLEAN, done : BOOLEAN,
           approved : BOOLEAN, bump : BOOLEAN]
FidoType == [busy : BOOLEAN, state : 0 .. 3, secret : BOOLEAN, abort : BOOLEAN, ok : BOOLEAN,
             owned : BOOLEAN, asked : Nat]
ButtonType == [cand : BOOLEAN, prev : BOOLEAN, armed : BOOLEAN, old : BOOLEAN]

\* What a credential of a profile is made of: arrows, wheels or words.
Symbols(p) == IF p = 2 THEN 1 .. 4 ELSE IF p = 3 THEN 0 .. Codes - 1 ELSE 0 .. WordCount[WordSteps] - 1

\* The entry of a credential, while its wheels or words are chosen.
EntrySound(e, p) ==
    /\ e.profile = p
    /\ p = 3 => e.values \in [1 .. Entries -> Symbols(3)] /\ e.selected \in 1 .. Entries
    /\ p = 4 => /\ e.values \in Seq(Symbols(4)) /\ Len(e.values) <= Entries
                /\ e.depth \in 0 .. WordSteps - 1 /\ e.prefix \in 0 .. WordCount[e.depth] - 1
\* An entry wiped by the adapter, or one the user is using.
PromptEntry(e) == e = NoEntry \/ (e.profile \in 2 .. 4 /\ EntrySound(e, e.profile))
\* A pattern being typed.
Typing(s, p) == p = 2 => s \in Seq(1 .. 4) /\ Len(s) <= MaxLength

\* What a flow has settled before its first screen.
Prepared(z) ==
    /\ z.flow = "unlock" => z.job.mode # "locked" /\ z.dev.status = "active" /\ z.dev.profile \in 2 .. 4
    /\ z.flow \in {"setup", "policy"} => ValidPolicy(z.job.policy)
    /\ z.flow = "setup" => Len(z.job.stack) \in 1 .. MaxStack
    /\ z.flow = "change" => Len(z.job.current) <= MaxLength

\* The credential of the flow is entered; a change has the old one too.
Complete(z) == ValidSecret(z.job) /\ (z.flow # "policy" => LongEnough(z))
Second(z) == z.flow = "change" => z.job.current # <<>>
Cleared(z) == z.job.secret = <<>> /\ z.job.current = <<>> /\ z.entry = NoEntry

\* What each screen of a flow finds settled.
FlowSound(z) ==
    /\ z.screen \in {"secret", "confirm"} => z.job.profile \in 2 .. 4 /\ EntrySound(z.entry, z.job.profile)
    /\ z.screen \in FlowScreens => Prepared(z)
    /\ z.screen = "secret" => Typing(z.job.secret, z.job.profile)
    /\ z.screen = "confirm" => Typing(z.confirmation, z.job.profile)
    /\ z.screen \in {"confirm", "stack", "options", "review"} => Complete(z)
    /\ z.screen \in {"confirm", "method", "review"} => Second(z)
    /\ z.screen = "method" => z.job.secret = <<>>
    /\ z.screen \in {"confirm", "method"} => z.flow \in {"setup", "change"}
    /\ z.screen = "stack" => z.flow = "setup"
    /\ z.screen = "options" => z.flow \in {"setup", "policy"}
    /\ z.screen = "review" => z.flow # "unlock"

\* The passkey shown is the one the next job will name.
PasskeySound(z) ==
    /\ z.screen \in {"passkeys", "delete"} => z.job.id = z.dev.pk.id
    /\ z.screen = "delete" => z.dev.pk.count > 0

\* No input outside the flows.
Wiped(z) ==
    /\ z.screen \notin FlowScreens /\ ~z.pending => Cleared(z)
    /\ z.screen \notin {"confirm"} => z.confirmation = <<>>

\* A pending job is one the worker accepts.
JobSound(z) ==
    z.pending => /\ z.screen = "wait" /\ Accepts(z.job)
                 /\ z.job.op = "delete" => z.dev.pk.count > 0 /\ z.job.id = z.dev.pk.id
                 /\ z.job.op = "unlock" => z.dev.status = "active" /\ z.dev.profile \in 2 .. 4

\* What is known of the device on the screens where the user acts.
Usable(d) ==
    /\ Unlocked(d) => d.profile \in 2 .. 4
    /\ d.status = "active" => d.profile # 0
DeviceSound(z) == z.screen \notin {"wait", "error"} /\ ~z.modal => Usable(z.dev)

\* The interface of core 0 on its own.
ScreensSound(z) ==
    /\ z \in UiType
    /\ Wiped(z) /\ JobSound(z) /\ DeviceSound(z)
    /\ z.screen = "dashsetting" => z.cursor \in 0 .. 1
    /\ IF z.modal THEN z.screen \in {"secret", "approve"} /\ PromptEntry(z.entry)
       ELSE z.screen # "approve" /\ FlowSound(z) /\ PasskeySound(z)

\* The device the screens show is the device there is.
Agrees ==
    /\ u.screen \notin {"wait", "error"} /\ ~u.modal => u.dev.status = disk.status /\ u.dev.profile = disk.profile
    /\ u.pending /\ u.job.op = "unlock" => disk.profile \in 2 .. 4

\* The job at the worker, and what the interface does meanwhile.
WorkerSound ==
    /\ serving.op \in Ops \cup {"idle"} /\ serving.mode \in Modes /\ serving.profile \in 0 .. 4 /\ serving.policy \in Policies
    /\ AtWorker => u.screen = "wait" /\ ~u.pending /\ ~u.modal /\ ~fido.busy /\ maintenance
    /\ serving.op = "unlock" => disk.profile \in 2 .. 4
    /\ serving.op \in {"create", "change"} => serving.profile \in 2 .. 4

\* A prompt is on the screen exactly while its request waits for the answer.
PromptSound ==
    /\ fido \in FidoType
    /\ u.modal <=> fido.state \in {2, 3}
    /\ fido.state # 0 => fido.busy
    /\ fido.secret => fido.state = 2
    /\ fido.ok \/ fido.secret => fido.busy /\ disk.profile \in 2 .. 4

\* A session is open only on a vault that has a credential profile.
DiskSound ==
    /\ disk \in DiskType /\ access \in Modes
    /\ disk.status = "active" => disk.profile # 0
    /\ access # "locked" => disk.profile \in 2 .. 4

\* A button that went down before the screen it is at: it is not armed, or
\* its release has been asked for.
ButtonsSound == btn \in ButtonType /\ (btn.old => btn.cand /\ (u.bump \/ ~btn.armed))

UiInv == ScreensSound(u) /\ Agrees /\ WorkerSound /\ PromptSound /\ DiskSound /\ ButtonsSound

\* ui_scene_show changes the screen, the cursor and, where a credential is entered,
\* the entry; it asks for released buttons on the screens that need them.
LEMMA ShowFacts ==
    ASSUME NEW z \in UiType, NEW s \in Screens
    PROVE  LET r == Show(z, s)
           IN /\ r \in UiType
              /\ r.screen = s /\ r.cursor = 0 /\ r.flow = z.flow /\ r.job = z.job
              /\ r.confirmation = z.confirmation /\ r.pending = z.pending /\ r.dev = z.dev
              /\ r.modal = z.modal /\ r.done = z.done /\ r.approved = z.approved
              /\ r.entry = IF s \in {"secret", "confirm"} THEN EntryBegin(z.job.profile) ELSE z.entry
              /\ r.bump = (z.bump \/ s \in {"secret", "confirm", "passkeys", "delete"})
<1>1. ASSUME NEW p \in 0 .. 4
      PROVE  EntryBegin(p) \in EntryType
  <2>1. [i \in 1 .. Entries |-> 0] \in Seq(Int)
      BY UiSizes
  <2>2. QED
      BY <2>1 DEF EntryBegin, EntryType
<1>2. z.job.profile \in 0 .. 4
    BY DEF UiType, JobType
<1>3. Show(z, s).entry \in EntryType
    BY <1>1, <1>2 DEF Show, UiType
<1>4. QED
    BY <1>3 DEF Show, UiType

\* ui_clear_input keeps the screen and what is known of the device, and forgets the rest.
LEMMA ClearFacts ==
    ASSUME NEW z \in UiType
    PROVE  LET r == ClearInput(z)
           IN /\ r \in UiType
              /\ r.screen = z.screen /\ r.cursor = z.cursor /\ r.flow = "setup"
              /\ r.confirmation = <<>> /\ r.pending = z.pending /\ r.dev = z.dev
              /\ r.modal = z.modal /\ r.done = z.done /\ r.approved = z.approved
              /\ r.entry = NoEntry /\ r.bump = z.bump
              /\ r.job.op = z.job.op /\ Cleared(r)
<1>1. NoEntry \in EntryType
    BY DEF NoEntry, EntryBegin, EntryType
<1>2. Policy("none", 0, 0, 0) \in Policies
    BY UiSizes DEF Policy, Policies
<1>3. \A op \in Ops : [NoJob EXCEPT !.op = op] \in JobType
  <2>1. NoJob \in JobType
      BY <1>2 DEF NoJob, JobType, Modes, Ops
  <2>2. QED
      BY <2>1 DEF JobType
<1>4. z.job.op \in Ops
    BY DEF UiType, JobType
<1>5. PICK j \in JobType : j = [NoJob EXCEPT !.op = z.job.op] /\ j.op = z.job.op /\ j.secret = <<>> /\ j.current = <<>>
    BY <1>3, <1>4 DEF NoJob
<1>6. ClearInput(z) = [z EXCEPT !.flow = "setup", !.job = j, !.confirmation = <<>>, !.entry = NoEntry]
    BY <1>5 DEF ClearInput
<1>7. ClearInput(z) \in UiType
  <2>1. <<>> \in Seq(Int) /\ "setup" \in Flows
      BY DEF Flows
  <2> DEFINE r == [z EXCEPT !.flow = "setup", !.job = j, !.confirmation = <<>>, !.entry = NoEntry]
  <2>2. r \in UiType
      BY <1>1, <2>1 DEF UiType
  <2>3. QED
      BY <1>6, <2>2
<1>8. QED
    BY <1>5, <1>6, <1>7 DEF Cleared, UiType

\* The screens that ask for released buttons, and the jobs without input.
Prompting == {"secret", "confirm", "passkeys", "delete"}
Simple == {"status", "lock", "list", "erase", "reset", "verification"}
\* What a key may make of the interface.
Follows(z, v) ==
    /\ ScreensSound(v) /\ v.dev = z.dev /\ v.modal = z.modal
    /\ v.modal => v.screen = z.screen
    /\ v.screen \in Prompting => v.screen = z.screen \/ v.bump
    /\ v.pending /\ v.job.op = "unlock" => z.screen \notin {"wait", "error"}

\* Two jobs that differ at most in what they ask for.
SameInput(j, i) ==
    /\ j.mode = i.mode /\ j.profile = i.profile /\ j.secret = i.secret /\ j.current = i.current
    /\ j.stack = i.stack /\ j.policy = i.policy /\ j.id = i.id

\* Submitting a job changes only what it asks for, and shows the wait screen.
LEMMA SubmitFacts ==
    ASSUME NEW z \in UiType, NEW op \in Ops
    PROVE  LET r == Submit(z, op)
           IN /\ r \in UiType
              /\ r.screen = "wait" /\ r.pending /\ r.flow = z.flow
              /\ r.confirmation = z.confirmation /\ r.dev = z.dev
              /\ r.modal = z.modal /\ r.done = z.done /\ r.approved = z.approved /\ r.bump = z.bump
              /\ r.job.op = op /\ SameInput(r.job, z.job)
              /\ r.entry = z.entry
<1> DEFINE v == [z EXCEPT !.job.op = op, !.pending = TRUE]
<1>1. z.job \in JobType
    BY DEF UiType
<1>2. PICK j \in JobType : j = [z.job EXCEPT !.op = op] /\ j.op = op /\ SameInput(j, z.job)
  <2>1. [z.job EXCEPT !.op = op] \in JobType
      BY <1>1 DEF JobType
  <2>2. [z.job EXCEPT !.op = op].op = op /\ SameInput([z.job EXCEPT !.op = op], z.job)
      BY <1>1 DEF JobType, SameInput
  <2>3. QED
      BY <2>1, <2>2, Zenon
<1>3. v = [z EXCEPT !.job = j, !.pending = TRUE]
    BY <1>2 DEF UiType
<1> HIDE DEF v
<1>4. v \in UiType
    BY <1>3 DEF UiType
<1>5. /\ v.pending /\ v.flow = z.flow
      /\ v.confirmation = z.confirmation /\ v.dev = z.dev
      /\ v.modal = z.modal /\ v.done = z.done /\ v.approved = z.approved /\ v.bump = z.bump
      /\ v.job.op = op /\ SameInput(v.job, z.job) /\ v.entry = z.entry
    BY <1>2, <1>3 DEF UiType
<1>6. "wait" \in Screens /\ "wait" \notin {"secret", "confirm"} /\ "wait" \notin Prompting
    BY DEF Screens, Prompting
<1>7. Submit(z, op) = Show(v, "wait")
    BY DEF Submit, v
<1>8. /\ Show(v, "wait") \in UiType
      /\ Show(v, "wait").screen = "wait" /\ Show(v, "wait").pending /\ Show(v, "wait").flow = v.flow
      /\ Show(v, "wait").confirmation = v.confirmation /\ Show(v, "wait").dev = v.dev
      /\ Show(v, "wait").modal = v.modal /\ Show(v, "wait").done = v.done
      /\ Show(v, "wait").approved = v.approved /\ Show(v, "wait").job = v.job
      /\ Show(v, "wait").entry = v.entry
    BY <1>4, <1>5, <1>6, ShowFacts
<1>9. Show(v, "wait").bump = v.bump
  <2>1. v.bump \in BOOLEAN
      BY <1>4 DEF UiType
  <2>2. QED
      BY <1>4, <1>6, <2>1, ShowFacts
<1>10. QED
    BY <1>5, <1>7, <1>8, <1>9

\* A job that carries no input can be submitted from anywhere outside a prompt.
LEMMA SimpleSubmit ==
    ASSUME NEW z \in UiType, ~z.modal, z.confirmation = <<>>, NEW op \in Simple
    PROVE  ScreensSound(Submit(z, op)) /\ Follows(z, Submit(z, op))
<1> DEFINE r == Submit(z, op)
<1>1. op \in Ops /\ op \notin {"unlock", "create", "policy", "change", "delete"}
    BY DEF Simple, Ops
<1>3. r.job.op = op
    BY <1>1, SubmitFacts
<1>4. /\ r \in UiType /\ r.screen = "wait" /\ r.pending /\ r.confirmation = <<>> /\ ~r.modal
      /\ r.dev = z.dev /\ r.modal = z.modal
    BY <1>1, SubmitFacts
<1> HIDE DEF r
<1>5. JobSound(r)
    BY <1>1, <1>3, <1>4 DEF JobSound, Accepts
<1>6. ScreensSound(r)
    BY <1>4, <1>5 DEF ScreensSound, Wiped, FlowScreens, DeviceSound, FlowSound, PasskeySound
<1>7. Follows(z, r)
    BY <1>1, <1>3, <1>4, <1>6 DEF Follows, Prompting
<1>8. QED
    BY <1>6, <1>7 DEF r

\* Going home, from any screen on which the user acts.
LEMMA GoHomeFollows ==
    ASSUME NEW z \in UiType, ~z.modal, ~z.pending, Usable(z.dev)
    PROVE  Follows(z, GoHome(z))
<1> DEFINE c == ClearInput(z)
           s == IF Unlocked(z.dev) THEN "dashboard" ELSE "home"
           r == Show(c, s)
<1>1. /\ c \in UiType /\ c.confirmation = <<>> /\ ~c.pending /\ c.dev = z.dev /\ c.modal = z.modal /\ Cleared(c)
    BY ClearFacts
<1> HIDE DEF c
<1>2. s \in Screens /\ s \in {"dashboard", "home"}
    BY DEF Screens
<1> HIDE DEF s
<1>3. /\ r \in UiType /\ r.screen = s /\ r.confirmation = <<>> /\ ~r.pending /\ r.dev = z.dev /\ r.modal = z.modal
      /\ r.job = c.job /\ r.entry = c.entry
    BY <1>1, <1>2, ShowFacts
<1> HIDE DEF r
<1>4. Cleared(r)
    BY <1>1, <1>3 DEF Cleared
<1>5. ScreensSound(r)
    BY <1>2, <1>3, <1>4 DEF ScreensSound, Wiped, FlowScreens, DeviceSound, FlowSound, PasskeySound, JobSound
<1>6. Follows(z, r)
    BY <1>2, <1>3, <1>5 DEF Follows, Prompting
<1>7. GoHome(z) = r
    BY DEF GoHome, r, s, c
<1>8. QED
    BY <1>6, <1>7

\* A set of numbers has a least one.
LEMMA LeastNat ==
    ASSUME NEW S, S \subseteq Nat, S # {}
    PROVE  \E x \in S : \A y \in S : x <= y
<1> DEFINE R == OpToRel(<, Nat)
<1>1. PICK x \in S : \A y \in S : ~(<<y, x>> \in R)
    BY NatLessThanWellFounded, WFMin
<1>2. ASSUME NEW y \in S
      PROVE  x <= y
  <2>1. x \in Nat /\ y \in Nat
      OBVIOUS
  <2>2. y < x => <<y, x>> \in R
      BY <2>1 DEF OpToRel
  <2>3. ~(y < x)
      BY <1>1, <2>2, Zenon
  <2>4. QED
      BY <2>1, <2>3
<1>3. QED
    BY <1>2

\* WordCount is what its recursive equation says: 4 to the power of the steps.
LEMMA WordCounts ==
    /\ WordCount \in [0 .. WordSteps -> Nat \ {0}]
    /\ WordCount[0] = 1
    /\ \A n \in 1 .. WordSteps : WordCount[n] = 4 * WordCount[n - 1]
<1> DEFINE Counts(f, m) == f = [n \in 0 .. m |-> IF n = 0 THEN 1 ELSE 4 * f[n - 1]]
           Missing == {m \in Nat : ~ \E f : f \in [0 .. m -> Nat \ {0}] /\ Counts(f, m)}
<1>1. Missing = {}
  <2>1. SUFFICES ASSUME Missing # {}
                 PROVE  FALSE
      OBVIOUS
  <2>2. PICK m \in Missing : \A y \in Missing : m <= y
      BY <2>1, LeastNat
  <2>3. m # 0
    <3>1. [n \in 0 .. 0 |-> 1] \in [0 .. 0 -> Nat \ {0}] /\ Counts([n \in 0 .. 0 |-> 1], 0)
        OBVIOUS
    <3>2. 0 \notin Missing
        BY <3>1
    <3>3. QED
        BY <3>2
  <2>4. m - 1 \in Nat /\ m - 1 \notin Missing
    <3>1. m \in Nat /\ m - 1 \in Nat /\ ~(m <= m - 1)
        BY <2>2, <2>3
    <3> HIDE DEF Missing
    <3>2. QED
        BY <2>2, <3>1
  <2>5. PICK g : g \in [0 .. m - 1 -> Nat \ {0}] /\ Counts(g, m - 1)
      BY <2>4
  <2> DEFINE f == [n \in 0 .. m |-> IF n = 0 THEN 1 ELSE 4 * g[n - 1]]
  <2>6. \A n \in 1 .. m : n - 1 \in 0 .. m - 1
      OBVIOUS
  <2>7. f \in [0 .. m -> Nat \ {0}]
    <3>1. \A n \in 1 .. m : g[n - 1] \in Nat \ {0}
        BY <2>5, <2>6
    <3>2. QED
        BY <3>1
  <2>8. \A n \in 0 .. m - 1 : f[n] = g[n]
      BY <2>5
  <2>9. Counts(f, m)
    <3>1. \A n \in 1 .. m : f[n - 1] = g[n - 1]
        BY <2>6, <2>8
    <3>2. f = [n \in 0 .. m |-> IF n = 0 THEN 1 ELSE 4 * f[n - 1]]
      <4>4. \A n \in 0 .. m : f[n] = IF n = 0 THEN 1 ELSE 4 * g[n - 1]
          OBVIOUS
      <4> HIDE DEF f
      <4>1. \A n \in 0 .. m : f[n] = IF n = 0 THEN 1 ELSE 4 * f[n - 1]
        <5>1. \A n \in 0 .. m : n = 0 \/ n \in 1 .. m
            OBVIOUS
        <5>2. QED
            BY <3>1, <4>4, <5>1
      <4>2. DOMAIN f = 0 .. m /\ f = [n \in 0 .. m |-> f[n]]
          BY <2>7
      <4>3. QED
          BY <4>1, <4>2
    <3>3. QED
        BY <3>2
  <2>10. m \notin Missing
      BY <2>7, <2>9
  <2>11. QED
      BY <2>10
<1>2. PICK f : f \in [0 .. WordSteps -> Nat \ {0}] /\ Counts(f, WordSteps)
    BY <1>1, UiSizes
<1>3. Counts(WordCount, WordSteps)
    BY <1>2 DEF WordCount
<1>4. WordCount = f
  <2> DEFINE Differ == {n \in 0 .. WordSteps : WordCount[n] # f[n]}
  <2>1. SUFFICES ASSUME Differ # {}
                 PROVE  FALSE
      BY <1>2, <1>3
  <2>2. Differ \subseteq Nat
      OBVIOUS
  <2>3. PICK m \in Differ : \A y \in Differ : m <= y
      BY <2>1, <2>2, LeastNat
  <2>8. m \in 0 .. WordSteps /\ WordCount[m] # f[m]
      BY <2>3
  <2>4. WordCount[m] = (IF m = 0 THEN 1 ELSE 4 * WordCount[m - 1]) /\ f[m] = (IF m = 0 THEN 1 ELSE 4 * f[m - 1])
      BY <1>2, <1>3, <2>8
  <2>5. m = 0 \/ (m - 1 \in 0 .. WordSteps /\ ~(m <= m - 1))
      BY <2>8, UiSizes
  <2>6. m - 1 \in 0 .. WordSteps => m - 1 \in Differ \/ WordCount[m - 1] = f[m - 1]
      OBVIOUS
  <2> HIDE DEF Differ
  <2>7. QED
      BY <2>3, <2>4, <2>5, <2>6, <2>8
<1>5. QED
    BY <1>2, <1>4, UiSizes

\* fv_entry_begin starts a sound entry.
LEMMA EntryBegun ==
    ASSUME NEW p \in 2 .. 4
    PROVE  EntrySound(EntryBegin(p), p)
<1>1. 0 \in Symbols(3) /\ 1 \in 1 .. Entries /\ 0 \in 0 .. WordSteps - 1
    BY UiSizes DEF Symbols
<1>2. 0 \in 0 .. WordCount[0] - 1
    BY WordCounts
<1>3. Len(<<>>) <= Entries
    BY UiSizes
<1>4. QED
    BY <1>1, <1>2, <1>3 DEF EntryBegin, EntrySound

\* The remainder of a division.
LEMMA Remainder ==
    ASSUME NEW n \in Nat \ {0}, NEW x \in Nat
    PROVE  x % n \in 0 .. n - 1
BY SMT

\* A key on the wheels keeps every wheel, and the one selected, in range.
LEMMA WheelKept ==
    ASSUME NEW e \in EntryType, NEW k, EntrySound(e, 3)
    PROVE  WheelKey(e, k) \in EntryType /\ EntrySound(WheelKey(e, k), 3)
<1>0. Symbols(3) = 0 .. Codes - 1
    BY DEF Symbols
<1>1. /\ e.profile = 3 /\ e.selected \in 1 .. Entries /\ e.values \in [1 .. Entries -> 0 .. Codes - 1]
    BY <1>0 DEF EntrySound
<1>2. ASSUME NEW c \in 0 .. Codes - 1
      PROVE  LET v == [e.values EXCEPT ![e.selected] = c]
             IN [e EXCEPT !.values = v] \in EntryType /\ EntrySound([e EXCEPT !.values = v], 3)
  <2> DEFINE v == [e.values EXCEPT ![e.selected] = c]
  <2>1. v \in [1 .. Entries -> 0 .. Codes - 1]
      BY <1>1, <1>2
  <2>2. v \in Seq(Int)
    <3>1. v \in [1 .. Entries -> Int]
        BY <2>1
    <3>2. Entries \in Nat
        BY UiSizes
    <3>3. QED
        BY <3>1, <3>2, SeqDef
  <2> HIDE DEF v
  <2> DEFINE r == [e EXCEPT !.values = v]
  <2>3. r \in EntryType /\ r.values = v /\ r.profile = e.profile /\ r.selected = e.selected
      BY <2>2 DEF EntryType
  <2> HIDE DEF r
  <2>6. v \in [1 .. Entries -> Symbols(3)]
      BY <1>0, <2>1
  <2>4. EntrySound(r, 3)
      BY <1>1, <2>3, <2>6 DEF EntrySound
  <2>5. QED
      BY <2>3, <2>4 DEF v, r
<1>3. ASSUME NEW i \in 1 .. Entries
      PROVE  [e EXCEPT !.selected = i] \in EntryType /\ EntrySound([e EXCEPT !.selected = i], 3)
    BY <1>0, <1>1, <1>3 DEF EntryType, EntrySound
<1>4. e.values[e.selected] \in 0 .. Codes - 1
    BY <1>1
<1>5. /\ (e.values[e.selected] + 1) % Codes \in 0 .. Codes - 1
      /\ (e.values[e.selected] + Codes - 1) % Codes \in 0 .. Codes - 1
  <2>1. Codes \in Nat \ {0} /\ e.values[e.selected] + 1 \in Nat /\ e.values[e.selected] + Codes - 1 \in Nat
      BY <1>4, UiSizes
  <2>2. QED
      BY <2>1, Remainder
<1>6. ((e.selected + Entries - 2) % Entries) + 1 \in 1 .. Entries /\ (e.selected % Entries) + 1 \in 1 .. Entries
  <2>1. e.selected + Entries - 2 \in Nat /\ e.selected \in Nat /\ Entries \in Nat \ {0}
      BY <1>1, UiSizes
  <2>2. (e.selected + Entries - 2) % Entries \in 0 .. Entries - 1 /\ e.selected % Entries \in 0 .. Entries - 1
      BY <2>1, Remainder
  <2>3. QED
      BY <2>1, <2>2
<1>7. CASE k = "UP"
  <2>1. WheelKey(e, k) = [e EXCEPT !.values = [e.values EXCEPT ![e.selected] = (e.values[e.selected] + 1) % Codes]]
      BY <1>7, <1>1 DEF WheelKey, EntryType
  <2>2. QED
      BY <1>2, <1>5, <2>1
<1>8. CASE k = "DOWN"
  <2>1. WheelKey(e, k) =
            [e EXCEPT !.values = [e.values EXCEPT ![e.selected] = (e.values[e.selected] + Codes - 1) % Codes]]
      BY <1>8, <1>1 DEF WheelKey, EntryType
  <2>2. QED
      BY <1>2, <1>5, <2>1
<1>9. CASE k = "LEFT"
  <2>1. WheelKey(e, k) = [e EXCEPT !.selected = ((e.selected + Entries - 2) % Entries) + 1]
      BY <1>9 DEF WheelKey, EntryType
  <2>2. QED
      BY <1>3, <1>6, <2>1
<1>10. CASE k = "RIGHT"
  <2>1. WheelKey(e, k) = [e EXCEPT !.selected = (e.selected % Entries) + 1]
      BY <1>10 DEF WheelKey, EntryType
  <2>2. QED
      BY <1>3, <1>6, <2>1
<1>11. CASE k \notin {"UP", "DOWN", "LEFT", "RIGHT"}
    BY <1>11 DEF WheelKey
<1>12. QED
    BY <1>7, <1>8, <1>9, <1>10, <1>11

\* Steps towards a word leave the words that are complete.
LEMMA StepsKept ==
    ASSUME NEW e \in EntryType, EntrySound(e, 4),
           NEW d \in 0 .. WordSteps - 1, NEW q \in 0 .. WordCount[d] - 1
    PROVE  LET r == [e EXCEPT !.depth = d, !.prefix = q] IN r \in EntryType /\ EntrySound(r, 4)
<1> DEFINE r == [e EXCEPT !.depth = d, !.prefix = q]
<1>1. d \in Int /\ q \in Int
  <2>1. d \in 0 .. WordSteps /\ d \in Int
      BY UiSizes
  <2>2. QED
      BY <2>1, WordCounts
<1>2. r \in EntryType /\ r.values = e.values /\ r.profile = e.profile /\ r.depth = d /\ r.prefix = q
    BY <1>1 DEF EntryType
<1> HIDE DEF r
<1>3. EntrySound(r, 4)
    BY <1>2 DEF EntrySound
<1>4. QED
    BY <1>2, <1>3 DEF r

\* A key on the words keeps every word, and the steps towards the next, in range.
LEMMA WordKept ==
    ASSUME NEW e \in EntryType, NEW k \in Keys, EntrySound(e, 4)
    PROVE  WordKey(e, k) \in EntryType /\ EntrySound(WordKey(e, k), 4)
<1> DEFINE W == 0 .. WordCount[WordSteps] - 1
           value == e.prefix * 4 + Choice(k)
<1>0. Symbols(4) = W
    BY DEF Symbols
<1>1. /\ e.profile = 4 /\ e.values \in Seq(W) /\ Len(e.values) <= Entries
      /\ e.depth \in 0 .. WordSteps - 1 /\ e.prefix \in 0 .. WordCount[e.depth] - 1
    BY <1>0 DEF EntrySound
<1>2. WordSteps \in Nat /\ Entries \in Nat /\ W \subseteq Int
    BY UiSizes
<1> HIDE DEF W
<1>3. Choice(k) \in 0 .. 3
    BY DEF Choice
<1>4. e.depth + 1 \in 1 .. WordSteps /\ WordCount[e.depth + 1] = 4 * WordCount[e.depth]
      /\ WordCount[e.depth] \in Nat
  <2>1. e.depth + 1 \in 1 .. WordSteps /\ e.depth \in 0 .. WordSteps /\ (e.depth + 1) - 1 = e.depth
      BY <1>1, <1>2
  <2>2. QED
      BY <2>1, WordCounts
<1>5. value \in 0 .. WordCount[e.depth + 1] - 1
  <2> DEFINE n == WordCount[e.depth]
             m == WordCount[e.depth + 1]
             c == Choice(k)
  <2>1. n \in Nat /\ m = 4 * n /\ c \in 0 .. 3 /\ e.prefix \in 0 .. n - 1
      BY <1>1, <1>3, <1>4
  <2> HIDE DEF n, m, c
  <2>2. e.prefix * 4 + c \in 0 .. m - 1
      BY <2>1
  <2>3. QED
      BY <2>2 DEF m, c
<1> HIDE DEF value
<1>6. ASSUME NEW s \in Seq(W), Len(s) <= Entries
      PROVE  [e EXCEPT !.values = s] \in EntryType /\ EntrySound([e EXCEPT !.values = s], 4)
  <2>1. s \in Seq(Int)
      BY <1>2, SeqMonotonic
  <2> DEFINE r == [e EXCEPT !.values = s]
  <2>2. r \in EntryType /\ r.values = s /\ r.profile = e.profile /\ r.depth = e.depth /\ r.prefix = e.prefix
      BY <2>1 DEF EntryType
  <2> HIDE DEF r
  <2>3. EntrySound(r, 4)
      BY <1>0, <1>1, <1>6, <2>2 DEF EntrySound
  <2>4. QED
      BY <2>2, <2>3 DEF r
<1>7. ASSUME NEW n \in 0 .. Len(e.values)
      PROVE  SubSeq(e.values, 1, n) \in Seq(W) /\ Len(SubSeq(e.values, 1, n)) = n
  <2>1. \A i \in 1 .. n : e.values[i] \in W
      BY <1>1
  <2>2. QED
      BY <2>1, SubSeqProperties
<1>8. CASE k = "BACK"
  <2>1. CASE e.depth > 0
    <3>1. WordKey(e, k) = [e EXCEPT !.depth = e.depth - 1, !.prefix = e.prefix \div 4]
      <4>1. WordKey(e, k) = [e EXCEPT !.depth = @ - 1, !.prefix = @ \div 4]
          BY <1>8, <2>1 DEF WordKey, Arrows
      <4>2. QED
          BY <4>1 DEF EntryType
    <3>2. e.depth - 1 \in 0 .. WordSteps - 1 /\ e.depth \in 1 .. WordSteps /\ e.depth - 1 \in 0 .. WordSteps
        BY <1>1, <1>2, <2>1
    <3>3. WordCount[e.depth] = 4 * WordCount[e.depth - 1] /\ WordCount[e.depth - 1] \in Nat
        BY <3>2, WordCounts
    <3>4. e.prefix \div 4 \in 0 .. WordCount[e.depth - 1] - 1
      <4> DEFINE n == WordCount[e.depth - 1]
      <4>1. n \in Nat /\ e.prefix \in 0 .. 4 * n - 1
          BY <1>1, <3>3
      <4> HIDE DEF n
      <4>2. e.prefix \div 4 \in 0 .. n - 1
          BY <4>1
      <4>3. QED
          BY <4>2 DEF n
    <3> DEFINE d == e.depth - 1
               q == e.prefix \div 4
    <3>5. d \in 0 .. WordSteps - 1 /\ q \in 0 .. WordCount[d] - 1 /\ WordKey(e, k) = [e EXCEPT !.depth = d, !.prefix = q]
        BY <3>1, <3>2, <3>4
    <3> HIDE DEF d, q
    <3>6. QED
        BY <3>5, StepsKept
  <2>2. CASE ~(e.depth > 0) /\ e.values # <<>>
    <3>1. Len(e.values) - 1 \in 0 .. Len(e.values)
        BY <1>1, <2>2, EmptySeq
    <3>2. WordKey(e, k) = [e EXCEPT !.values = SubSeq(e.values, 1, Len(e.values) - 1)]
      <4>1. e.depth = 0
          BY <1>1, <1>2, <2>2
      <4>2. WordKey(e, k) = [e EXCEPT !.values = SubSeq(@, 1, Len(@) - 1)]
          BY <1>8, <2>2, <4>1 DEF WordKey, Arrows
      <4>3. QED
          BY <4>2 DEF EntryType
    <3> DEFINE t == SubSeq(e.values, 1, Len(e.values) - 1)
    <3>3. t \in Seq(W) /\ Len(t) <= Entries
        BY <1>1, <1>2, <1>7, <3>1
    <3> HIDE DEF t
    <3>4. QED
        BY <1>6, <3>2, <3>3 DEF t
  <2>3. CASE ~(e.depth > 0) /\ e.values = <<>>
    <3>1. WordKey(e, k) = e
        BY <1>1, <1>8, <2>3 DEF WordKey, Arrows
    <3>2. QED
        BY <3>1
  <2>4. QED
      BY <2>1, <2>2, <2>3
<1>9. CASE k \in Arrows /\ Len(e.values) = Entries
  <2> DEFINE n == IF Choice(k) < Entries THEN Choice(k) ELSE Entries
  <2>1. WordKey(e, k) = [e EXCEPT !.values = SubSeq(e.values, 1, n)]
      BY <1>9 DEF WordKey, EntryType, Arrows
  <2>2. n \in 0 .. Len(e.values)
      BY <1>2, <1>3, <1>9
  <2> HIDE DEF n
  <2>3. SubSeq(e.values, 1, n) \in Seq(W) /\ Len(SubSeq(e.values, 1, n)) <= Entries
      BY <1>2, <1>7, <1>9, <2>2
  <2>4. QED
      BY <1>6, <2>1, <2>3
<1>10. CASE k \in Arrows /\ Len(e.values) # Entries /\ e.depth < WordSteps - 1
  <2>1. WordKey(e, k) = [e EXCEPT !.depth = e.depth + 1, !.prefix = value]
    <3>1. WordKey(e, k) = [e EXCEPT !.prefix = value, !.depth = @ + 1]
        BY <1>1, <1>2, <1>10 DEF WordKey, Arrows, value
    <3>2. QED
        BY <3>1 DEF EntryType
  <2>2. e.depth + 1 \in 0 .. WordSteps - 1
      BY <1>1, <1>2, <1>10
  <2>3. QED
      BY <1>5, StepsKept, <2>1, <2>2
<1>11. CASE k \in Arrows /\ Len(e.values) # Entries /\ ~(e.depth < WordSteps - 1)
  <2>1. e.depth = WordSteps - 1 /\ value \in W
      BY <1>1, <1>2, <1>5, <1>11 DEF W
  <2>2. WordKey(e, k) = [e EXCEPT !.values = Append(e.values, value), !.depth = 0, !.prefix = 0]
      BY <1>11, <2>1 DEF WordKey, EntryType, Arrows, value
  <2>3. Append(e.values, value) \in Seq(W) /\ Len(Append(e.values, value)) = Len(e.values) + 1
      BY <1>1, <2>1, AppendProperties
  <2>4. Len(Append(e.values, value)) <= Entries
      BY <1>1, <1>2, <1>11, <2>3
  <2> DEFINE t == Append(e.values, value)
             f == [e EXCEPT !.values = t]
             r == [f EXCEPT !.depth = 0, !.prefix = 0]
  <2>5. f \in EntryType /\ EntrySound(f, 4)
      BY <1>6, <2>3, <2>4
  <2>6. 0 \in 0 .. WordSteps - 1 /\ 0 \in 0 .. WordCount[0] - 1
      BY UiSizes, WordCounts
  <2>7. WordKey(e, k) = r
      BY <2>2
  <2> HIDE DEF f
  <2>8. r \in EntryType /\ EntrySound(r, 4)
      BY <2>5, <2>6, StepsKept
  <2>9. QED
      BY <2>7, <2>8
<1>12. CASE k \notin Arrows \cup {"BACK"}
    BY <1>12 DEF WordKey
<1>13. QED
    BY <1>8, <1>9, <1>10, <1>11, <1>12

\* fv_entry_key keeps the entry sound, whatever the profile.
LEMMA EntryKept ==
    ASSUME NEW e \in EntryType, NEW p \in 2 .. 4, EntrySound(e, p), NEW k \in Keys
    PROVE  EntryKey(e, k) \in EntryType /\ EntrySound(EntryKey(e, k), p)
<1>1. e.profile = p
    BY DEF EntrySound
<1>2. CASE p = 2
    BY <1>1, <1>2 DEF EntryKey
<1>3. CASE p = 3
    BY <1>1, <1>3, WheelKept DEF EntryKey
<1>4. CASE p = 4
    BY <1>1, <1>4, WordKept DEF EntryKey
<1>5. QED
    BY <1>2, <1>3, <1>4

\* An interface outside a prompt whose job is not submitted.
Free(z) ==
    /\ z \in UiType /\ ~z.modal /\ ~z.pending /\ z.confirmation = <<>>
    /\ Usable(z.dev)
\* The screens that hold no input and ask for no release.
Plain == {"home", "dashboard", "settings", "erase", "reset", "verification", "dashsetting", "error"}

\* What is known on a screen that neither waits nor confirms a credential.
LEMMA Resting ==
    ASSUME NEW z, ScreensSound(z), ~z.modal, z.screen \notin {"wait", "error", "confirm"}
    PROVE  /\ Free(z)
           /\ z.screen \notin FlowScreens => Cleared(z)
           /\ FlowSound(z) /\ PasskeySound(z)
BY DEF ScreensSound, Free, Wiped, JobSound, DeviceSound

\* A screen outside the flows may be shown once the input is wiped.
LEMMA ShowPlain ==
    ASSUME NEW z, Free(z), Cleared(z), NEW s \in Plain
    PROVE  Follows(z, Show(z, s))
<1> DEFINE r == Show(z, s)
<1>1. z \in UiType /\ s \in Screens /\ s \notin FlowScreens
    BY DEF Free, Plain, Screens, FlowScreens
<1>2. /\ r \in UiType /\ r.screen = s /\ r.confirmation = <<>> /\ ~r.pending /\ r.dev = z.dev /\ ~r.modal /\ r.modal = z.modal
      /\ r.job = z.job /\ r.cursor = 0
    BY <1>1, ShowFacts DEF Free
<1>3. r.entry = z.entry
    BY <1>1, ShowFacts DEF FlowScreens
<1> HIDE DEF r
<1>4. Cleared(r) /\ Usable(r.dev)
    BY <1>2, <1>3 DEF Cleared, Free
<1>5. s \notin {"secret", "confirm", "method", "stack", "options", "review", "passkeys", "delete", "approve", "wait"}
    BY DEF Plain
<1>6. Wiped(r) /\ JobSound(r) /\ DeviceSound(r)
    BY <1>2, <1>4, <1>5 DEF Wiped, JobSound, DeviceSound
<1>7. FlowSound(r) /\ PasskeySound(r)
    BY <1>2, <1>5 DEF FlowSound, FlowScreens, PasskeySound
<1>8. ScreensSound(r)
    BY <1>2, <1>5, <1>6, <1>7 DEF ScreensSound
<1>9. Follows(z, r)
    BY <1>2, <1>5, <1>8 DEF Follows, Prompting
<1>10. QED
    BY <1>9 DEF r

\* A passkey screen may be shown when the job names the passkey on it.
LEMMA ShowPasskeys ==
    ASSUME NEW z, Free(z), Cleared(z), z.job.id = z.dev.pk.id,
           NEW s \in {"passkeys", "delete"}, s = "delete" => z.dev.pk.count > 0
    PROVE  Follows(z, Show(z, s))
<1> DEFINE r == Show(z, s)
<1>1. z \in UiType /\ s \in Screens /\ s \notin FlowScreens
    BY DEF Free, Screens, FlowScreens
<1>2. /\ r \in UiType /\ r.screen = s /\ r.confirmation = <<>> /\ ~r.pending /\ r.dev = z.dev /\ ~r.modal /\ r.modal = z.modal
      /\ r.job = z.job
    BY <1>1, ShowFacts DEF Free
<1>11. r.bump
  <2>1. r.bump = (z.bump \/ s \in {"secret", "confirm", "passkeys", "delete"})
      BY <1>1, ShowFacts
  <2>2. QED
      BY <2>1, Zenon
<1>3. r.entry = z.entry
    BY <1>1, ShowFacts DEF FlowScreens
<1> HIDE DEF r
<1>4. Cleared(r) /\ Usable(r.dev)
    BY <1>2, <1>3 DEF Cleared, Free
<1>5. s \notin {"secret", "confirm", "method", "stack", "options", "review", "approve", "wait", "dashsetting"}
    OBVIOUS
<1>6. Wiped(r) /\ JobSound(r) /\ DeviceSound(r)
    BY <1>2, <1>4, <1>5 DEF Wiped, JobSound, DeviceSound
<1>7. FlowSound(r) /\ PasskeySound(r)
    BY <1>2, <1>5 DEF FlowSound, FlowScreens, PasskeySound
<1>8. ScreensSound(r)
    BY <1>2, <1>5, <1>6, <1>7 DEF ScreensSound
<1>9. Follows(z, r)
    BY <1>2, <1>5, <1>8, <1>11 DEF Follows, Prompting
<1>10. QED
    BY <1>9 DEF r

\* What a screen of a flow asks of the interface it is shown for.
Ready(z, s) ==
    /\ Prepared(z)
    /\ s \in {"secret", "confirm"} => z.job.profile \in 2 .. 4
    /\ s = "secret" => Typing(z.job.secret, z.job.profile)
    /\ s \in {"confirm", "stack", "options", "review"} => Complete(z)
    /\ s \in {"confirm", "method", "review"} => Second(z)
    /\ s = "method" => z.job.secret = <<>>
    /\ s \in {"confirm", "method"} => z.flow \in {"setup", "change"}
    /\ s = "stack" => z.flow = "setup"
    /\ s = "options" => z.flow \in {"setup", "policy"}
    /\ s = "review" => z.flow # "unlock"

\* A screen of a flow may be shown when the interface is ready for it.
LEMMA ShowFlow ==
    ASSUME NEW z, Free(z), NEW s \in FlowScreens, Ready(z, s)
    PROVE  Follows(z, Show(z, s))
<1> DEFINE r == Show(z, s)
<1>1. z \in UiType /\ s \in Screens
    BY DEF Free, Screens
<1>2. /\ r \in UiType /\ r.screen = s /\ r.confirmation = <<>> /\ ~r.pending /\ r.dev = z.dev /\ ~r.modal /\ r.modal = z.modal
      /\ r.job = z.job /\ r.flow = z.flow
      /\ s \in {"secret", "confirm"} => r.entry = EntryBegin(z.job.profile)
    BY <1>1, ShowFacts DEF Free
<1>12. s \in {"secret", "confirm"} => r.bump
  <2>1. r.bump = (z.bump \/ s \in {"secret", "confirm", "passkeys", "delete"})
      BY <1>1, ShowFacts
  <2>2. QED
      BY <2>1, Zenon
<1> HIDE DEF r
<1>4. Usable(r.dev)
    BY <1>2 DEF Free
<1>5. s \notin {"approve", "wait", "dashsetting", "passkeys", "delete"}
    BY DEF FlowScreens
<1>6. Wiped(r) /\ JobSound(r) /\ DeviceSound(r)
    BY <1>2, <1>4, <1>5 DEF Wiped, JobSound, DeviceSound
<1>7. FlowSound(r)
  <2>1. Prepared(r)
      BY <1>2 DEF Ready, Prepared
  <2>2. s \in {"secret", "confirm"} => r.job.profile \in 2 .. 4 /\ EntrySound(r.entry, r.job.profile)
      BY <1>2, EntryBegun DEF Ready
  <2>3. Complete(z) => Complete(r)
      BY <1>2 DEF Complete, LongEnough
  <2>4. Second(z) => Second(r)
      BY <1>2 DEF Second
  <2>5. Typing(<<>>, r.job.profile)
    <3>1. <<>> \in Seq(1 .. 4) /\ Len(<<>>) <= MaxLength
        BY UiLimits
    <3>2. QED
        BY <3>1 DEF Typing
  <2>6. QED
      BY <1>2, <2>1, <2>2, <2>3, <2>4, <2>5 DEF Ready, FlowSound
<1>8. PasskeySound(r)
    BY <1>2, <1>5 DEF PasskeySound
<1>9. ScreensSound(r)
    BY <1>2, <1>5, <1>6, <1>7, <1>8 DEF ScreensSound
<1>10. Follows(z, r)
    BY <1>2, <1>5, <1>9, <1>12 DEF Follows, Prompting
<1>11. QED
    BY <1>10 DEF r

\* Moving the cursor of a screen changes nothing else.
SameBut(z, v) ==
    /\ v.screen = z.screen /\ v.flow = z.flow /\ v.job = z.job /\ v.confirmation = z.confirmation
    /\ v.entry = z.entry /\ v.pending = z.pending /\ v.dev = z.dev /\ v.modal = z.modal
    /\ v.done = z.done /\ v.approved = z.approved /\ v.bump = z.bump

\* Moving the cursor keeps every screen sound.
LEMMA CursorFollows ==
    ASSUME NEW z, ScreensSound(z), z.screen # "wait", NEW c \in Nat, z.screen = "dashsetting" => c \in 0 .. 1
    PROVE  LET v == [z EXCEPT !.cursor = c]
           IN v \in UiType /\ v.cursor = c /\ SameBut(z, v) /\ ScreensSound(v) /\ Follows(z, v)
<1> DEFINE v == [z EXCEPT !.cursor = c]
<1>1. z \in UiType
    BY DEF ScreensSound
<1>2. v \in UiType /\ v.cursor = c /\ SameBut(z, v)
    BY <1>1 DEF UiType, SameBut
<1> HIDE DEF v
<1>3. Wiped(v) /\ JobSound(v) /\ DeviceSound(v)
    BY <1>2 DEF ScreensSound, SameBut, Wiped, JobSound, DeviceSound, Cleared
<1>4. FlowSound(z) => FlowSound(v)
    BY <1>2 DEF SameBut, FlowSound, Prepared, Complete, LongEnough, Second
<1>5. PasskeySound(z) => PasskeySound(v)
    BY <1>2 DEF SameBut, PasskeySound
<1>6. ScreensSound(v)
    BY <1>2, <1>3, <1>4, <1>5 DEF ScreensSound, SameBut
<1>7. ~v.pending
    BY <1>2 DEF SameBut, ScreensSound, JobSound
<1>8. Follows(z, v)
    BY <1>2, <1>6, <1>7 DEF Follows, SameBut
<1>9. QED
    BY <1>2, <1>6, <1>8 DEF v

\* What follows an interface follows any other on the same screen and device.
LEMMA FollowsSame ==
    ASSUME NEW z, NEW v, NEW x, v.dev = z.dev, v.modal = z.modal, v.screen = z.screen, Follows(v, x)
    PROVE  Follows(z, x)
BY DEF Follows

\* ui_selection_move stays among the choices.
LEMMA MovedInRange ==
    ASSUME NEW c \in Nat, NEW n \in Nat, NEW k
    PROVE  Moved(c, n, k) \in Nat /\ (n > 0 => Moved(c, n, k) \in 0 .. n - 1)
<1> DEFINE d == IF c >= n THEN 0 ELSE c
<1>1. CASE n = 0
    BY <1>1 DEF Moved
<1>2. CASE n > 0
  <2>1. d \in 0 .. n - 1 /\ d + n - 1 \in Nat /\ d + 1 \in Nat /\ n \in Nat \ {0}
      BY <1>2
  <2>2. (d + n - 1) % n \in 0 .. n - 1 /\ (d + 1) % n \in 0 .. n - 1
      BY <2>1, Remainder
  <2>3. Moved(c, n, k) \in {d, (d + n - 1) % n, (d + 1) % n}
      BY <1>2 DEF Moved
  <2> HIDE DEF d
  <2>4. QED
      BY <2>1, <2>2, <2>3
<1>3. QED
    BY <1>1, <1>2

\* The empty job is well formed and holds no secret.
LEMMA NoJobFacts == NoJob \in JobType /\ NoJob.secret = <<>> /\ NoJob.current = <<>>
<1>1. Policy("none", 0, 0, 0) \in Policies
    BY UiSizes DEF Policy, Policies
<1>2. <<>> \in Seq(Int) /\ <<>> \in Seq(1 .. Algorithms)
    OBVIOUS
<1>3. NoJob \in JobType
    BY <1>1, <1>2 DEF NoJob, JobType, Modes, Ops
<1>4. QED
    BY <1>3 DEF NoJob

\* The settings a session may use.
MenuItems(d) ==
    (IF Admin(d.mode) THEN {"policy", "erase", "method"} ELSE {})
    \cup (IF Fido(d.mode) THEN {"reset", "verification", "passkeys"} ELSE {})
    \cup (IF Unlocked(d) THEN {"dashsetting"} ELSE {})

\* The settings offered are those the session may use.
LEMMA MenuFacts ==
    ASSUME NEW d
    PROVE  Menu(d) \in Seq(MenuItems(d))
<1> DEFINE I == MenuItems(d)
           a == IF Admin(d.mode) THEN <<"policy", "erase", "method">> ELSE <<>>
           f == IF Fido(d.mode) THEN <<"reset", "verification", "passkeys">> ELSE <<>>
           l == IF Unlocked(d) THEN <<"dashsetting">> ELSE <<>>
<1>7. /\ Admin(d.mode) => "policy" \in I /\ "erase" \in I /\ "method" \in I
      /\ Fido(d.mode) => "reset" \in I /\ "verification" \in I /\ "passkeys" \in I
      /\ Unlocked(d) => "dashsetting" \in I
    BY DEF MenuItems
<1> HIDE DEF I
<1>0. <<>> \in Seq(I)
    OBVIOUS
<1>1. a \in Seq(I)
  <2>1. CASE Admin(d.mode)
    <3>1. "policy" \in I /\ "erase" \in I /\ "method" \in I
        BY <1>7, <2>1
    <3>2. <<"policy", "erase", "method">> \in Seq(I)
        BY <3>1
    <3>3. QED
        BY <2>1, <3>2
  <2>2. QED
      BY <1>0, <2>1
<1>2. f \in Seq(I)
  <2>1. CASE Fido(d.mode)
    <3>1. "reset" \in I /\ "verification" \in I /\ "passkeys" \in I
        BY <1>7, <2>1
    <3>2. <<"reset", "verification", "passkeys">> \in Seq(I)
        BY <3>1
    <3>3. QED
        BY <2>1, <3>2
  <2>2. QED
      BY <1>0, <2>1
<1>3. l \in Seq(I)
  <2>1. CASE Unlocked(d)
    <3>1. "dashsetting" \in I
        BY <1>7, <2>1
    <3>2. <<"dashsetting">> \in Seq(I)
        BY <3>1
    <3>3. QED
        BY <2>1, <3>2
  <2>2. QED
      BY <1>0, <2>1
<1>4. Menu(d) = (a \o f) \o l
    BY DEF Menu
<1> HIDE DEF a, f, l
<1>5. (a \o f) \o l \in Seq(I)
    BY <1>1, <1>2, <1>3, ConcatProperties
<1>6. QED
    BY <1>4, <1>5 DEF I

\* A key may change nothing.
LEMMA FollowsSelf ==
    ASSUME NEW z, ScreensSound(z), z.screen # "wait"
    PROVE  Follows(z, z)
BY DEF Follows, ScreensSound, JobSound

\* What is known of an interface holds after its cursor has moved.
LEMMA FreeSame ==
    ASSUME NEW z, NEW v \in UiType, SameBut(z, v)
    PROVE  /\ Free(z) => Free(v)
           /\ Cleared(z) => Cleared(v)
           /\ \A s : Ready(z, s) => Ready(v, s)
<1>1. Free(z) => Free(v)
    BY DEF SameBut, Free
<1>2. Cleared(z) => Cleared(v)
    BY DEF SameBut, Cleared
<1>3. Prepared(z) => Prepared(v)
    BY DEF SameBut, Prepared
<1>4. Complete(z) => Complete(v)
    BY DEF SameBut, Complete, LongEnough
<1>5. ASSUME NEW s, Ready(z, s)
      PROVE  Ready(v, s)
    BY <1>3, <1>4, <1>5 DEF SameBut, Ready, Second
<1>6. QED
    BY <1>1, <1>2, <1>5

\* A choice between two: both outcomes are proved of the interface as it is.
LEMMA ConfirmationFollows ==
    ASSUME NEW z, ScreensSound(z), z.screen \notin {"wait", "dashsetting"}, NEW k,
           NEW yes, NEW no, Follows(z, yes), Follows(z, no)
    PROVE  Follows(z, Confirmation(z, k, yes, no))
<1>1. z.cursor \in Nat
    BY DEF ScreensSound, UiType
<1>2. Moved(z.cursor, 2, k) \in Nat
    BY <1>1, MovedInRange
<1>3. Follows(z, [z EXCEPT !.cursor = Moved(z.cursor, 2, k)])
    BY <1>2, CursorFollows
<1>4. [z EXCEPT !.cursor = Moved(@, 2, k)] = [z EXCEPT !.cursor = Moved(z.cursor, 2, k)]
    BY DEF ScreensSound, UiType
<1>5. Confirmation(z, k, yes, no) \in {yes, no, [z EXCEPT !.cursor = Moved(z.cursor, 2, k)]}
    BY <1>4 DEF Confirmation
<1>6. QED
    BY <1>3, <1>5

\* ui_settings_return keeps the screens sound.
LEMMA ReturnFollows ==
    ASSUME NEW z, Free(z), NEW s, z.screen # "wait"
    PROVE  Follows(z, ReturnTo(z, s))
<1> DEFINE c == ClearInput(z)
           v == Show(c, "settings")
           at == {i \in DOMAIN Menu(z.dev) : Menu(z.dev)[i] = s}
<1>1. z \in UiType
    BY DEF Free
<1>2. c \in UiType /\ ~c.modal /\ ~c.pending /\ c.confirmation = <<>> /\ c.dev = z.dev /\ Cleared(c)
      /\ c.modal = z.modal /\ c.screen = z.screen
    BY <1>1, ClearFacts DEF Free
<1> HIDE DEF c
<1>3. Free(c)
    BY <1>2 DEF Free
<1>4. "settings" \in Plain /\ "settings" \in Screens
    BY DEF Plain, Screens
<1>5. Follows(c, v)
    BY <1>2, <1>3, <1>4, ShowPlain
<1>6. v.screen = "settings"
    BY <1>2, <1>4, ShowFacts
<1> HIDE DEF v
<1>7. Follows(z, v)
    BY <1>2, <1>5, FollowsSame
<1>8. CASE at = {}
    BY <1>7, <1>8 DEF ReturnTo, v, c
<1>9. CASE at # {}
  <2> DEFINE i == CHOOSE i \in at : TRUE
  <2>1. i \in at
      BY <1>9
  <2>2. DOMAIN Menu(z.dev) \subseteq Nat \ {0}
    <3>1. Menu(z.dev) \in Seq(MenuItems(z.dev))
        BY MenuFacts
    <3>2. QED
        BY <3>1, LenProperties
  <2>3. i - 1 \in Nat
      BY <2>1, <2>2
  <2> HIDE DEF i
  <2>4. LET x == [v EXCEPT !.cursor = i - 1]
        IN SameBut(v, x) /\ ScreensSound(x) /\ Follows(v, x)
      BY <1>6, <1>7, <2>3, CursorFollows DEF Follows
  <2> DEFINE x == [v EXCEPT !.cursor = i - 1]
  <2>5. Follows(z, x)
    <3> HIDE DEF x
    <3>1. SameBut(v, x) /\ ScreensSound(x)
        BY <2>4 DEF x
    <3>2. QED
        BY <1>6, <1>7, <3>1 DEF Follows, SameBut, Prompting, ScreensSound, JobSound
  <2>6. ReturnTo(z, s) = x
      BY <1>9 DEF ReturnTo, v, c, i
  <2>7. QED
      BY <2>5, <2>6
<1>10. QED
    BY <1>8, <1>9

\* begin_flow, for an empty device and for an active one.
LEMMA BeginFollows ==
    ASSUME NEW z, Free(z), Cleared(z), NEW mode \in Modes, z.dev.status = "active" => mode # "locked"
    PROVE  Follows(z, BeginFlow(z, mode))
<1> DEFINE active == z.dev.status = "active"
           p == IF z.dev.profile = 0 THEN 2 ELSE z.dev.profile
           m == IF active THEN mode ELSE "locked"
           f == IF active THEN "unlock" ELSE "setup"
           pol == Policy("destroy", DefaultAttempts, Durations \div 2, 0)
           i == [NoJob EXCEPT !.stack = <<1>>, !.profile = p]
           j == [i EXCEPT !.policy = pol, !.mode = m]
           v == [z EXCEPT !.flow = f, !.job = j]
<1>1. z \in UiType /\ z.dev \in DeviceType /\ Usable(z.dev) /\ z.entry = NoEntry /\ z.confirmation = <<>>
    BY DEF Free, UiType, Cleared
<1>2. p \in 1 .. 4 /\ m \in Modes /\ f \in Flows
    BY <1>1 DEF DeviceType, Modes, Flows
<1>3. pol \in Policies /\ ValidPolicy(pol)
  <2>1. Durations \div 2 \in 0 .. Durations - 1 /\ 0 \in 0 .. Durations - 1
      BY UiSizes
  <2>2. DefaultAttempts \in 1 .. MaxAttempts /\ DefaultAttempts \in Nat
      BY UiLimits, UiSizes
  <2>3. QED
      BY <2>1, <2>2 DEF Policy, Policies, ValidPolicy
<1>4. <<1>> \in Seq(1 .. Algorithms) /\ Len(<<1>>) \in 1 .. MaxStack
    BY UiSizes
<1>5. active => f = "unlock" /\ m # "locked" /\ p = z.dev.profile
    BY <1>1 DEF Usable
<1>6. ~active => f = "setup"
    OBVIOUS
<1> HIDE DEF p, m, f, pol
<1>7. i \in JobType /\ i.profile = p /\ i.stack = <<1>> /\ i.secret = <<>> /\ i.current = <<>>
  <2>1. NoJob \in JobType /\ NoJob.secret = <<>> /\ NoJob.current = <<>>
      BY NoJobFacts
  <2>2. p \in 0 .. 4
      BY <1>2
  <2>3. QED
      BY <1>4, <2>1, <2>2 DEF JobType
<1> HIDE DEF i
<1>8. j \in JobType /\ j.profile = p /\ j.mode = m /\ j.policy = pol /\ j.stack = <<1>> /\ j.secret = <<>> /\ j.current = <<>>
    BY <1>2, <1>3, <1>7 DEF JobType
<1> HIDE DEF j
<1>9. v \in UiType /\ v.job = j /\ v.flow = f /\ v.dev = z.dev /\ v.modal = z.modal /\ v.pending = z.pending
      /\ v.confirmation = <<>> /\ v.entry = NoEntry /\ v.screen = z.screen
    BY <1>1, <1>2, <1>8 DEF UiType
<1>10. Free(v) /\ Cleared(v)
    BY <1>8, <1>9 DEF Free, Cleared
<1>11. BeginFlow(z, mode) = Show(v, IF ~active THEN "method" ELSE IF p = 1 THEN "error" ELSE "secret")
    BY DEF BeginFlow, v, j, i, p, m, f, pol
<1> HIDE DEF v
<1>12. CASE ~active
  <2>1. Ready(v, "method")
      BY <1>3, <1>4, <1>6, <1>8, <1>9, <1>12 DEF Ready, Prepared, Second
  <2>2. QED
      BY <1>9, <1>10, <1>11, <1>12, <2>1, ShowFlow, FollowsSame DEF FlowScreens
<1>13. CASE active /\ p = 1
    BY <1>9, <1>10, <1>11, <1>13, ShowPlain, FollowsSame DEF Plain
<1>14. CASE active /\ p # 1
  <2>1. Typing(<<>>, p)
    <3>1. <<>> \in Seq(1 .. 4) /\ Len(<<>>) <= MaxLength
        BY UiLimits
    <3>2. QED
        BY <3>1 DEF Typing
  <2>2. Ready(v, "secret")
      BY <1>2, <1>5, <1>8, <1>9, <1>14, <2>1 DEF Ready, Prepared
  <2>3. QED
      BY <1>9, <1>10, <1>11, <1>14, <2>2, ShowFlow, FollowsSame DEF FlowScreens
<1>15. QED
    BY <1>12, <1>13, <1>14

\* The cursor of the interface after a key.
LEMMA CursorKey ==
    ASSUME NEW z, ScreensSound(z), z.screen \notin {"wait", "dashsetting"}, NEW n \in Nat, NEW k
    PROVE  LET c == Moved(z.cursor, n, k)
               v == [z EXCEPT !.cursor = c]
           IN /\ c \in Nat /\ (n > 0 => c \in 0 .. n - 1)
              /\ v = [z EXCEPT !.cursor = Moved(@, n, k)]
              /\ v \in UiType /\ v.cursor = c /\ SameBut(z, v) /\ ScreensSound(v) /\ Follows(z, v)
<1>1. z \in UiType /\ z.cursor \in Nat
    BY DEF ScreensSound, UiType
<1>2. Moved(z.cursor, n, k) \in Nat /\ (n > 0 => Moved(z.cursor, n, k) \in 0 .. n - 1)
    BY <1>1, MovedInRange
<1>3. [z EXCEPT !.cursor = Moved(@, n, k)] = [z EXCEPT !.cursor = Moved(z.cursor, n, k)]
    BY <1>1 DEF UiType
<1>4. QED
    BY <1>2, <1>3, CursorFollows

\* The same, from a screen on which the user acts.
LEMMA SubmitFollows ==
    ASSUME NEW z, Free(z), NEW op \in Simple
    PROVE  Follows(z, Submit(z, op))
BY SimpleSubmit DEF Free

\* The keys of the home screen.
LEMMA HomeFollows ==
    ASSUME NEW z, ScreensSound(z), ~z.modal, z.screen = "home", NEW k \in Keys
    PROVE  Follows(z, HomeKey(z, k))
<1>1. Free(z) /\ Cleared(z) /\ z.screen # "wait"
    BY Resting DEF FlowScreens
<1>2. Follows(z, z)
    BY FollowsSelf
<1>3. CASE k \in {"LEFT", "RIGHT"}
    BY <1>2, <1>3 DEF HomeKey
<1>4. CASE k = "BACK"
  <2>1. Follows(z, Show(z, "dashboard"))
      BY <1>1, ShowPlain DEF Plain
  <2>2. Follows(z, GoHome(z))
      BY <1>1, GoHomeFollows DEF Free
  <2>3. QED
      BY <1>4, <2>1, <2>2 DEF HomeKey
<1>5. CASE k \notin {"LEFT", "RIGHT", "BACK"} /\ Unlocked(z.dev)
  <2> DEFINE v == [z EXCEPT !.cursor = Moved(z.cursor, 2, k)]
  <2>1. /\ v = [z EXCEPT !.cursor = Moved(@, 2, k)] /\ v \in UiType /\ SameBut(z, v) /\ Follows(z, v)
      BY CursorKey
  <2> HIDE DEF v
  <2>2. Free(v) /\ Cleared(v)
      BY <1>1, <2>1, FreeSame
  <2>3. Follows(v, Submit(v, "lock")) /\ Follows(v, Show(v, "settings"))
      BY <2>2, SubmitFollows, ShowPlain DEF Plain, Simple
  <2>4. Follows(z, Submit(v, "lock")) /\ Follows(z, Show(v, "settings"))
      BY <2>1, <2>3, FollowsSame DEF SameBut
  <2>5. HomeKey(z, k) \in {v, Submit(v, "lock"), Show(v, "settings")}
      BY <1>5, <2>1 DEF HomeKey
  <2>6. QED
      BY <2>1, <2>4, <2>5
<1>6. CASE k \notin {"LEFT", "RIGHT", "BACK"} /\ ~Unlocked(z.dev)
  <2>1. CASE z.dev.status = "active"
    <3>1. PICK m \in {"full", "passkeys", "readonly"} : HomeKey(z, k) = BeginFlow(z, m)
        BY <1>6, <2>1 DEF HomeKey
    <3>2. m \in Modes /\ m # "locked"
        BY DEF Modes
    <3>3. QED
        BY <1>1, <3>1, <3>2, BeginFollows
  <2>2. CASE z.dev.status # "active"
    <3>1. HomeKey(z, k) \in {BeginFlow(z, "locked"), z}
        BY <1>6, <2>2 DEF HomeKey
    <3>2. "locked" \in Modes
        BY DEF Modes
    <3>3. QED
        BY <1>1, <1>2, <2>2, <3>1, <3>2, BeginFollows
  <2>3. QED
      BY <2>1, <2>2
<1>7. QED
    BY <1>3, <1>4, <1>5, <1>6

\* The keys of the dashboard.
LEMMA DashboardFollows ==
    ASSUME NEW z, ScreensSound(z), ~z.modal, z.screen = "dashboard", NEW k \in Keys
    PROVE  Follows(z, DashboardKey(z, k))
<1>1. Free(z) /\ Cleared(z)
    BY Resting DEF FlowScreens
<1>2. Follows(z, z) /\ Follows(z, Submit(z, "lock")) /\ Follows(z, Show(z, "settings"))
    BY <1>1, FollowsSelf, SubmitFollows, ShowPlain DEF Plain, Simple
<1>3. DashboardKey(z, k) \in {z, Submit(z, "lock"), Show(z, "settings")}
    BY DEF DashboardKey
<1>4. QED
    BY <1>2, <1>3

\* A job of another policy or method is prepared by the session's own profile.
LEMMA ChosenFollows ==
    ASSUME NEW z, Free(z), Cleared(z), NEW s \in MenuItems(z.dev)
    PROVE  Follows(z, Chosen(z, s))
<1>1. z \in UiType /\ z.dev \in DeviceType /\ z.dev.policy \in Policies /\ z.dev.profile \in 0 .. 4 /\ Usable(z.dev)
    BY DEF Free, UiType, DeviceType
<1>2. ASSUME NEW f \in {"policy", "change"}, NEW p \in Policies, f = "policy" => ValidPolicy(p), NEW g \in 2 .. 4
      PROVE  Follows(z, Show([ClearInput(z) EXCEPT !.flow = f, !.job.profile = g, !.job.policy = p], "secret"))
  <2> DEFINE c == ClearInput(z)
             r == [c EXCEPT !.flow = f, !.job.profile = g, !.job.policy = p]
  <2>1. /\ c \in UiType /\ c.confirmation = <<>> /\ c.pending = z.pending /\ c.dev = z.dev /\ c.modal = z.modal
        /\ c.screen = z.screen /\ c.job.secret = <<>> /\ c.job.current = <<>>
      BY <1>1, ClearFacts DEF Cleared
  <2> HIDE DEF c
  <2>2. c.job \in JobType /\ f \in Flows /\ g \in 0 .. 4
      BY <1>2, <2>1 DEF UiType, Flows
  <2> DEFINE j == [c.job EXCEPT !.profile = g, !.policy = p]
  <2>3. j \in JobType /\ j.profile = g /\ j.policy = p /\ j.secret = <<>> /\ j.current = <<>>
      BY <1>2, <2>1, <2>2 DEF JobType
  <2>4. r = [c EXCEPT !.flow = f, !.job = j]
      BY <2>1 DEF UiType
  <2> HIDE DEF j, r
  <2>5. /\ r \in UiType /\ r.job = j /\ r.flow = f /\ r.dev = z.dev /\ r.modal = z.modal /\ r.pending = z.pending
        /\ r.confirmation = <<>> /\ r.screen = z.screen
      BY <2>1, <2>2, <2>3, <2>4 DEF UiType
  <2>6. Free(r)
      BY <2>5 DEF Free
  <2>7. Typing(<<>>, g)
    <3>1. <<>> \in Seq(1 .. 4) /\ Len(<<>>) <= MaxLength
        BY UiLimits
    <3>2. QED
        BY <3>1 DEF Typing
  <2>8. Ready(r, "secret")
      BY <1>2, <2>3, <2>5, <2>7, UiLimits DEF Ready, Prepared
  <2>9. Follows(r, Show(r, "secret"))
      BY <2>6, <2>8, ShowFlow DEF FlowScreens
  <2>10. Follows(z, Show(r, "secret"))
      BY <2>5, <2>9, FollowsSame
  <2>11. QED
      BY <2>10 DEF r, c
<1>3. s \in {"policy", "method"} => z.dev.profile \in 2 .. 4
  <2>1. s \in {"policy", "method"} => Admin(z.dev.mode)
      BY DEF MenuItems
  <2>2. Admin(z.dev.mode) => Unlocked(z.dev)
      BY DEF Admin, Unlocked
  <2>3. QED
      BY <1>1, <2>1, <2>2 DEF Usable
<1>4. Limit(z.dev.policy) \in Policies /\ ValidPolicy(Limit(z.dev.policy))
  <2> DEFINE p == z.dev.policy
  <2>1. DefaultAttempts \in 1 .. MaxAttempts /\ DefaultAttempts \in Nat /\ MaxAttempts \in Nat
      BY UiLimits, UiSizes
  <2>2. p \in Policies
      BY <1>1
  <2> HIDE DEF p
  <2> DEFINE r == Limit(p)
  <2>3. ASSUME p.action = "none"
        PROVE  r \in Policies /\ ValidPolicy(r)
    <3>1. r \in Policies /\ r.action = "none" /\ r.attempts = 0
        BY <2>2, <2>3 DEF Limit, Policies
    <3> HIDE DEF r
    <3>2. r.lock \in 0 .. Durations - 1 /\ r.sleep \in 0 .. Durations - 1
        BY <3>1 DEF Policies
    <3>3. QED
        BY <3>1, <3>2 DEF ValidPolicy
  <2>4. ASSUME p.action # "none"
        PROVE  r \in Policies /\ ValidPolicy(r)
    <3> DEFINE a == IF p.attempts \in 1 .. MaxAttempts THEN p.attempts ELSE DefaultAttempts
    <3>1. a \in 1 .. MaxAttempts /\ a \in Nat
        BY <2>1
    <3>2. r = [p EXCEPT !.action = "destroy", !.attempts = a]
        BY <2>2, <2>4 DEF Limit, Policies
    <3> HIDE DEF a
    <3>3. r \in Policies /\ r.action = "destroy" /\ r.attempts = a
        BY <2>2, <3>1, <3>2 DEF Policies
    <3> HIDE DEF r
    <3>4. r.lock \in 0 .. Durations - 1 /\ r.sleep \in 0 .. Durations - 1
        BY <3>3 DEF Policies
    <3>5. QED
        BY <3>1, <3>3, <3>4 DEF ValidPolicy
  <2>5. r \in Policies /\ ValidPolicy(r)
      BY <2>3, <2>4
  <2>6. QED
      BY <2>5 DEF p, r
<1> DEFINE g == IF z.dev.profile = 0 THEN 2 ELSE z.dev.profile
<1>10. s \in {"policy", "method"} => g \in 2 .. 4
    BY <1>3
<1>5. CASE s = "policy"
  <2>1. Chosen(z, s) = Show([ClearInput(z) EXCEPT !.flow = "policy", !.job.profile = g,
                                                  !.job.policy = Limit(z.dev.policy)], "secret")
      BY <1>5 DEF Chosen
  <2> HIDE DEF g
  <2>2. QED
      BY <1>2, <1>4, <1>5, <1>10, <2>1
<1>6. CASE s = "method"
  <2>1. Chosen(z, s) = Show([ClearInput(z) EXCEPT !.flow = "change", !.job.profile = g,
                                                  !.job.policy = z.dev.policy], "secret")
      BY <1>6 DEF Chosen
  <2> HIDE DEF g
  <2>2. QED
      BY <1>1, <1>2, <1>6, <1>10, <2>1
<1>7. CASE s = "passkeys"
    BY <1>7, SubmitFollows DEF Chosen, Simple
<1>8. CASE s \notin {"policy", "method", "passkeys"}
  <2>1. s \in Plain
      BY <1>8 DEF MenuItems, Plain
  <2>2. Chosen(z, s) = Show(z, s)
      BY <1>8 DEF Chosen
  <2>3. QED
      BY <2>1, <2>2, ShowPlain
<1>9. QED
    BY <1>5, <1>6, <1>7, <1>8

\* The keys of the settings.
LEMMA SettingsFollows ==
    ASSUME NEW z, ScreensSound(z), ~z.modal, z.screen = "settings", NEW k \in Keys
    PROVE  Follows(z, SettingsKey(z, k))
<1> DEFINE n == Len(Menu(z.dev))
           v == [z EXCEPT !.cursor = Moved(z.cursor, n, k)]
           s == Menu(z.dev)[v.cursor + 1]
<1>1. Free(z) /\ Cleared(z)
    BY Resting DEF FlowScreens
<1>2. Menu(z.dev) \in Seq(MenuItems(z.dev)) /\ n \in Nat
    BY MenuFacts, LenProperties
<1> HIDE DEF n
<1>3. /\ v = [z EXCEPT !.cursor = Moved(@, n, k)] /\ v \in UiType /\ SameBut(z, v) /\ Follows(z, v)
    BY <1>2, CursorKey
<1>4. v.cursor \in Nat
    BY <1>3 DEF UiType
<1> HIDE DEF v
<1>5. Free(v) /\ Cleared(v) /\ v.dev = z.dev
    BY <1>1, <1>3, FreeSame DEF SameBut
<1>6. CASE k = "BACK"
    BY <1>1, <1>6, GoHomeFollows DEF Free, SettingsKey
<1>7. CASE k # "BACK" /\ k = "SELECT" /\ v.cursor < n
  <2>1. v.cursor + 1 \in 1 .. n
      BY <1>2, <1>4, <1>7
  <2>2. s \in MenuItems(v.dev)
      BY <1>2, <1>5, <2>1, ElementOfSeq DEF n
  <2> HIDE DEF s
  <2>3. Follows(v, Chosen(v, s))
      BY <1>5, <2>2, ChosenFollows
  <2>4. Follows(z, Chosen(v, s))
      BY <1>3, <2>3, FollowsSame DEF SameBut
  <2>5. SettingsKey(z, k) = Chosen(v, s)
      BY <1>3, <1>7 DEF SettingsKey, n, s
  <2>6. QED
      BY <2>4, <2>5
<1>8. CASE k # "BACK" /\ ~(k = "SELECT" /\ v.cursor < n)
  <2>1. SettingsKey(z, k) = v
      BY <1>3, <1>8 DEF SettingsKey, n
  <2>2. QED
      BY <1>3, <2>1
<1>9. QED
    BY <1>6, <1>7, <1>8

\* A job that is replaced on a screen.
LEMMA JobReplaced ==
    ASSUME NEW z \in UiType, NEW j \in JobType
    PROVE  LET r == [z EXCEPT !.job = j]
           IN /\ r \in UiType /\ r.job = j
              /\ r.screen = z.screen /\ r.cursor = z.cursor /\ r.flow = z.flow /\ r.confirmation = z.confirmation
              /\ r.entry = z.entry /\ r.pending = z.pending /\ r.dev = z.dev /\ r.modal = z.modal
              /\ r.done = z.done /\ r.approved = z.approved /\ r.bump = z.bump
BY DEF UiType

\* Editing the job on a screen of a flow, as far as the screen allows it.
LEMMA FlowStays ==
    ASSUME NEW z, ScreensSound(z), ~z.modal, z.screen \in FlowScreens \ {"secret", "confirm"},
           NEW j \in JobType, Ready([z EXCEPT !.job = j], z.screen)
    PROVE  LET r == [z EXCEPT !.job = j]
           IN r \in UiType /\ Follows(z, r) /\ ScreensSound(r) /\ Free(r)
<1> DEFINE r == [z EXCEPT !.job = j]
<1>1. z \in UiType /\ z.screen \in FlowScreens /\ z.screen \notin {"secret", "confirm", "wait", "error", "dashsetting", "passkeys", "delete"}
    BY DEF ScreensSound, FlowScreens
<1>2. Free(z)
    BY <1>1, Resting
<1>3. /\ r \in UiType /\ r.job = j
      /\ r.screen = z.screen /\ r.flow = z.flow /\ r.confirmation = z.confirmation
      /\ r.entry = z.entry /\ r.pending = z.pending /\ r.dev = z.dev /\ r.modal = z.modal
    BY <1>1, JobReplaced
<1>4. Ready(r, z.screen)
    OBVIOUS
<1> HIDE DEF r
<1>5. Free(r)
    BY <1>2, <1>3 DEF Free
<1>6. FlowSound(r)
    BY <1>1, <1>3, <1>4 DEF Ready, FlowSound
<1>7. Wiped(r) /\ JobSound(r) /\ DeviceSound(r) /\ PasskeySound(r)
    BY <1>1, <1>3, <1>5 DEF Free, Wiped, JobSound, DeviceSound, PasskeySound
<1>8. ScreensSound(r)
    BY <1>1, <1>3, <1>6, <1>7 DEF ScreensSound, FlowScreens
<1>9. Follows(z, r)
    BY <1>1, <1>3, <1>5, <1>8 DEF Follows, Free
<1>10. QED
    BY <1>3, <1>5, <1>8, <1>9 DEF r

\* The keys of the choice of a credential method.
LEMMA MethodFollows ==
    ASSUME NEW z, ScreensSound(z), ~z.modal, z.screen = "method", NEW k \in Keys
    PROVE  Follows(z, MethodKey(z, k))
<1> DEFINE v == [z EXCEPT !.cursor = Moved(z.cursor, 3, k)]
<1>1. Free(z) /\ FlowSound(z)
    BY Resting
<1>2. /\ v = [z EXCEPT !.cursor = Moved(@, 3, k)] /\ v \in UiType /\ SameBut(z, v) /\ Follows(z, v)
      /\ v.cursor = Moved(z.cursor, 3, k)
    BY CursorKey
<1>9. Moved(z.cursor, 3, k) \in 0 .. 2
  <2>1. z.cursor \in Nat /\ 3 \in Nat /\ 3 > 0
      BY DEF ScreensSound, UiType
  <2>2. Moved(z.cursor, 3, k) \in 0 .. 3 - 1
      BY <2>1, MovedInRange
  <2>3. QED
      BY <2>2
<1> HIDE DEF v
<1>3. Ready(z, "method")
    BY <1>1 DEF FlowSound, Ready, FlowScreens
<1>4. Free(v) /\ Ready(v, "method")
    BY <1>1, <1>2, <1>3, FreeSame
<1>5. CASE k = "BACK"
    BY <1>1, <1>5, GoHomeFollows DEF Free, MethodKey
<1>6. CASE k = "SELECT"
  <2> DEFINE p == v.cursor + 2
             j == [v.job EXCEPT !.profile = p]
             r == [v EXCEPT !.job = j]
  <2>1. v.job \in JobType /\ p \in 2 .. 4 /\ p \in 0 .. 4
      BY <1>2, <1>9 DEF UiType
  <2> HIDE DEF p
  <2>2. /\ j \in JobType /\ j.profile \in 2 .. 4 /\ j.secret = v.job.secret /\ j.current = v.job.current
        /\ j.mode = v.job.mode /\ j.policy = v.job.policy /\ j.stack = v.job.stack
      BY <2>1 DEF JobType
  <2>3. MethodKey(z, k) = Show(r, "secret")
    <3>1. [v EXCEPT !.job.profile = p] = r
        BY <1>2 DEF UiType
    <3>2. QED
        BY <1>2, <1>6, <3>1 DEF MethodKey, p
  <2> HIDE DEF j
  <2>4. /\ r \in UiType /\ r.job = j /\ r.screen = v.screen /\ r.flow = v.flow /\ r.confirmation = v.confirmation
        /\ r.pending = v.pending /\ r.dev = v.dev /\ r.modal = v.modal
      BY <1>2, <2>2, JobReplaced
  <2> HIDE DEF r
  <2>5. Free(r)
      BY <1>4, <2>4 DEF Free
  <2>6. Typing(<<>>, j.profile)
    <3>1. <<>> \in Seq(1 .. 4) /\ Len(<<>>) <= MaxLength
        BY UiLimits
    <3>2. QED
        BY <3>1 DEF Typing
  <2>7. Ready(r, "secret")
      BY <1>4, <2>2, <2>4, <2>6 DEF Ready, Prepared
  <2>8. Follows(r, Show(r, "secret"))
      BY <2>5, <2>7, ShowFlow DEF FlowScreens
  <2>9. QED
      BY <1>2, <2>3, <2>4, <2>8, FollowsSame DEF SameBut
<1>7. CASE k \notin {"BACK", "SELECT"}
    BY <1>2, <1>7 DEF MethodKey
<1>8. QED
    BY <1>5, <1>6, <1>7

\* The keys of the list of passkeys.
LEMMA PasskeysFollows ==
    ASSUME NEW z, ScreensSound(z), ~z.modal, z.screen = "passkeys", NEW k \in Keys
    PROVE  Follows(z, PasskeysKey(z, k))
<1>1. Free(z) /\ Cleared(z) /\ PasskeySound(z)
    BY Resting DEF FlowScreens
<1>2. Follows(z, z) /\ Follows(z, Submit(z, "list")) /\ Follows(z, ReturnTo(z, "passkeys"))
    BY <1>1, FollowsSelf, SubmitFollows, ReturnFollows DEF Simple
<1>3. z.dev.pk.count > 0 => Follows(z, Show(z, "delete"))
    BY <1>1, ShowPasskeys DEF PasskeySound
<1>4. QED
    BY <1>2, <1>3 DEF PasskeysKey

\* The keys of the dashboard setting.
LEMMA DashSettingFollows ==
    ASSUME NEW z, ScreensSound(z), ~z.modal, z.screen = "dashsetting", NEW k \in Keys
    PROVE  Follows(z, DashSettingKey(z, k))
<1>1. Free(z) /\ z \in UiType
    BY Resting DEF Free
<1>2. Follows(z, z) /\ Follows(z, ReturnTo(z, "dashsetting"))
    BY <1>1, FollowsSelf, ReturnFollows
<1>3. 1 - z.cursor \in 0 .. 1
    BY DEF ScreensSound
<1>4. Follows(z, [z EXCEPT !.cursor = 1 - z.cursor])
    BY <1>3, CursorFollows
<1>5. [z EXCEPT !.cursor = 1 - @] = [z EXCEPT !.cursor = 1 - z.cursor]
    BY <1>1 DEF UiType
<1>6. QED
    BY <1>2, <1>4, <1>5 DEF DashSettingKey

\* The two answers to the question whether to delete a passkey: the job names the one shown.
LEMMA DeleteFollows ==
    ASSUME NEW z, ScreensSound(z), ~z.modal, z.screen = "delete"
    PROVE  Follows(z, Submit(z, "delete")) /\ Follows(z, Show(z, "passkeys"))
<1>1. Free(z) /\ Cleared(z) /\ PasskeySound(z)
    BY Resting DEF FlowScreens
<1>2. Follows(z, Show(z, "passkeys"))
    BY <1>1, ShowPasskeys DEF PasskeySound
<1> DEFINE r == Submit(z, "delete")
<1>3. z \in UiType /\ "delete" \in Ops
    BY <1>1 DEF Free, Ops
<1>4. /\ r \in UiType /\ r.screen = "wait" /\ r.pending /\ r.confirmation = <<>> /\ r.dev = z.dev /\ r.modal = z.modal
      /\ r.job.op = "delete" /\ r.job.id = z.job.id
    BY <1>1, <1>3, SubmitFacts DEF Free, SameInput
<1> HIDE DEF r
<1>5. JobSound(r)
    BY <1>1, <1>4 DEF JobSound, Accepts, PasskeySound
<1>6. ScreensSound(r)
    BY <1>4, <1>5 DEF ScreensSound, Wiped, FlowScreens, DeviceSound, FlowSound, PasskeySound
<1>7. Follows(z, r)
    BY <1>4, <1>6 DEF Follows, Prompting
<1>8. QED
    BY <1>2, <1>7 DEF r

\* A flow that is complete submits a job the worker accepts.
LEMMA JobSubmitted ==
    ASSUME NEW z, Free(z), z.screen \notin {"wait", "error"}, NEW op \in {"unlock", "create", "policy", "change"},
           Prepared(z), ValidSecret(z.job), op # "policy" /\ op # "unlock" => LongEnough(z),
           op = "unlock" => z.flow = "unlock", op = "create" => z.flow = "setup",
           op = "policy" => z.flow = "policy", op = "change" => z.flow = "change" /\ Second(z)
    PROVE  Follows(z, Submit(z, op))
<1> DEFINE r == Submit(z, op)
<1>1. z \in UiType /\ op \in Ops
    BY DEF Free, Ops
<1>2. /\ r \in UiType /\ r.screen = "wait" /\ r.pending /\ r.confirmation = <<>> /\ r.dev = z.dev /\ r.modal = z.modal
      /\ r.job.op = op /\ SameInput(r.job, z.job)
    BY <1>1, SubmitFacts DEF Free
<1> HIDE DEF r
<1>3. ValidSecret(r.job)
    BY <1>2 DEF SameInput, ValidSecret
<1>4. z.job.current \in Seq(Int) /\ z.job.mode \in Modes /\ z.job.stack \in Seq(1 .. Algorithms)
    BY <1>1 DEF UiType, JobType
<1>5. op = "change" => Len(z.job.current) \in 1 .. MaxLength
    BY <1>4, UiLimits, EmptySeq DEF Prepared, Second
<1>6. \A i \in DOMAIN z.job.stack : z.job.stack[i] \in 1 .. Algorithms
    BY <1>4, LenProperties, ElementOfSeq
<1>7. op # "policy" /\ op # "unlock" => (z.job.profile = 2 => Len(z.job.secret) >= MinLength)
    BY DEF LongEnough
<1>8. Accepts(r.job)
    BY <1>2, <1>3, <1>4, <1>5, <1>6, <1>7 DEF Accepts, SameInput, Prepared, Modes
<1>9. JobSound(r)
    BY <1>2, <1>8 DEF JobSound, Prepared
<1>10. ScreensSound(r)
    BY <1>2, <1>9 DEF ScreensSound, Wiped, FlowScreens, DeviceSound, FlowSound, PasskeySound, Free
<1>11. Follows(z, r)
    BY <1>2, <1>10 DEF Follows, Prompting, Free
<1>12. QED
    BY <1>11 DEF r

\* Another stack of ciphers on the screen that edits it.
LEMMA StackStays ==
    ASSUME NEW v, ScreensSound(v), ~v.modal, v.screen = "stack",
           NEW t \in Seq(1 .. Algorithms), Len(t) \in 1 .. MaxStack
    PROVE  LET r == [v EXCEPT !.job.stack = t] IN r \in UiType /\ Follows(v, r) /\ ScreensSound(r)
<1> DEFINE j == [v.job EXCEPT !.stack = t]
           r == [v EXCEPT !.job = j]
<1>1. v \in UiType /\ v.job \in JobType
    BY DEF ScreensSound, UiType
<1>2. /\ j \in JobType /\ j.stack = t /\ j.policy = v.job.policy /\ j.secret = v.job.secret
      /\ j.current = v.job.current /\ j.profile = v.job.profile /\ j.mode = v.job.mode
    BY <1>1 DEF JobType
<1>3. [v EXCEPT !.job.stack = t] = r
    BY <1>1 DEF UiType
<1> HIDE DEF j
<1>4. FlowSound(v)
    BY Resting
<1>5. r.job = j /\ r.flow = v.flow /\ r.dev = v.dev
    BY <1>1, <1>2, JobReplaced
<1>6. Ready(r, "stack")
  <2> HIDE DEF r
  <2>1. v.flow = "setup" /\ ValidPolicy(v.job.policy) /\ ValidSecret(v.job) /\ LongEnough(v)
      BY <1>4 DEF FlowSound, FlowScreens, Prepared, Complete
  <2>2. ValidSecret(j) /\ LongEnough(r)
      BY <1>2, <1>5, <2>1 DEF ValidSecret, LongEnough
  <2>3. QED
      BY <1>2, <1>5, <2>1, <2>2 DEF Ready, Prepared, Complete
<1>7. r \in UiType /\ Follows(v, r) /\ ScreensSound(r)
    BY <1>2, <1>6, FlowStays DEF FlowScreens
<1>8. QED
    BY <1>3, <1>7

\* The keys of the screen that builds the stack of ciphers.
LEMMA StackFollows ==
    ASSUME NEW z, ScreensSound(z), ~z.modal, z.screen = "stack", NEW k \in Keys
    PROVE  Follows(z, StackKey(z, k))
<1> DEFINE n == Len(z.job.stack)
           c == Moved(z.cursor, n + 3, k)
           v == [z EXCEPT !.cursor = c]
<1>1. Free(z) /\ FlowSound(z) /\ z \in UiType
    BY Resting DEF Free
<1>2. z.job.stack \in Seq(1 .. Algorithms) /\ n \in 1 .. MaxStack
    BY <1>1 DEF UiType, JobType, FlowSound, FlowScreens, Prepared
<1>3. MaxStack \in Nat /\ Algorithms \in Nat \ {0} /\ n + 3 \in Nat /\ n \in Nat
    BY <1>2, UiSizes
<1> HIDE DEF n
<1>4. /\ v = [z EXCEPT !.cursor = Moved(@, n + 3, k)] /\ v \in UiType /\ SameBut(z, v)
      /\ ScreensSound(v) /\ Follows(z, v) /\ c \in Nat
    BY <1>3, CursorKey
<1> HIDE DEF c, v
<1>5. v.job = z.job /\ v.screen = "stack" /\ ~v.modal /\ v.dev = z.dev /\ v.modal = z.modal
    BY <1>4 DEF SameBut
<1>6. ASSUME NEW t \in Seq(1 .. Algorithms), Len(t) \in 1 .. MaxStack
      PROVE  /\ Follows(z, [v EXCEPT !.job.stack = t]) /\ [v EXCEPT !.job.stack = t].screen = "stack"
             /\ ScreensSound([v EXCEPT !.job.stack = t])
             /\ [v EXCEPT !.job.stack = t].modal = z.modal /\ [v EXCEPT !.job.stack = t].dev = z.dev
  <2> DEFINE r == [v EXCEPT !.job.stack = t]
  <2>1. r \in UiType /\ Follows(v, r) /\ ScreensSound(r)
      BY <1>4, <1>5, <1>6, StackStays
  <2>2. r.screen = "stack" /\ r.modal = z.modal /\ r.dev = z.dev
      BY <1>4, <1>5 DEF UiType
  <2> HIDE DEF r
  <2>3. QED
      BY <1>4, <1>5, <2>1, <2>2, FollowsSame DEF r
<1>7. CASE k = "BACK"
    BY <1>1, <1>7, GoHomeFollows DEF Free, StackKey
<1>8. CASE k \in {"LEFT", "RIGHT", "SELECT"} /\ c < n
  <2> DEFINE a == (z.job.stack[c + 1] % Algorithms) + 1
             t == [z.job.stack EXCEPT ![c + 1] = a]
  <2>1. c + 1 \in 1 .. n
      BY <1>3, <1>4, <1>8
  <2>2. z.job.stack[c + 1] \in 1 .. Algorithms
      BY <1>2, <2>1, ElementOfSeq DEF n
  <2>3. a \in 1 .. Algorithms
    <3> DEFINE x == z.job.stack[c + 1]
    <3>1. x \in Nat
        BY <2>2
    <3> HIDE DEF x
    <3>2. x % Algorithms \in 0 .. Algorithms - 1
        BY <1>3, <3>1, Remainder
    <3>3. (x % Algorithms) + 1 \in 1 .. Algorithms
        BY <1>3, <3>2
    <3>4. QED
        BY <3>3 DEF x
  <2> HIDE DEF a
  <2>4. t \in Seq(1 .. Algorithms) /\ Len(t) = n
      BY <1>2, <2>1, <2>3, ExceptSeq DEF n
  <2>5. StackKey(z, k) = [v EXCEPT !.job.stack[c + 1] = (@ % Algorithms) + 1]
      BY <1>3, <1>8 DEF StackKey, n, c, v
  <2>6. [v EXCEPT !.job.stack[c + 1] = (@ % Algorithms) + 1] = [v EXCEPT !.job.stack = t]
      BY <1>4, <1>5 DEF UiType, JobType, a
  <2> HIDE DEF t
  <2>7. QED
      BY <1>2, <1>6, <2>4, <2>5, <2>6
<1>9. CASE k = "SELECT" /\ c = n
  <2> DEFINE t == Append(z.job.stack, 1)
  <2>1. CASE n < MaxStack
    <3>1. t \in Seq(1 .. Algorithms) /\ Len(t) = n + 1
      <4>1. 1 \in 1 .. Algorithms
          BY <1>3
      <4>2. QED
          BY <1>2, <4>1, AppendProperties DEF n
    <3>2. StackKey(z, k) = [v EXCEPT !.job.stack = Append(@, 1)]
        BY <1>3, <1>9, <2>1 DEF StackKey, n, c, v
    <3>3. [v EXCEPT !.job.stack = Append(@, 1)] = [v EXCEPT !.job.stack = t]
        BY <1>4, <1>5 DEF UiType, JobType
    <3> HIDE DEF t
    <3>4. Len(t) \in 1 .. MaxStack
        BY <1>3, <2>1, <3>1
    <3>5. QED
        BY <1>6, <3>1, <3>2, <3>3, <3>4
  <2>2. CASE ~(n < MaxStack)
    <3>1. StackKey(z, k) = v
        BY <1>3, <1>9, <2>2 DEF StackKey, n, c, v
    <3>2. QED
        BY <1>4, <3>1
  <2>3. QED
      BY <2>1, <2>2
<1>10. CASE k = "SELECT" /\ c = n + 1
  <2> DEFINE t == SubSeq(z.job.stack, 1, n - 1)
             r == [v EXCEPT !.job.stack = t]
  <2>1. CASE n > 1
    <3>1. t \in Seq(1 .. Algorithms) /\ Len(t) \in 1 .. MaxStack
      <4>1. \A i \in 1 .. n - 1 : z.job.stack[i] \in 1 .. Algorithms
          BY <1>2, <1>3, ElementOfSeq DEF n
      <4>2. 1 <= n - 1 /\ n - 1 \in Int /\ 1 \in Int /\ (n - 1) - 1 + 1 \in 1 .. MaxStack
          BY <1>2, <1>3, <2>1
      <4>3. QED
          BY <4>1, <4>2, SubSeqProperties
    <3> HIDE DEF t
    <3>2. Follows(z, r) /\ r.screen = "stack" /\ ScreensSound(r) /\ r.modal = z.modal /\ r.dev = z.dev
        BY <1>6, <3>1
    <3>3. StackKey(z, k) = [v EXCEPT !.job.stack = SubSeq(@, 1, n - 1), !.cursor = n]
        BY <1>3, <1>10, <2>1 DEF StackKey, n, c, v
    <3>4. [v EXCEPT !.job.stack = SubSeq(@, 1, n - 1), !.cursor = n] = [r EXCEPT !.cursor = n]
        BY <1>4, <1>5 DEF UiType, JobType, t
    <3> HIDE DEF r
    <3>5. Follows(r, [r EXCEPT !.cursor = n])
        BY <1>3, <3>2, CursorFollows
    <3>6. Follows(z, [r EXCEPT !.cursor = n])
        BY <3>2, <3>5, FollowsSame
    <3>7. QED
        BY <3>3, <3>4, <3>6
  <2>2. CASE ~(n > 1)
    <3>1. StackKey(z, k) = v
        BY <1>3, <1>10, <2>2 DEF StackKey, n, c, v
    <3>2. QED
        BY <1>4, <3>1
  <2>3. QED
      BY <2>1, <2>2
<1>11. CASE k = "SELECT" /\ c = n + 2
  <2>1. StackKey(z, k) = Show(v, "options")
      BY <1>3, <1>11 DEF StackKey, n, c, v
  <2>2. FlowSound(v) /\ Free(v)
      BY <1>4, <1>5, Resting
  <2>3. Ready(v, "options")
      BY <1>5, <2>2 DEF FlowSound, FlowScreens, Ready
  <2>4. QED
      BY <1>4, <1>5, <2>1, <2>2, <2>3, ShowFlow, FollowsSame DEF FlowScreens
<1>12. CASE k # "BACK" /\ ~(k \in {"LEFT", "RIGHT", "SELECT"} /\ c < n) /\ ~(k = "SELECT" /\ c \in {n, n + 1, n + 2})
  <2>1. StackKey(z, k) = v
      BY <1>12 DEF StackKey, n, c, v
  <2>2. QED
      BY <1>4, <2>1
<1>13. QED
    BY <1>7, <1>8, <1>9, <1>10, <1>11, <1>12

\* Another policy on the screen that edits it.
LEMMA PolicyStays ==
    ASSUME NEW v, ScreensSound(v), ~v.modal, v.screen = "options", NEW p \in Policies, ValidPolicy(p)
    PROVE  Follows(v, [v EXCEPT !.job.policy = p])
<1> DEFINE j == [v.job EXCEPT !.policy = p]
           r == [v EXCEPT !.job = j]
<1>1. v \in UiType /\ v.job \in JobType
    BY DEF ScreensSound, UiType
<1>2. /\ j \in JobType /\ j.policy = p /\ j.stack = v.job.stack /\ j.secret = v.job.secret
      /\ j.current = v.job.current /\ j.profile = v.job.profile /\ j.mode = v.job.mode
    BY <1>1 DEF JobType
<1>3. [v EXCEPT !.job.policy = p] = r
    BY <1>1 DEF UiType
<1> HIDE DEF j
<1>4. FlowSound(v)
    BY Resting
<1>5. r.job = j /\ r.flow = v.flow /\ r.dev = v.dev
    BY <1>1, <1>2, JobReplaced
<1>6. Ready(r, "options")
  <2> HIDE DEF r
  <2>1. v.flow \in {"setup", "policy"} /\ Prepared(v) /\ ValidSecret(v.job) /\ (v.flow # "policy" => LongEnough(v))
      BY <1>4 DEF FlowSound, FlowScreens, Complete
  <2>2. ValidSecret(j) /\ (LongEnough(v) => LongEnough(r))
      BY <1>2, <1>5, <2>1 DEF ValidSecret, LongEnough
  <2>3. QED
      BY <1>2, <1>5, <2>1, <2>2 DEF Ready, Prepared, Complete
<1>7. Follows(v, r)
    BY <1>2, <1>6, FlowStays DEF FlowScreens
<1>8. QED
    BY <1>3, <1>7

\* A turned duration is one of the choices.
LEMMA TurnInRange ==
    ASSUME NEW i \in 0 .. Durations - 1, NEW k
    PROVE  Turn(i, k) \in 0 .. Durations - 1
<1>1. Durations \in Nat \ {0} /\ i + 1 \in Nat /\ i + Durations - 1 \in Nat
    BY UiSizes
<1>2. (i + 1) % Durations \in 0 .. Durations - 1 /\ (i + Durations - 1) % Durations \in 0 .. Durations - 1
    BY <1>1, Remainder
<1>3. QED
    BY <1>2 DEF Turn

\* The policies a key makes of a valid one.
LEMMA PolicyEdits ==
    ASSUME NEW p \in Policies, ValidPolicy(p), NEW k
    PROVE  /\ Toggled(p) \in Policies /\ ValidPolicy(Toggled(p))
           /\ \A a \in 1 .. MaxAttempts : p.action = "destroy" =>
                 [p EXCEPT !.attempts = a] \in Policies /\ ValidPolicy([p EXCEPT !.attempts = a])
           /\ [p EXCEPT !.lock = Turn(p.lock, k)] \in Policies /\ ValidPolicy([p EXCEPT !.lock = Turn(p.lock, k)])
           /\ [p EXCEPT !.sleep = Turn(p.sleep, k)] \in Policies /\ ValidPolicy([p EXCEPT !.sleep = Turn(p.sleep, k)])
<1>1. p.lock \in 0 .. Durations - 1 /\ p.sleep \in 0 .. Durations - 1
    BY DEF Policies
<1>2. DefaultAttempts \in 1 .. MaxAttempts /\ DefaultAttempts \in Nat /\ MaxAttempts \in Nat
    BY UiLimits, UiSizes
<1>3. ASSUME NEW q \in Policies, NEW a, NEW b, q.action = a, q.attempts = b,
             (a = "none" /\ b = 0) \/ (a = "destroy" /\ b \in 1 .. MaxAttempts)
      PROVE  ValidPolicy(q)
  <2>1. q.lock \in 0 .. Durations - 1 /\ q.sleep \in 0 .. Durations - 1
      BY DEF Policies
  <2>2. QED
      BY <1>3, <2>1 DEF ValidPolicy
<1>4. Toggled(p) \in Policies /\ ValidPolicy(Toggled(p))
  <2> DEFINE q == Toggled(p)
  <2>1. CASE p.action = "none"
    <3>1. q \in Policies /\ q.action = "destroy" /\ q.attempts = DefaultAttempts
        BY <1>2, <2>1 DEF Toggled, Policies
    <3> HIDE DEF q
    <3>2. QED
        BY <1>2, <1>3, <3>1 DEF q
  <2>2. CASE p.action # "none"
    <3>1. q \in Policies /\ q.action = "none" /\ q.attempts = 0
        BY <2>2 DEF Toggled, Policies
    <3> HIDE DEF q
    <3>2. QED
        BY <1>3, <3>1 DEF q
  <2>3. QED
      BY <2>1, <2>2
<1>5. ASSUME NEW a \in 1 .. MaxAttempts, p.action = "destroy"
      PROVE  [p EXCEPT !.attempts = a] \in Policies /\ ValidPolicy([p EXCEPT !.attempts = a])
  <2> DEFINE q == [p EXCEPT !.attempts = a]
  <2>1. q \in Policies /\ q.action = "destroy" /\ q.attempts = a
      BY <1>2, <1>5 DEF Policies
  <2> HIDE DEF q
  <2>2. QED
      BY <1>3, <2>1 DEF q
<1>6. ASSUME NEW d \in 0 .. Durations - 1
      PROVE  /\ [p EXCEPT !.lock = d] \in Policies /\ ValidPolicy([p EXCEPT !.lock = d])
             /\ [p EXCEPT !.sleep = d] \in Policies /\ ValidPolicy([p EXCEPT !.sleep = d])
  <2> DEFINE q == [p EXCEPT !.lock = d]
             r == [p EXCEPT !.sleep = d]
  <2>1. q \in Policies /\ q.action = p.action /\ q.attempts = p.attempts
      BY DEF Policies
  <2>2. r \in Policies /\ r.action = p.action /\ r.attempts = p.attempts
      BY DEF Policies
  <2> HIDE DEF q, r
  <2>3. (p.action = "none" /\ p.attempts = 0) \/ (p.action = "destroy" /\ p.attempts \in 1 .. MaxAttempts)
      BY DEF ValidPolicy
  <2>4. QED
      BY <1>3, <2>1, <2>2, <2>3 DEF q, r
<1>7. Turn(p.lock, k) \in 0 .. Durations - 1 /\ Turn(p.sleep, k) \in 0 .. Durations - 1
    BY <1>1, TurnInRange
<1>8. QED
    BY <1>4, <1>5, <1>6, <1>7

\* The keys of the options screen.
LEMMA OptionsFollows ==
    ASSUME NEW z, ScreensSound(z), ~z.modal, z.screen = "options", NEW k \in Keys
    PROVE  Follows(z, OptionsKey(z, k))
<1> DEFINE c == Moved(z.cursor, 5, k)
           v == [z EXCEPT !.cursor = c]
           p == z.job.policy
<1>1. Free(z) /\ FlowSound(z) /\ z \in UiType
    BY Resting DEF Free
<1>2. p \in Policies /\ ValidPolicy(p)
    BY <1>1 DEF UiType, JobType, FlowSound, FlowScreens, Prepared
<1>3. z.cursor \in Nat /\ c \in Nat
    BY <1>1, MovedInRange DEF UiType
<1>4. /\ v = [z EXCEPT !.cursor = Moved(@, 5, k)] /\ v \in UiType /\ SameBut(z, v)
      /\ ScreensSound(v) /\ Follows(z, v)
    BY CursorKey
<1> HIDE DEF v
<1>5. v.job = z.job /\ v.job.policy = p /\ v.screen = "options" /\ ~v.modal /\ v.dev = z.dev /\ v.modal = z.modal
      /\ v.job \in JobType
    BY <1>4 DEF SameBut, UiType
<1> HIDE DEF p
<1>6. ASSUME NEW q \in Policies, ValidPolicy(q)
      PROVE  Follows(z, [v EXCEPT !.job.policy = q])
    BY <1>4, <1>5, <1>6, PolicyStays, FollowsSame
<1>7. CASE k = "BACK"
    BY <1>1, <1>7, GoHomeFollows DEF Free, OptionsKey
<1>8. CASE k \in {"LEFT", "RIGHT"} /\ c = 0
  <2>1. OptionsKey(z, k) = [v EXCEPT !.job.policy = Toggled(p)]
      BY <1>8 DEF OptionsKey, c, v, p
  <2>2. QED
      BY <1>2, <1>6, <2>1, PolicyEdits
<1>9. CASE k = "RIGHT" /\ c = 1 /\ p.action = "destroy" /\ p.attempts < MaxAttempts
  <2> DEFINE a == p.attempts + 1
  <2>1. OptionsKey(z, k) = [v EXCEPT !.job.policy.attempts = @ + 1]
      BY <1>9 DEF OptionsKey, c, v, p
  <2>2. a \in 1 .. MaxAttempts
      BY <1>2, <1>9, UiSizes DEF Policies
  <2>3. [v EXCEPT !.job.policy.attempts = @ + 1] = [v EXCEPT !.job.policy = [p EXCEPT !.attempts = a]]
      BY <1>4, <1>5 DEF UiType, JobType
  <2> HIDE DEF a
  <2>4. QED
      BY <1>2, <1>6, <1>9, <2>1, <2>2, <2>3, PolicyEdits
<1>10. CASE k = "LEFT" /\ c = 1 /\ p.action = "destroy" /\ p.attempts > 1
  <2> DEFINE a == p.attempts - 1
  <2>1. OptionsKey(z, k) = [v EXCEPT !.job.policy.attempts = @ - 1]
      BY <1>10 DEF OptionsKey, c, v, p
  <2>2. a \in 1 .. MaxAttempts
      BY <1>2, <1>10, UiSizes DEF Policies, ValidPolicy
  <2>3. [v EXCEPT !.job.policy.attempts = @ - 1] = [v EXCEPT !.job.policy = [p EXCEPT !.attempts = a]]
      BY <1>4, <1>5 DEF UiType, JobType
  <2> HIDE DEF a
  <2>4. QED
      BY <1>2, <1>6, <1>10, <2>1, <2>2, <2>3, PolicyEdits
<1>11. CASE k \in {"LEFT", "RIGHT"} /\ c = 2
  <2>1. OptionsKey(z, k) = [v EXCEPT !.job.policy.lock = Turn(@, k)]
      BY <1>11 DEF OptionsKey, c, v, p
  <2>2. [v EXCEPT !.job.policy.lock = Turn(@, k)] = [v EXCEPT !.job.policy = [p EXCEPT !.lock = Turn(p.lock, k)]]
      BY <1>4, <1>5 DEF UiType, JobType
  <2>3. QED
      BY <1>2, <1>6, <2>1, <2>2, PolicyEdits
<1>12. CASE k \in {"LEFT", "RIGHT"} /\ c = 3
  <2>1. OptionsKey(z, k) = [v EXCEPT !.job.policy.sleep = Turn(@, k)]
      BY <1>12 DEF OptionsKey, c, v, p
  <2>2. [v EXCEPT !.job.policy.sleep = Turn(@, k)] = [v EXCEPT !.job.policy = [p EXCEPT !.sleep = Turn(p.sleep, k)]]
      BY <1>4, <1>5 DEF UiType, JobType
  <2>3. QED
      BY <1>2, <1>6, <2>1, <2>2, PolicyEdits
<1>13. CASE k = "SELECT" /\ c < 4
  <2>1. OptionsKey(z, k) = [v EXCEPT !.cursor = c + 1]
      BY <1>13 DEF OptionsKey, c, v
  <2>2. c + 1 \in Nat
      BY <1>3
  <2> DEFINE d == c + 1
  <2> HIDE DEF c, d
  <2>3. Follows(v, [v EXCEPT !.cursor = d])
      BY <1>4, <1>5, <2>2, CursorFollows DEF d
  <2>4. QED
      BY <1>5, <2>1, <2>3, FollowsSame DEF d
<1>14. CASE k = "SELECT" /\ c = 4
  <2>1. OptionsKey(z, k) = Show(v, "review")
      BY <1>14 DEF OptionsKey, c, v
  <2>2. FlowSound(v) /\ Free(v)
      BY <1>4, <1>5, Resting
  <2>3. Ready(v, "review")
      BY <1>5, <2>2 DEF FlowSound, FlowScreens, Ready, Second
  <2>4. QED
      BY <1>4, <1>5, <2>1, <2>2, <2>3, ShowFlow, FollowsSame DEF FlowScreens
<1>15. CASE /\ k # "BACK" /\ ~(k \in {"LEFT", "RIGHT"} /\ c \in {0, 2, 3})
            /\ ~(k = "RIGHT" /\ c = 1 /\ p.action = "destroy" /\ p.attempts < MaxAttempts)
            /\ ~(k = "LEFT" /\ c = 1 /\ p.action = "destroy" /\ p.attempts > 1)
            /\ ~(k = "SELECT" /\ (c < 4 \/ c = 4))
  <2>1. OptionsKey(z, k) = v
      BY <1>15 DEF OptionsKey, c, v, p
  <2>2. QED
      BY <1>4, <2>1
<1>16. QED
    BY <1>7, <1>8, <1>9, <1>10, <1>11, <1>12, <1>13, <1>14, <1>15

\* The keys of the review, whose confirmation submits the flow.
LEMMA ReviewFollows ==
    ASSUME NEW z, ScreensSound(z), ~z.modal, z.screen = "review", NEW k \in Keys
    PROVE  Follows(z, Confirmation(z, k, Submit(z, Saves(z.flow)), GoHome(z)))
<1>1. Free(z) /\ FlowSound(z) /\ z.flow \in Flows
    BY Resting DEF Free, UiType
<1>2. Prepared(z) /\ Complete(z) /\ Second(z) /\ z.flow # "unlock"
    BY <1>1 DEF FlowSound, FlowScreens
<1>3. Follows(z, Submit(z, Saves(z.flow)))
    BY <1>1, <1>2, JobSubmitted DEF Saves, Flows, Complete
<1>4. Follows(z, GoHome(z))
    BY <1>1, GoHomeFollows DEF Free
<1>5. QED
    BY <1>3, <1>4, ConfirmationFollows

\* The wiped entry is well formed and empty.
LEMMA NoEntryFacts == NoEntry \in EntryType /\ NoEntry.profile = 0 /\ NoEntry.values = <<>>
BY DEF NoEntry, EntryBegin, EntryType

\* The input of a credential screen while the user edits it.
LEMMA InputStays ==
    ASSUME NEW z, ScreensSound(z), ~z.modal, z.screen \in {"secret", "confirm"},
           NEW s \in Seq(Int), Typing(s, z.job.profile), NEW e \in EntryType, EntrySound(e, z.job.profile)
    PROVE  LET j == IF z.screen = "secret" THEN [z.job EXCEPT !.secret = s] ELSE z.job
               c == IF z.screen = "confirm" THEN s ELSE z.confirmation
               r == [z EXCEPT !.job = j, !.entry = e, !.confirmation = c]
           IN /\ r \in UiType /\ r.screen = z.screen /\ r.dev = z.dev /\ r.modal = z.modal /\ r.job = j
              /\ ScreensSound(r) /\ Follows(z, r)
<1> DEFINE j == IF z.screen = "secret" THEN [z.job EXCEPT !.secret = s] ELSE z.job
           c == IF z.screen = "confirm" THEN s ELSE z.confirmation
           r == [z EXCEPT !.job = j, !.entry = e, !.confirmation = c]
<1>1. z \in UiType /\ z.job \in JobType /\ z.confirmation \in Seq(Int)
    BY DEF ScreensSound, UiType
<1>2. /\ j \in JobType /\ j.current = z.job.current /\ j.profile = z.job.profile /\ j.mode = z.job.mode
      /\ j.policy = z.job.policy /\ j.stack = z.job.stack
    BY <1>1 DEF JobType
<1>3. j.secret = IF z.screen = "secret" THEN s ELSE z.job.secret
    BY <1>1 DEF JobType
<1>4. z.screen = "confirm" => j = z.job
    BY <1>1
<1>5. c \in Seq(Int) /\ (z.screen = "secret" => c = z.confirmation) /\ (z.screen = "confirm" => c = s)
    BY <1>1
<1> HIDE DEF j, c
<1>13. r = [z EXCEPT !.job = j, !.entry = e, !.confirmation = c]
    OBVIOUS
<1> HIDE DEF r
<1>6. /\ r \in UiType /\ r.job = j /\ r.entry = e /\ r.confirmation = c
      /\ r.screen = z.screen /\ r.flow = z.flow
      /\ r.pending = z.pending /\ r.dev = z.dev /\ r.modal = z.modal
    BY <1>1, <1>2, <1>5, <1>13 DEF UiType
<1>7. FlowSound(z) /\ Wiped(z) /\ JobSound(z) /\ DeviceSound(z) /\ ~z.pending
    BY DEF ScreensSound, JobSound
<1>8. FlowSound(r)
  <2>1. Prepared(z) => Prepared(r)
      BY <1>2, <1>6 DEF Prepared
  <2>2. z.screen = "confirm" /\ Complete(z) => Complete(r)
      BY <1>2, <1>4, <1>6 DEF Complete, LongEnough
  <2>3. Second(z) => Second(r)
      BY <1>2, <1>6 DEF Second
  <2>4. CASE z.screen = "secret"
      BY <1>2, <1>3, <1>6, <1>7, <2>1, <2>4 DEF FlowSound, FlowScreens
  <2>5. CASE z.screen = "confirm"
      BY <1>2, <1>5, <1>6, <1>7, <2>1, <2>2, <2>3, <2>5 DEF FlowSound, FlowScreens
  <2>6. QED
      BY <2>4, <2>5
<1>9. Wiped(r)
    BY <1>5, <1>6, <1>7 DEF Wiped, FlowScreens
<1>10. ScreensSound(r)
    BY <1>6, <1>7, <1>8, <1>9 DEF ScreensSound, JobSound, DeviceSound, PasskeySound
<1>11. Follows(z, r)
    BY <1>6, <1>7, <1>10 DEF Follows
<1>12. QED
    BY <1>6, <1>10, <1>11 DEF r, j, c

\* A credential the user has entered is taken to the next screen.
LEMMA SubmittedFollows ==
    ASSUME NEW z, ScreensSound(z), ~z.modal, z.screen \in {"secret", "confirm"},
           z.screen = "secret" => ValidSecret(z.job)
    PROVE  Follows(z, Submitted(z))
<1>1. z \in UiType /\ z.job \in JobType /\ z.confirmation \in Seq(Int) /\ z.entry \in EntryType /\ z.flow \in Flows
    BY DEF ScreensSound, UiType
<1>2. FlowSound(z) /\ Usable(z.dev) /\ ~z.pending /\ (z.screen = "secret" => z.confirmation = <<>>)
    BY DEF ScreensSound, JobSound, DeviceSound, Wiped
<1>3. Prepared(z) /\ z.job.profile \in 2 .. 4
    BY <1>2 DEF FlowSound, FlowScreens
<1>4. ASSUME NEW j \in JobType, NEW e \in EntryType, NEW s \in FlowScreens, NEW v,
             v = [z EXCEPT !.job = j, !.entry = e, !.confirmation = <<>>],
             v.job = j /\ v.flow = z.flow /\ v.dev = z.dev => Ready(v, s)
      PROVE  Follows(z, Show(v, s))
  <2>0. <<>> \in Seq(Int)
      OBVIOUS
  <2>1. /\ v \in UiType /\ v.job = j /\ v.confirmation = <<>> /\ v.screen = z.screen /\ v.flow = z.flow
        /\ v.pending = z.pending /\ v.dev = z.dev /\ v.modal = z.modal
      BY <1>1, <1>4, <2>0 DEF UiType
  <2>2. Free(v)
      BY <1>2, <2>1 DEF Free
  <2>3. Follows(v, Show(v, s))
      BY <1>4, <2>1, <2>2, ShowFlow
  <2>4. QED
      BY <2>1, <2>3, FollowsSame
<1>5. CASE z.screen = "confirm"
  <2>1. Complete(z) /\ Second(z) /\ z.flow \in {"setup", "change"}
      BY <1>2, <1>5 DEF FlowSound
  <2>2. CASE z.confirmation = z.job.secret
    <3> DEFINE v == [z EXCEPT !.job = z.job, !.entry = NoEntry, !.confirmation = <<>>]
               s == IF z.flow = "change" THEN "review" ELSE "stack"
    <3>1. Submitted(z) = Show(v, s)
      <4>1. [z EXCEPT !.confirmation = <<>>, !.entry = NoEntry] = v
          BY <1>1 DEF UiType
      <4>2. Submitted(z) = Show([z EXCEPT !.confirmation = <<>>, !.entry = NoEntry], s)
          BY <1>5, <2>1, <2>2 DEF Submitted, Second
      <4>3. QED
          BY <4>1, <4>2
    <3> HIDE DEF v
    <3>2. v.job = z.job /\ v.flow = z.flow /\ v.dev = z.dev => Ready(v, s)
        BY <1>3, <2>1 DEF Ready, Prepared, Complete, LongEnough, Second
    <3>3. s \in FlowScreens
        BY DEF FlowScreens
    <3>4. QED
        BY <1>1, <1>4, <3>1, <3>2, <3>3, NoEntryFacts DEF v
  <2>3. CASE z.confirmation # z.job.secret
    <3> DEFINE j == [z.job EXCEPT !.secret = <<>>]
               v == [z EXCEPT !.job = j, !.entry = z.entry, !.confirmation = <<>>]
    <3>1. Submitted(z) = Show(v, "secret")
      <4>1. [z EXCEPT !.job.secret = <<>>, !.confirmation = <<>>] = v
          BY <1>1 DEF UiType
      <4>2. Submitted(z) = Show([z EXCEPT !.job.secret = <<>>, !.confirmation = <<>>], "secret")
          BY <1>5, <2>1, <2>3 DEF Submitted, Second
      <4>3. QED
          BY <4>1, <4>2
    <3>2. /\ j \in JobType /\ j.secret = <<>> /\ j.current = z.job.current /\ j.profile = z.job.profile
          /\ j.mode = z.job.mode /\ j.policy = z.job.policy /\ j.stack = z.job.stack
      <4>1. <<>> \in Seq(Int)
          OBVIOUS
      <4>2. QED
          BY <1>1, <4>1 DEF JobType
    <3> HIDE DEF j, v
    <3>3. Typing(<<>>, z.job.profile)
      <4>1. <<>> \in Seq(1 .. 4) /\ Len(<<>>) <= MaxLength
          BY UiLimits
      <4>2. QED
          BY <4>1 DEF Typing
    <3>4. v.job = j /\ v.flow = z.flow /\ v.dev = z.dev => Ready(v, "secret")
        BY <1>3, <3>2, <3>3 DEF Ready, Prepared
    <3>5. QED
        BY <1>1, <1>4, <3>1, <3>2, <3>4 DEF v, FlowScreens
  <2>4. QED
      BY <2>2, <2>3
<1>6. CASE z.screen = "secret"
  <2>1. ValidSecret(z.job)
      BY <1>6
  <2>2. Len(z.job.secret) \in 1 .. MaxLength /\ z.job.secret # <<>>
      BY <1>1, <2>1, EmptySeq DEF ValidSecret, JobType
  <2>3. CASE z.flow = "change" /\ z.job.current = <<>>
    <3> DEFINE j == [z.job EXCEPT !.current = z.job.secret, !.secret = <<>>]
               v == [z EXCEPT !.job = j, !.entry = NoEntry, !.confirmation = <<>>]
    <3>1. Submitted(z) = Show(v, "method")
      <4>1. [z EXCEPT !.job.current = z.job.secret, !.job.secret = <<>>, !.entry = NoEntry] = v
          BY <1>1, <1>2, <1>6 DEF UiType
      <4>2. Submitted(z) = Show([z EXCEPT !.job.current = z.job.secret, !.job.secret = <<>>, !.entry = NoEntry], "method")
          BY <2>3 DEF Submitted
      <4>3. QED
          BY <4>1, <4>2
    <3>2. /\ j \in JobType /\ j.secret = <<>> /\ j.current = z.job.secret /\ j.profile = z.job.profile
          /\ j.mode = z.job.mode /\ j.policy = z.job.policy /\ j.stack = z.job.stack
      <4>1. <<>> \in Seq(Int)
          OBVIOUS
      <4>2. QED
          BY <1>1, <4>1 DEF JobType
    <3> HIDE DEF j, v
    <3>3. v.job = j /\ v.flow = z.flow /\ v.dev = z.dev => Ready(v, "method")
        BY <1>3, <2>2, <2>3, <3>2, UiLimits DEF Ready, Prepared, Second
    <3>4. QED
        BY <1>4, <3>1, <3>2, <3>3, NoEntryFacts DEF v, FlowScreens
  <2>4. CASE z.flow = "policy"
    <3> DEFINE v == [z EXCEPT !.job = z.job, !.entry = NoEntry, !.confirmation = <<>>]
    <3>1. Submitted(z) = Show(v, "options")
      <4>1. [z EXCEPT !.entry = NoEntry] = v
          BY <1>1, <1>2, <1>6 DEF UiType
      <4>2. Submitted(z) = Show([z EXCEPT !.entry = NoEntry], "options")
          BY <2>4 DEF Submitted
      <4>3. QED
          BY <4>1, <4>2
    <3> HIDE DEF v
    <3>2. v.job = z.job /\ v.flow = z.flow /\ v.dev = z.dev => Ready(v, "options")
        BY <1>3, <2>1, <2>4 DEF Ready, Prepared, Complete
    <3>3. QED
        BY <1>1, <1>4, <3>1, <3>2, NoEntryFacts DEF v, FlowScreens
  <2>5. CASE z.flow = "unlock"
    <3>1. Submitted(z) = Submit(z, "unlock")
        BY <2>5 DEF Submitted
    <3>2. Free(z)
        BY <1>1, <1>2, <1>6 DEF Free
    <3>3. QED
        BY <1>3, <1>6, <2>1, <2>5, <3>1, <3>2, JobSubmitted
  <2>6. CASE (z.flow = "setup" \/ (z.flow = "change" /\ z.job.current # <<>>)) /\ LongEnough(z)
    <3>1. Submitted(z) = Show(z, "confirm")
        BY <1>6, <2>6 DEF Submitted
    <3>2. Ready(z, "confirm")
        BY <1>3, <2>1, <2>6 DEF Ready, Complete, Second
    <3>3. Free(z)
        BY <1>1, <1>2, <1>6 DEF Free
    <3>4. QED
        BY <3>1, <3>2, <3>3, ShowFlow DEF FlowScreens
  <2>7. CASE (z.flow = "setup" \/ (z.flow = "change" /\ z.job.current # <<>>)) /\ ~LongEnough(z)
    <3>1. Submitted(z) = z
        BY <1>6, <2>7 DEF Submitted
    <3>2. QED
        BY <1>6, <3>1, FollowsSelf
  <2>8. QED
      BY <1>1, <2>3, <2>4, <2>5, <2>6, <2>7 DEF Flows
<1>7. QED
    BY <1>5, <1>6

\* The keys of a screen that takes a credential.
LEMMA CredentialFollows ==
    ASSUME NEW z, ScreensSound(z), ~z.modal, z.screen \in {"secret", "confirm"}, NEW k \in Keys
    PROVE  Follows(z, CredentialKey(z, k))
<1> DEFINE input == IF z.screen = "secret" THEN z.job.secret ELSE z.confirmation
           With(s) == IF z.screen = "secret" THEN [z EXCEPT !.job.secret = s] ELSE [z EXCEPT !.confirmation = s]
           p == z.job.profile
<1>1. /\ z \in UiType /\ z.job \in JobType /\ z.confirmation \in Seq(Int) /\ z.entry \in EntryType
      /\ z.job.secret \in Seq(Int)
    BY DEF ScreensSound, UiType, JobType
<1>2. FlowSound(z) /\ Usable(z.dev) /\ ~z.pending
    BY DEF ScreensSound, JobSound, DeviceSound
<1>3. p \in 2 .. 4 /\ EntrySound(z.entry, p) /\ z.entry.profile = p
    BY <1>2 DEF FlowSound, EntrySound
<1>4. input \in Seq(Int) /\ Typing(input, p)
    BY <1>1, <1>2 DEF FlowSound
<1>5. ASSUME NEW s \in Seq(Int), Typing(s, p)
      PROVE  /\ ScreensSound(With(s)) /\ Follows(z, With(s)) /\ With(s).screen = z.screen
             /\ With(s).dev = z.dev /\ With(s).modal = z.modal
             /\ z.screen = "secret" => With(s).job.secret = s /\ With(s).job.profile = p
  <2> DEFINE j == IF z.screen = "secret" THEN [z.job EXCEPT !.secret = s] ELSE z.job
             c == IF z.screen = "confirm" THEN s ELSE z.confirmation
             r == [z EXCEPT !.job = j, !.entry = z.entry, !.confirmation = c]
  <2>1. /\ r \in UiType /\ r.screen = z.screen /\ r.dev = z.dev /\ r.modal = z.modal /\ r.job = j
        /\ ScreensSound(r) /\ Follows(z, r)
      BY <1>1, <1>3, <1>5, InputStays
  <2>2. With(s) = r
    <3>1. CASE z.screen = "secret"
        BY <1>1, <3>1 DEF UiType
    <3>2. CASE z.screen = "confirm"
        BY <1>1, <3>2 DEF UiType
    <3>3. QED
        BY <3>1, <3>2
  <2>3. z.screen = "secret" => j.secret = s /\ j.profile = p
      BY <1>1 DEF JobType
  <2> HIDE DEF j, c, r, p, With
  <2>4. QED
      BY <2>1, <2>2, <2>3
<1>6. Follows(z, GoHome(z))
    BY <1>1, <1>2, GoHomeFollows
<1>7. Follows(z, z)
    BY FollowsSelf
<1>8. CASE p \in {3, 4}
  <2>1. CASE EntryLeft(z.entry, k)
    <3>1. CredentialKey(z, k) = GoHome(z)
        BY <1>8, <2>1 DEF CredentialKey
    <3>2. QED
        BY <1>6, <3>1
  <2>2. CASE ~EntryLeft(z.entry, k) /\ EntryDone(z.entry, k)
    <3> DEFINE s == z.entry.values
    <3>1. CredentialKey(z, k) = Submitted(With(s))
        BY <1>8, <2>2 DEF CredentialKey
    <3>2. s \in Seq(Int) /\ Typing(s, p)
        BY <1>1, <1>8 DEF EntryType, Typing
    <3>3. /\ p = 3 => Len(s) = Entries /\ \A i \in DOMAIN s : s[i] \in 0 .. Codes - 1
          /\ p = 4 => Len(s) = Entries /\ \A i \in DOMAIN s : s[i] \in 0 .. WordCount[WordSteps] - 1
      <4>0. Entries \in Nat /\ DOMAIN s = 1 .. Len(s)
          BY <3>2, UiSizes
      <4>1. CASE p = 3
        <5>1. s \in [1 .. Entries -> Symbols(3)]
            BY <1>3, <4>1 DEF EntrySound
        <5>2. Len(s) = Entries
            BY <4>0, <5>1, <3>2, LenProperties
        <5>3. QED
            BY <4>1, <5>1, <5>2 DEF Symbols
      <4>2. CASE p = 4
        <5>1. s \in Seq(Symbols(4)) /\ Len(s) = Entries
            BY <1>3, <2>2, <4>2 DEF EntrySound, EntryDone
        <5>2. \A i \in DOMAIN s : s[i] \in Symbols(4)
            BY <4>0, <5>1, ElementOfSeq
        <5>3. QED
            BY <4>2, <5>1, <5>2 DEF Symbols
      <4>3. QED
          BY <1>8, <4>1, <4>2
    <3>4. Entries \in 1 .. MaxLength
        BY UiSizes, UiLimits
    <3> HIDE DEF s, p
    <3>5. /\ ScreensSound(With(s)) /\ Follows(z, With(s)) /\ With(s).screen = z.screen
          /\ With(s).dev = z.dev /\ With(s).modal = z.modal
          /\ z.screen = "secret" => With(s).job.secret = s /\ With(s).job.profile = p
        BY <1>5, <3>2
    <3> HIDE DEF With
    <3>6. z.screen = "secret" => ValidSecret(With(s).job)
      <4>1. ASSUME NEW j, j.secret = s, j.profile = p
            PROVE  ValidSecret(j)
        <5>1. CASE p = 3
            BY <3>3, <3>4, <4>1, <5>1 DEF ValidSecret
        <5>2. CASE p = 4
            BY <3>3, <3>4, <4>1, <5>2 DEF ValidSecret
        <5>3. QED
            BY <1>8, <5>1, <5>2
      <4>2. QED
          BY <3>5, <4>1
    <3>7. Follows(With(s), Submitted(With(s)))
        BY <3>5, <3>6, SubmittedFollows
    <3>8. QED
        BY <3>1, <3>5, <3>7, FollowsSame
  <2>3. CASE ~EntryLeft(z.entry, k) /\ ~EntryDone(z.entry, k)
    <3> DEFINE e == EntryKey(z.entry, k)
               j == IF z.screen = "secret" THEN [z.job EXCEPT !.secret = input] ELSE z.job
               c == IF z.screen = "confirm" THEN input ELSE z.confirmation
    <3>1. CredentialKey(z, k) = [z EXCEPT !.entry = EntryKey(@, k)]
        BY <1>8, <2>3 DEF CredentialKey
    <3>2. [z EXCEPT !.entry = EntryKey(@, k)] = [z EXCEPT !.entry = e]
        BY <1>1 DEF UiType
    <3>3. e \in EntryType /\ EntrySound(e, p)
        BY <1>1, <1>3, EntryKept
    <3> HIDE DEF e
    <3>4. j = z.job
        BY <1>1 DEF JobType
    <3>5. c = z.confirmation
        OBVIOUS
    <3>6. ASSUME NEW x \in EntryType
          PROVE  [z EXCEPT !.entry = x] = [z EXCEPT !.job = z.job, !.entry = x, !.confirmation = z.confirmation]
        BY <1>1 DEF UiType
    <3>7. Follows(z, [z EXCEPT !.job = j, !.entry = e, !.confirmation = c])
        BY <1>4, <3>3, InputStays
    <3> HIDE DEF j, c
    <3>8. QED
        BY <3>1, <3>2, <3>4, <3>5, <3>6, <3>7
  <2>4. QED
      BY <2>1, <2>2, <2>3
<1>9. CASE p = 2
  <2>1. input \in Seq(1 .. 4) /\ Len(input) <= MaxLength
      BY <1>4, <1>9 DEF Typing
  <2>2. ASSUME NEW s \in Seq(1 .. 4), Len(s) <= MaxLength
        PROVE  Follows(z, With(s))
    <3>1. s \in Seq(Int)
        BY SeqMonotonic
    <3>2. QED
        BY <1>5, <2>2, <3>1 DEF Typing
  <2>3. CASE k \in Arrows
    <3>1. CASE Len(input) < MaxLength
      <4>1. CredentialKey(z, k) = With(Append(input, Code(k)))
          BY <1>9, <2>3, <3>1 DEF CredentialKey, Arrows
      <4>2. Code(k) \in 1 .. 4
          BY <2>3 DEF Code, Arrows
      <4>3. Append(input, Code(k)) \in Seq(1 .. 4) /\ Len(Append(input, Code(k))) = Len(input) + 1
          BY <2>1, <4>2, AppendProperties
      <4> HIDE DEF input, With
      <4>6. Len(input) \in Nat /\ MaxLength \in Nat
          BY <2>1, LenProperties, UiLimits
      <4>4. Len(Append(input, Code(k))) <= MaxLength
          BY <3>1, <4>3, <4>6
      <4>5. QED
          BY <2>2, <4>1, <4>3, <4>4
    <3>2. CASE ~(Len(input) < MaxLength)
      <4>1. CredentialKey(z, k) = z
          BY <1>9, <2>3, <3>2 DEF CredentialKey, Arrows
      <4>2. QED
          BY <1>7, <4>1
    <3>3. QED
        BY <3>1, <3>2
  <2>4. CASE k = "BACK"
    <3>1. CASE input = <<>>
      <4>1. CredentialKey(z, k) = GoHome(z)
          BY <1>9, <2>4, <3>1 DEF CredentialKey, Arrows
      <4>2. QED
          BY <1>6, <4>1
    <3>2. CASE input # <<>>
      <4> DEFINE n == Len(input) - 1
      <4>1. CredentialKey(z, k) = With(SubSeq(input, 1, n))
          BY <1>9, <2>4, <3>2 DEF CredentialKey, Arrows
      <4> HIDE DEF input, With
      <4>6. Len(input) \in Nat /\ Len(input) # 0 /\ MaxLength \in Nat
          BY <2>1, <3>2, EmptySeq, LenProperties, UiLimits
      <4>2. n \in 0 .. Len(input) /\ n <= MaxLength
          BY <2>1, <4>6
      <4>3. \A i \in 1 .. n : input[i] \in 1 .. 4
          BY <2>1, <4>2, ElementOfSeq
      <4> HIDE DEF n
      <4>4. SubSeq(input, 1, n) \in Seq(1 .. 4) /\ Len(SubSeq(input, 1, n)) = n
          BY <4>2, <4>3, SubSeqProperties
      <4>5. QED
          BY <2>2, <4>1, <4>2, <4>4
    <3>3. QED
        BY <3>1, <3>2
  <2>5. CASE k \notin Arrows \cup {"BACK"} /\ input = <<>>
    <3>1. CredentialKey(z, k) = z
        BY <1>9, <2>5 DEF CredentialKey, Arrows
    <3>2. QED
        BY <1>7, <3>1
  <2>6. CASE k \notin Arrows \cup {"BACK"} /\ input # <<>>
    <3>1. CredentialKey(z, k) = Submitted(z)
        BY <1>9, <2>6 DEF CredentialKey, Arrows
    <3>2. Len(input) \in 1 .. MaxLength /\ \A i \in DOMAIN input : input[i] \in 1 .. 4
      <4> HIDE DEF input
      <4>1. DOMAIN input = 1 .. Len(input) /\ Len(input) \in Nat /\ Len(input) # 0
          BY <2>1, <2>6, EmptySeq, LenProperties
      <4>2. QED
          BY <2>1, <4>1, ElementOfSeq, UiLimits
    <3>3. z.screen = "secret" => ValidSecret(z.job)
        BY <1>9, <3>2 DEF ValidSecret
    <3>4. QED
        BY <3>1, <3>3, SubmittedFollows
  <2>7. QED
      BY <2>3, <2>4, <2>5, <2>6
<1>10. QED
    BY <1>3, <1>8, <1>9

\* A key pressed at a FIDO prompt leaves the prompt in place.
LEMMA PromptFollows ==
    ASSUME NEW z, ScreensSound(z), z.modal, NEW k \in Keys
    PROVE  Follows(z, Keypress(z, k))
<1>1. /\ z \in UiType /\ z.job \in JobType /\ z.entry \in EntryType
      /\ z.job.secret \in Seq(Int) /\ z.confirmation = <<>> /\ ~z.pending
      /\ z.screen \in {"secret", "approve"} /\ PromptEntry(z.entry)
      /\ z.screen = "approve" => Cleared(z)
    BY DEF ScreensSound, UiType, JobType, Wiped, JobSound, FlowScreens
<1>2. ASSUME NEW v \in UiType, v.screen = z.screen, ~v.pending, v.dev = z.dev, v.modal = z.modal,
             v.confirmation = <<>>, PromptEntry(v.entry), z.screen = "approve" => Cleared(v)
      PROVE  ScreensSound(v) /\ Follows(z, v)
  <2>1. ScreensSound(v)
      BY <1>1, <1>2 DEF ScreensSound, Wiped, JobSound, DeviceSound, FlowScreens
  <2>2. QED
      BY <1>1, <1>2, <2>1 DEF Follows
<1>3. ASSUME NEW v \in UiType, v.screen = z.screen, ~v.pending, v.dev = z.dev, v.modal = z.modal,
             v.confirmation = <<>>, PromptEntry(v.entry), z.screen = "approve" => Cleared(v), NEW a \in BOOLEAN
      PROVE  Follows(z, [v EXCEPT !.done = TRUE, !.approved = a])
  <2> DEFINE r == [v EXCEPT !.done = TRUE, !.approved = a]
  <2>1. /\ r \in UiType /\ r.screen = v.screen /\ r.pending = v.pending /\ r.dev = v.dev /\ r.modal = v.modal
        /\ r.confirmation = v.confirmation /\ r.entry = v.entry /\ r.job = v.job
      BY DEF UiType
  <2> HIDE DEF r
  <2>2. z.screen = "approve" => Cleared(r)
      BY <1>3, <2>1 DEF Cleared
  <2>3. Follows(z, r)
      BY <1>2, <1>3, <2>1, <2>2
  <2>4. QED
      BY <2>3 DEF r
<1>4. ASSUME NEW s \in Seq(Int), z.screen = "secret"
      PROVE  LET v == [z EXCEPT !.job.secret = s]
             IN /\ v \in UiType /\ v.screen = z.screen /\ ~v.pending /\ v.dev = z.dev /\ v.modal = z.modal
                /\ v.confirmation = <<>> /\ PromptEntry(v.entry) /\ Follows(z, v)
  <2> DEFINE j == [z.job EXCEPT !.secret = s]
             v == [z EXCEPT !.job = j]
  <2>1. j \in JobType
      BY <1>1 DEF JobType
  <2>2. [z EXCEPT !.job.secret = s] = v
      BY <1>1 DEF UiType
  <2> HIDE DEF j
  <2>3. /\ v \in UiType /\ v.screen = z.screen /\ v.pending = z.pending /\ v.dev = z.dev /\ v.modal = z.modal
        /\ v.confirmation = z.confirmation /\ v.entry = z.entry
      BY <1>1, <2>1, JobReplaced
  <2> HIDE DEF v
  <2>4. Follows(z, v)
      BY <1>1, <1>2, <1>4, <2>3
  <2>5. QED
      BY <1>1, <2>2, <2>3, <2>4
<1>5. Follows(z, z)
    BY <1>1, FollowsSelf
<1>6. CASE z.done
    BY <1>5, <1>6 DEF Keypress
<1>7. CASE ~z.done /\ k = "BACK"
  <2>1. Keypress(z, k) = [z EXCEPT !.done = TRUE, !.approved = FALSE]
      BY <1>1, <1>7 DEF Keypress
  <2>2. QED
      BY <1>1, <1>3, <2>1
<1>8. CASE ~z.done /\ k # "BACK" /\ z.screen = "approve"
  <2>1. Keypress(z, k) = ApproveKey(z, k)
      BY <1>1, <1>8 DEF Keypress, SceneKey
  <2>2. CASE k = "SELECT"
    <3>1. ApproveKey(z, k) = [z EXCEPT !.done = TRUE, !.approved = TRUE]
        BY <2>2 DEF ApproveKey
    <3>2. QED
        BY <1>1, <1>3, <2>1, <3>1
  <2>3. CASE k # "SELECT"
    <3>1. ApproveKey(z, k) = z
        BY <1>8, <2>3 DEF ApproveKey
    <3>2. QED
        BY <1>5, <2>1, <3>1
  <2>4. QED
      BY <2>2, <2>3
<1>9. CASE ~z.done /\ k # "BACK" /\ z.screen = "secret"
  <2>1. Keypress(z, k) = CredentialKey(z, k)
      BY <1>1, <1>9 DEF Keypress, SceneKey
  <2>2. CASE z.job.profile \in {3, 4} /\ EntryDone(z.entry, k)
    <3> DEFINE v == [z EXCEPT !.job.secret = z.entry.values]
    <3>1. CredentialKey(z, k) = Submitted(v)
        BY <1>9, <2>2 DEF CredentialKey, EntryLeft
    <3>2. z.entry.values \in Seq(Int)
        BY <1>1 DEF EntryType
    <3>3. /\ v \in UiType /\ v.screen = z.screen /\ ~v.pending /\ v.dev = z.dev /\ v.modal = z.modal
          /\ v.confirmation = <<>> /\ PromptEntry(v.entry)
        BY <1>4, <1>9, <3>2
    <3> HIDE DEF v
    <3>4. Submitted(v) = [v EXCEPT !.done = TRUE, !.approved = TRUE]
        BY <3>3 DEF Submitted
    <3>5. QED
        BY <1>3, <1>9, <2>1, <3>1, <3>3, <3>4
  <2>3. CASE z.job.profile \in {3, 4} /\ ~EntryDone(z.entry, k)
    <3> DEFINE e == EntryKey(z.entry, k)
               v == [z EXCEPT !.entry = e]
    <3>1. CredentialKey(z, k) = [z EXCEPT !.entry = EntryKey(@, k)]
        BY <1>9, <2>3 DEF CredentialKey, EntryLeft
    <3>2. [z EXCEPT !.entry = EntryKey(@, k)] = v
        BY <1>1 DEF UiType
    <3>3. e \in EntryType /\ PromptEntry(e)
      <4>1. CASE z.entry = NoEntry
        <5>1. e = NoEntry
            BY <4>1, NoEntryFacts DEF EntryKey
        <5>2. QED
            BY <5>1, NoEntryFacts DEF PromptEntry
      <4>2. CASE z.entry.profile \in 2 .. 4 /\ EntrySound(z.entry, z.entry.profile)
        <5> DEFINE p == z.entry.profile
        <5>1. p \in 2 .. 4 /\ EntrySound(z.entry, p)
            BY <4>2
        <5> HIDE DEF p
        <5>2. e \in EntryType /\ EntrySound(e, p)
            BY <1>1, <5>1, EntryKept
        <5> HIDE DEF e
        <5>3. e.profile = p
            BY <5>2 DEF EntrySound
        <5>4. QED
            BY <5>1, <5>2, <5>3 DEF PromptEntry
      <4>3. QED
          BY <1>1, <4>1, <4>2 DEF PromptEntry
    <3> HIDE DEF e
    <3>4. /\ v \in UiType /\ v.screen = z.screen /\ v.pending = z.pending /\ v.dev = z.dev /\ v.modal = z.modal
          /\ v.confirmation = z.confirmation /\ v.entry = e
        BY <1>1, <3>3 DEF UiType
    <3> HIDE DEF v
    <3>5. Follows(z, v)
        BY <1>1, <1>2, <1>9, <3>3, <3>4
    <3>6. QED
        BY <2>1, <3>1, <3>2, <3>5
  <2>4. CASE z.job.profile \notin {3, 4} /\ k \in Arrows
    <3> DEFINE s == Append(z.job.secret, Code(k))
    <3>1. CASE Len(z.job.secret) < MaxLength
      <4>1. CredentialKey(z, k) = [z EXCEPT !.job.secret = s]
          BY <1>9, <2>4, <3>1 DEF CredentialKey, Arrows
      <4>2. Code(k) \in Int
          BY DEF Code
      <4>3. s \in Seq(Int)
          BY <1>1, <4>2
      <4> HIDE DEF s
      <4>4. QED
          BY <1>4, <1>9, <2>1, <4>1, <4>3
    <3>2. CASE ~(Len(z.job.secret) < MaxLength)
      <4>1. CredentialKey(z, k) = z
          BY <1>9, <2>4, <3>2 DEF CredentialKey, Arrows
      <4>2. QED
          BY <1>5, <2>1, <4>1
    <3>3. QED
        BY <3>1, <3>2
  <2>5. CASE z.job.profile \notin {3, 4} /\ k \notin Arrows
    <3>1. CASE z.job.secret = <<>>
      <4>1. CredentialKey(z, k) = z
          BY <1>9, <2>5, <3>1 DEF CredentialKey, Arrows
      <4>2. QED
          BY <1>5, <2>1, <4>1
    <3>2. CASE z.job.secret # <<>>
      <4>1. CredentialKey(z, k) = Submitted(z)
          BY <1>9, <2>5, <3>2 DEF CredentialKey, Arrows
      <4>2. Submitted(z) = [z EXCEPT !.done = TRUE, !.approved = TRUE]
          BY DEF Submitted
      <4>3. QED
          BY <1>1, <1>3, <2>1, <4>1, <4>2
    <3>3. QED
        BY <3>1, <3>2
  <2>6. QED
      BY <2>2, <2>3, <2>4, <2>5
<1>10. QED
    BY <1>1, <1>6, <1>7, <1>8, <1>9

\* What a key makes of a screen is sound, whatever the screen.
LEMMA KeypressFollows ==
    ASSUME NEW z, ScreensSound(z), NEW k \in Keys
    PROVE  /\ Keypress(z, k) = z \/ Follows(z, Keypress(z, k))
           /\ z.screen \in {"wait", "error"} => Keypress(z, k).screen \in {"wait", "error"}
<1>1. CASE z.modal
    BY <1>1, PromptFollows DEF ScreensSound
<1>2. CASE z.screen = "wait" \/ z.done
    BY <1>2 DEF Keypress
<1>3. CASE ~z.modal /\ z.screen # "wait" /\ ~z.done
  <2>1. Keypress(z, k) = SceneKey(z, k)
      BY <1>3 DEF Keypress
  <2>2. z \in UiType /\ z.screen \in Screens /\ z.screen # "approve" /\ Follows(z, z)
      BY <1>3, FollowsSelf DEF ScreensSound, UiType
  <2>3. z.screen \notin {"error", "confirm"} => Free(z)
      BY <1>3, Resting
  <2>4. CASE z.screen = "home"
    <3>1. SceneKey(z, k) = HomeKey(z, k)
        BY <2>4 DEF SceneKey
    <3>2. QED
        BY <1>3, <2>1, <2>4, <3>1, HomeFollows
  <2>5. CASE z.screen = "dashboard"
    <3>1. SceneKey(z, k) = DashboardKey(z, k)
        BY <2>5 DEF SceneKey
    <3>2. QED
        BY <1>3, <2>1, <2>5, <3>1, DashboardFollows
  <2>6. CASE z.screen = "settings"
    <3>1. SceneKey(z, k) = SettingsKey(z, k)
        BY <2>6 DEF SceneKey
    <3>2. QED
        BY <1>3, <2>1, <2>6, <3>1, SettingsFollows
  <2>7. CASE z.screen = "method"
    <3>1. SceneKey(z, k) = MethodKey(z, k)
        BY <2>7 DEF SceneKey
    <3>2. QED
        BY <1>3, <2>1, <2>7, <3>1, MethodFollows
  <2>8. CASE z.screen \in {"secret", "confirm"}
    <3>1. SceneKey(z, k) = CredentialKey(z, k)
        BY <2>8 DEF SceneKey
    <3>2. QED
        BY <1>3, <2>1, <2>8, <3>1, CredentialFollows
  <2>9. CASE z.screen = "stack"
    <3>1. SceneKey(z, k) = StackKey(z, k)
        BY <2>9 DEF SceneKey
    <3>2. QED
        BY <1>3, <2>1, <2>9, <3>1, StackFollows
  <2>10. CASE z.screen = "options"
    <3>1. SceneKey(z, k) = OptionsKey(z, k)
        BY <2>10 DEF SceneKey
    <3>2. QED
        BY <1>3, <2>1, <2>10, <3>1, OptionsFollows
  <2>11. CASE z.screen = "review"
    <3>1. SceneKey(z, k) = Confirmation(z, k, Submit(z, Saves(z.flow)), GoHome(z))
        BY <2>11 DEF SceneKey
    <3>2. QED
        BY <1>3, <2>1, <2>11, <3>1, ReviewFollows
  <2>12. CASE z.screen = "erase"
    <3>1. SceneKey(z, k) = Confirmation(z, k, Submit(z, "erase"), ReturnTo(z, "erase"))
        BY <2>12 DEF SceneKey
    <3>2. Follows(z, Submit(z, "erase")) /\ Follows(z, ReturnTo(z, "erase"))
        BY <2>3, <2>12, SubmitFollows, ReturnFollows DEF Simple
    <3>3. QED
        BY <2>1, <2>12, <3>1, <3>2, ConfirmationFollows
  <2>13. CASE z.screen = "reset"
    <3>1. SceneKey(z, k) = Confirmation(z, k, Submit(z, "reset"), ReturnTo(z, "reset"))
        BY <2>13 DEF SceneKey
    <3>2. Follows(z, Submit(z, "reset")) /\ Follows(z, ReturnTo(z, "reset"))
        BY <2>3, <2>13, SubmitFollows, ReturnFollows DEF Simple
    <3>3. QED
        BY <2>1, <2>13, <3>1, <3>2, ConfirmationFollows
  <2>14. CASE z.screen = "delete"
    <3>1. SceneKey(z, k) = Confirmation(z, k, Submit(z, "delete"), Show(z, "passkeys"))
        BY <2>14 DEF SceneKey
    <3>2. Follows(z, Submit(z, "delete")) /\ Follows(z, Show(z, "passkeys"))
        BY <1>3, <2>14, DeleteFollows
    <3>3. QED
        BY <2>1, <2>14, <3>1, <3>2, ConfirmationFollows
  <2>15. CASE z.screen = "verification"
    <3>1. SceneKey(z, k) \in {ReturnTo(z, "verification"), Submit(z, "verification"), z}
        BY <2>15 DEF SceneKey
    <3>2. Follows(z, Submit(z, "verification")) /\ Follows(z, ReturnTo(z, "verification"))
        BY <2>3, <2>15, SubmitFollows, ReturnFollows DEF Simple
    <3>3. QED
        BY <2>1, <2>2, <2>15, <3>1, <3>2
  <2>16. CASE z.screen = "passkeys"
    <3>1. SceneKey(z, k) = PasskeysKey(z, k)
        BY <2>16 DEF SceneKey
    <3>2. QED
        BY <1>3, <2>1, <2>16, <3>1, PasskeysFollows
  <2>17. CASE z.screen = "dashsetting"
    <3>1. SceneKey(z, k) = DashSettingKey(z, k)
        BY <2>17 DEF SceneKey
    <3>2. QED
        BY <1>3, <2>1, <2>17, <3>1, DashSettingFollows
  <2>18. CASE z.screen = "error"
    <3>1. SceneKey(z, k) \in {Submit(z, "status"), z}
        BY <2>18 DEF SceneKey
    <3>2. z.confirmation = <<>>
        BY <2>18 DEF ScreensSound, Wiped
    <3>3. Follows(z, Submit(z, "status"))
        BY <1>3, <2>2, <3>2, SimpleSubmit DEF Simple
    <3>4. Submit(z, "status").screen = "wait"
        BY <2>2, SubmitFacts DEF Ops
    <3>5. QED
        BY <2>1, <2>2, <2>18, <3>1, <3>3, <3>4
  <2>19. QED
      BY <1>3, <2>2, <2>4, <2>5, <2>6, <2>7, <2>8, <2>9, <2>10, <2>11, <2>12, <2>13, <2>14, <2>15, <2>16, <2>17, <2>18
         DEF Screens, FlowScreens
<1>4. QED
    BY <1>1, <1>2, <1>3

\* fv_ui_cancel leaves a sound interface that waits.
LEMMA CancelledSound ==
    ASSUME NEW z, ScreensSound(z), ~z.modal
    PROVE  LET r == Cancelled(z)
           IN /\ ScreensSound(r) /\ r.screen = "wait" /\ ~r.modal /\ r.dev = z.dev /\ r.bump = z.bump
              /\ r.pending => r.job.op = "status"
              /\ z.screen = "wait" /\ ~z.pending => ~r.pending
<1> DEFINE c == [z EXCEPT !.cursor = 0]
           v == ClearInput(c)
           r == Cancelled(z)
<1>1. /\ c \in UiType /\ c.screen = z.screen /\ c.pending = z.pending /\ c.dev = z.dev /\ c.modal = z.modal /\ c.bump = z.bump
    BY DEF ScreensSound, UiType
<1> HIDE DEF c
<1>2. /\ v \in UiType /\ v.screen = z.screen /\ v.pending = z.pending /\ v.dev = z.dev /\ ~v.modal /\ v.bump = z.bump
      /\ v.confirmation = <<>> /\ Cleared(v)
    BY <1>1, ClearFacts
<1>3. r = IF v.screen # "wait" \/ v.pending THEN Submit(v, "status") ELSE v
    BY DEF Cancelled, c
<1> HIDE DEF v, r
<1>4. CASE v.screen # "wait" \/ v.pending
  <2>1. r = Submit(v, "status")
      BY <1>3, <1>4
  <2>2. /\ Submit(v, "status").screen = "wait" /\ Submit(v, "status").modal = v.modal /\ Submit(v, "status").dev = v.dev
        /\ Submit(v, "status").bump = v.bump /\ Submit(v, "status").job.op = "status"
      BY <1>2, SubmitFacts DEF Ops
  <2>3. ScreensSound(Submit(v, "status"))
      BY <1>2, SimpleSubmit DEF Simple
  <2>4. QED
      BY <1>2, <1>4, <2>1, <2>2, <2>3 DEF r
<1>5. CASE ~(v.screen # "wait" \/ v.pending)
  <2>1. r = v
      BY <1>3, <1>5
  <2>2. ScreensSound(v)
      BY <1>2, <1>5 DEF ScreensSound, Wiped, JobSound, DeviceSound, FlowSound, PasskeySound, FlowScreens
  <2>3. QED
      BY <1>2, <1>5, <2>1, <2>2 DEF r
<1>6. QED
    BY <1>4, <1>5

\* Handing the job over wipes what the worker has read.
LEMMA EmptiedSound ==
    ASSUME NEW z, ScreensSound(z), z.pending
    PROVE  LET r == Emptied(z)
           IN /\ ScreensSound(r) /\ r.screen = "wait" /\ ~r.pending /\ ~r.modal /\ r.bump = z.bump
<1>1. /\ z \in UiType /\ z.job \in JobType /\ z.screen = "wait" /\ ~z.modal /\ z.confirmation = <<>>
    BY DEF ScreensSound, UiType, JobSound, Wiped
<1> DEFINE j == [z.job EXCEPT !.secret = <<>>, !.current = <<>>]
           r == [z EXCEPT !.pending = FALSE, !.job = j, !.entry = NoEntry]
<1>2. Emptied(z) = r
    BY <1>1 DEF Emptied, UiType
<1>3. j \in JobType /\ j.secret = <<>> /\ j.current = <<>>
  <2>1. <<>> \in Seq(Int)
      OBVIOUS
  <2>2. QED
      BY <1>1, <2>1 DEF JobType
<1> HIDE DEF j
<1>4. /\ r \in UiType /\ r.screen = "wait" /\ ~r.pending /\ ~r.modal /\ r.bump = z.bump /\ r.confirmation = <<>>
      /\ r.job = j /\ r.entry = NoEntry
    BY <1>1, <1>3, NoEntryFacts DEF UiType
<1> HIDE DEF r
<1>5. Cleared(r)
    BY <1>3, <1>4 DEF Cleared
<1>6. ScreensSound(r)
    BY <1>4, <1>5 DEF ScreensSound, Wiped, JobSound, DeviceSound, FlowSound, PasskeySound, FlowScreens
<1>7. QED
    BY <1>2, <1>4, <1>6

\* A FIDO prompt is shown with nothing typed, and asks for released buttons.
LEMMA FidoBeginSound ==
    ASSUME NEW z, ScreensSound(z), ~z.modal, NEW secret \in BOOLEAN, NEW p \in 0 .. 4, secret => p \in 2 .. 4
    PROVE  LET r == FidoBegin(z, secret, p)
           IN ScreensSound(r) /\ r.modal /\ r.bump /\ ~r.pending
<1> DEFINE c == ClearInput(z)
           m == IF Unlocked(z.dev) THEN z.dev.mode ELSE "passkeys"
           j == [c.job EXCEPT !.profile = p, !.mode = m]
           a == [c EXCEPT !.bump = TRUE]
           v == [a EXCEPT !.pending = FALSE, !.modal = TRUE, !.done = FALSE, !.approved = FALSE, !.job = j]
           s == IF secret THEN "secret" ELSE "approve"
           r == Show(v, s)
<1>1. z \in UiType /\ m \in Modes
    BY DEF ScreensSound, UiType, DeviceType, Modes
<1>2. c \in UiType /\ c.job \in JobType /\ c.confirmation = <<>> /\ c.entry = NoEntry /\ Cleared(c)
    BY <1>1, ClearFacts DEF UiType
<1>3. FidoBegin(z, secret, p) = Show([a EXCEPT !.pending = FALSE, !.modal = TRUE, !.done = FALSE, !.approved = FALSE,
                                               !.job.profile = p, !.job.mode = m], s)
    BY DEF FidoBegin, Announced
<1> HIDE DEF c, m, s
<1>4. /\ a \in UiType /\ a.bump /\ a.job = c.job /\ a.confirmation = <<>> /\ a.entry = NoEntry
    BY <1>2 DEF UiType
<1> HIDE DEF a
<1>5. [a EXCEPT !.pending = FALSE, !.modal = TRUE, !.done = FALSE, !.approved = FALSE, !.job.profile = p, !.job.mode = m] = v
    BY <1>4 DEF UiType
<1>6. j \in JobType /\ j.profile = p /\ j.secret = <<>> /\ j.current = <<>>
    BY <1>1, <1>2 DEF JobType, Cleared
<1> HIDE DEF j
<1>7. v \in UiType /\ v.bump /\ v.job = j /\ v.confirmation = <<>> /\ v.entry = NoEntry /\ ~v.pending /\ v.modal
    BY <1>4, <1>6 DEF UiType
<1> HIDE DEF v
<1>8. s \in {"secret", "approve"} /\ s \in Screens /\ (secret <=> s = "secret")
    BY DEF s, Screens, FlowScreens
<1>9. /\ r \in UiType /\ r.screen = s /\ r.job = j /\ r.confirmation = <<>> /\ ~r.pending /\ r.modal
      /\ s = "secret" => r.entry = EntryBegin(p)
      /\ s = "approve" => r.entry = NoEntry
    BY <1>6, <1>7, <1>8, ShowFacts
<1>10. r.bump
  <2>1. r.bump = (v.bump \/ s \in {"secret", "confirm", "passkeys", "delete"})
      BY <1>7, <1>8, ShowFacts
  <2>2. QED
      BY <1>7, <2>1, Zenon
<1> HIDE DEF r
<1>11. PromptEntry(r.entry)
  <2>1. CASE s = "approve"
      BY <1>9, <2>1 DEF PromptEntry
  <2>2. CASE s = "secret"
    <3>1. p \in 2 .. 4 /\ EntrySound(EntryBegin(p), p) /\ EntryBegin(p).profile = p
        BY <1>8, <2>2, EntryBegun DEF EntrySound
    <3>2. QED
        BY <1>9, <2>2, <3>1 DEF PromptEntry
  <2>3. QED
      BY <1>8, <2>1, <2>2
<1>12. s = "approve" => Cleared(r)
    BY <1>6, <1>9 DEF Cleared
<1>13. ScreensSound(r)
    BY <1>8, <1>9, <1>11, <1>12 DEF ScreensSound, Wiped, JobSound, DeviceSound, FlowScreens
<1>14. FidoBegin(z, secret, p) = r
    BY <1>3, <1>5 DEF r
<1>15. QED
    BY <1>9, <1>10, <1>13, <1>14

\* Taking a prompt down wipes its input and asks for the state of the device.
LEMMA FidoEndSound ==
    ASSUME NEW z, ScreensSound(z)
    PROVE  LET r == FidoEnd(z)
           IN ScreensSound(r) /\ ~r.modal /\ r.bump /\ r.screen = "wait" /\ r.job.op = "status"
<1> DEFINE c == ClearInput(z)
           v == [c EXCEPT !.bump = TRUE, !.modal = FALSE, !.done = FALSE, !.approved = FALSE]
<1>1. c \in UiType /\ c.confirmation = <<>>
    BY ClearFacts DEF ScreensSound
<1>2. FidoEnd(z) = Submit(v, "status")
    BY DEF FidoEnd
<1> HIDE DEF c
<1>3. v \in UiType /\ v.confirmation = <<>> /\ v.bump /\ ~v.modal
    BY <1>1 DEF UiType
<1> HIDE DEF v
<1>4. /\ Submit(v, "status").screen = "wait" /\ Submit(v, "status").modal = v.modal
      /\ Submit(v, "status").bump = v.bump /\ Submit(v, "status").job.op = "status"
  <2>1. "status" \in Ops
      BY DEF Ops
  <2>2. QED
      BY <1>3, <2>1, SubmitFacts, Zenon
<1>5. ScreensSound(Submit(v, "status"))
    BY <1>3, SimpleSubmit DEF Simple
<1>6. QED
    BY <1>2, <1>3, <1>4, <1>5

\* The user's answer to a prompt is taken and wiped.
LEMMA AnsweredSound ==
    ASSUME NEW z, ScreensSound(z), z.modal, NEW s \in Seq(Int), z.job.secret = <<>> => s = <<>>
    PROVE  LET r == [z EXCEPT !.job.secret = s, !.entry = NoEntry]
           IN ScreensSound(r) /\ r.modal /\ r.bump = z.bump /\ r.screen = z.screen /\ ~r.pending
<1> DEFINE j == [z.job EXCEPT !.secret = s]
           r == [z EXCEPT !.job = j, !.entry = NoEntry]
<1>1. /\ z \in UiType /\ z.job \in JobType /\ z.screen \in {"secret", "approve"} /\ ~z.pending /\ z.confirmation = <<>>
      /\ z.screen = "approve" => Cleared(z)
    BY DEF ScreensSound, UiType, JobSound, Wiped, FlowScreens
<1>2. [z EXCEPT !.job.secret = s, !.entry = NoEntry] = r
    BY <1>1 DEF UiType
<1>3. j \in JobType /\ j.secret = s /\ j.current = z.job.current
    BY <1>1 DEF JobType
<1> HIDE DEF j
<1>4. /\ r \in UiType /\ r.screen = z.screen /\ ~r.pending /\ r.modal /\ r.bump = z.bump /\ r.confirmation = <<>>
      /\ r.job = j /\ r.entry = NoEntry
    BY <1>1, <1>3, NoEntryFacts DEF UiType
<1> HIDE DEF r
<1>5. z.screen = "approve" => Cleared(r)
    BY <1>1, <1>3, <1>4 DEF Cleared
<1>6. ScreensSound(r)
    BY <1>1, <1>4, <1>5 DEF ScreensSound, Wiped, JobSound, DeviceSound, FlowScreens, PromptEntry
<1>7. QED
    BY <1>2, <1>4, <1>6

\* The answer of the worker leads to a screen that agrees with the device.
LEMMA CompletedSound ==
    ASSUME NEW z, ScreensSound(z), ~z.modal, NEW ok \in BOOLEAN, NEW d \in DeviceType, ok => Usable(d)
    PROVE  LET r == Completed(z, ok, d)
           IN /\ ScreensSound(r) /\ r.dev = d /\ ~r.modal /\ ~r.pending
              /\ ~ok => r.screen = "error"
              /\ r.screen \in Prompting \/ z.bump => r.bump
<1> DEFINE c == ClearInput(z)
           v == [c EXCEPT !.pending = FALSE, !.dev = d, !.job = NoJob]
           r == Completed(z, ok, d)
<1>1. z \in UiType /\ d.pk.id \in Int
    BY DEF ScreensSound, DeviceType, Passkeys, NoPasskey
<1>2. c \in UiType /\ c.confirmation = <<>> /\ c.entry = NoEntry /\ ~c.modal /\ c.bump = z.bump
    BY <1>1, ClearFacts DEF Cleared
<1> HIDE DEF c
<1>3. /\ v \in UiType /\ v.confirmation = <<>> /\ v.entry = NoEntry /\ ~v.modal /\ ~v.pending /\ v.dev = d
      /\ v.job = NoJob /\ v.bump = z.bump
    BY <1>2, NoJobFacts DEF UiType
<1>4. r = IF ~ok THEN Show(v, "error")
          ELSE IF z.job.op \in {"list", "delete"} THEN Show([v EXCEPT !.job.id = Named(z, d)], "passkeys")
          ELSE Show(v, IF Unlocked(d) THEN "dashboard" ELSE "home")
    BY DEF Completed, c
<1> HIDE DEF v, r
<1>5. Cleared(v)
    BY <1>3, NoJobFacts DEF Cleared
<1>6. v.bump \in BOOLEAN
    BY <1>3 DEF UiType
<1>7. CASE ~ok
  <2> DEFINE x == Show(v, "error")
  <2>1. r = x
      BY <1>4, <1>7
  <2>2. "error" \in Screens /\ "error" \notin {"secret", "confirm"} /\ "error" \notin {"secret", "confirm", "passkeys", "delete"}
      BY DEF Screens
  <2>3. /\ x \in UiType /\ x.screen = "error" /\ x.job = v.job /\ x.confirmation = v.confirmation /\ x.pending = v.pending
        /\ x.dev = v.dev /\ x.modal = v.modal /\ x.entry = v.entry
      BY <1>3, <2>2, ShowFacts
  <2>4. x.bump = v.bump
    <3>1. x.bump = (v.bump \/ "error" \in {"secret", "confirm", "passkeys", "delete"})
        BY <1>3, <2>2, ShowFacts
    <3>2. QED
        BY <1>6, <2>2, <3>1
  <2> HIDE DEF x
  <2>5. Cleared(x)
      BY <1>5, <2>3 DEF Cleared
  <2>6. ScreensSound(x)
      BY <1>3, <2>3, <2>5 DEF ScreensSound, Wiped, JobSound, DeviceSound, FlowSound, PasskeySound, FlowScreens
  <2>7. QED
      BY <1>3, <1>7, <2>1, <2>3, <2>4, <2>6 DEF r, Prompting
<1>8. CASE ok /\ z.job.op \in {"list", "delete"}
  <2> DEFINE j == [NoJob EXCEPT !.id = Named(z, d)]
             y == [v EXCEPT !.job = j]
             x == Show(y, "passkeys")
  <2>1. r = Show([v EXCEPT !.job.id = Named(z, d)], "passkeys")
      BY <1>4, <1>8
  <2>2. [v EXCEPT !.job.id = Named(z, d)] = y
      BY <1>3 DEF UiType
  <2>3. j \in JobType /\ j.id = d.pk.id /\ j.secret = <<>> /\ j.current = <<>>
    <3>1. Named(z, d) \in Int /\ Named(z, d) = d.pk.id
        BY <1>1 DEF Named
    <3>2. QED
        BY <3>1, NoJobFacts DEF JobType
  <2> HIDE DEF j
  <2>4. /\ y \in UiType /\ y.job = j /\ y.confirmation = v.confirmation /\ y.entry = v.entry /\ y.pending = v.pending
        /\ y.dev = v.dev /\ y.modal = v.modal
      BY <1>3, <2>3, JobReplaced
  <2> HIDE DEF y
  <2>5. Free(y) /\ Cleared(y) /\ y.job.id = y.dev.pk.id
      BY <1>3, <1>8, <2>3, <2>4 DEF Free, Cleared
  <2>6. Follows(y, x)
      BY <2>5, ShowPasskeys
  <2>7. x.screen = "passkeys" /\ x.pending = y.pending
      BY <2>4, ShowFacts DEF Screens
  <2>8. x.bump
    <3>1. x.bump = (y.bump \/ "passkeys" \in {"secret", "confirm", "passkeys", "delete"})
        BY <2>4, ShowFacts DEF Screens
    <3>2. QED
        BY <3>1, Zenon
  <2> HIDE DEF x
  <2>9. ScreensSound(x) /\ x.dev = d /\ ~x.modal /\ ~x.pending
      BY <1>3, <2>4, <2>6, <2>7 DEF Follows
  <2>10. r = x
      BY <2>1, <2>2 DEF x
  <2>11. QED
      BY <1>8, <2>7, <2>8, <2>9, <2>10 DEF r
<1>9. CASE ok /\ z.job.op \notin {"list", "delete"}
  <2> DEFINE s == IF Unlocked(d) THEN "dashboard" ELSE "home"
             x == Show(v, s)
  <2>1. r = x
      BY <1>4, <1>9
  <2>2. s \in Plain /\ s \in Screens /\ s \notin {"secret", "confirm", "passkeys", "delete"}
      BY DEF Plain, Screens
  <2> HIDE DEF s
  <2>3. Free(v)
      BY <1>3, <1>9 DEF Free
  <2>4. Follows(v, x)
      BY <1>5, <2>2, <2>3, ShowPlain
  <2>5. x.screen = s /\ x.pending = v.pending
      BY <1>3, <2>2, ShowFacts
  <2>6. x.bump = v.bump
    <3>1. x.bump = (v.bump \/ s \in {"secret", "confirm", "passkeys", "delete"})
        BY <1>3, <2>2, ShowFacts
    <3>2. QED
        BY <1>6, <2>2, <3>1
  <2> HIDE DEF x
  <2>7. ScreensSound(x) /\ x.dev = d /\ ~x.modal /\ ~x.pending
      BY <1>3, <2>4, <2>5 DEF Follows
  <2>8. QED
      BY <1>3, <1>9, <2>1, <2>2, <2>5, <2>6, <2>7 DEF r, Prompting
<1>10. QED
    BY <1>7, <1>8, <1>9

\* A request moves between the states of its mailbox.
LEMMA FidoMoved ==
    ASSUME NEW f \in FidoType, NEW n \in 0 .. 3
    PROVE  [f EXCEPT !.state = n] \in FidoType
BY DEF FidoType

\* The idle job is well formed.
LEMMA IdleFacts ==
    Idle.op = "idle" /\ Idle.mode = "locked" /\ Idle.profile = 0 /\ Idle.policy \in Policies
<1>1. Policy("none", 0, 0, 0) \in Policies
    BY UiSizes DEF Policy, Policies
<1>2. QED
    BY <1>1 DEF Idle, NoJob

\* An empty card is a vault description like any other.
LEMMA NoDiskFacts ==
    NoDisk \in DiskType /\ NoDisk.status = "empty" /\ NoDisk.profile = 0
<1>1. Policy("none", 0, 0, 0) \in Policies
    BY UiSizes DEF Policy, Policies
<1>2. QED
    BY <1>1 DEF NoDisk, DiskType, Statuses

\* What the worker reports of the device is well formed.
LEMMA DeviceFacts ==
    ASSUME NEW d \in DiskType, NEW m \in Modes, NEW pk \in Passkeys
    PROVE  LET r == Device(d, m, pk)
           IN r \in DeviceType /\ r.status = d.status /\ r.profile = d.profile /\ r.mode = m /\ r.pk = pk
BY DEF Device, DeviceType, DiskType

\* The interface starts sound, waiting for the state of the device.
LEMMA UiInitial == UInit => UiInv
<1> SUFFICES ASSUME UInit
             PROVE  UiInv
    OBVIOUS
<1> DEFINE z == [screen |-> "wait", cursor |-> 0, flow |-> "setup", job |-> NoJob, confirmation |-> <<>>,
                 entry |-> NoEntry, pending |-> FALSE, dev |-> Device(NoDisk, "locked", NoPasskey),
                 modal |-> FALSE, done |-> FALSE, approved |-> FALSE, bump |-> FALSE]
<1>1. u = Submit(z, "status")
    BY DEF UInit
<1>2. z \in UiType /\ ~z.modal /\ z.confirmation = <<>> /\ ~z.bump
  <2>1. Device(NoDisk, "locked", NoPasskey) \in DeviceType
      BY NoDiskFacts, DeviceFacts DEF Modes, Passkeys
  <2>2. "wait" \in Screens /\ "setup" \in Flows
      BY DEF Screens, Flows
  <2>3. QED
      BY <2>1, <2>2, NoJobFacts, NoEntryFacts DEF UiType
<1> HIDE DEF z
<1>3. ScreensSound(u)
    BY <1>1, <1>2, SimpleSubmit DEF Simple
<1>4. u.screen = "wait" /\ u.job.op = "status" /\ ~u.modal
  <2>1. "status" \in Ops
      BY DEF Ops
  <2>2. QED
      BY <1>1, <1>2, <2>1, SubmitFacts
<1>5. disk \in DiskType /\ (disk.status = "active" => disk.profile # 0)
    BY UiDisks DEF UInit, DiskType
<1>6. access = "locked" /\ serving = Idle
    BY DEF UInit
<1>7. fido \in FidoType /\ fido.state = 0 /\ ~fido.ok /\ ~fido.secret
    BY DEF UInit, FidoType
<1>8. btn \in ButtonType /\ ~btn.old
    BY DEF UInit, ButtonType
<1>9. Agrees
    BY <1>4 DEF Agrees
<1>10. WorkerSound
    BY <1>6, IdleFacts DEF WorkerSound, AtWorker, Modes
<1>11. PromptSound
    BY <1>4, <1>7 DEF PromptSound
<1>12. DiskSound
    BY <1>5, <1>6 DEF DiskSound, Modes
<1>13. ButtonsSound
    BY <1>8 DEF ButtonsSound
<1>14. QED
    BY <1>3, <1>9, <1>10, <1>11, <1>12, <1>13 DEF UiInv

\* The steps that leave the screens, the vault and the buttons as they are.
LEMMA QuietStep ==
    ASSUME UiInv,
           QueueFull \/ SessionEnds \/ PromptRequest \/ PromptAsk \/ PromptRefused \/ PromptAbort \/ PromptsOver
    PROVE  UiInv'
<1>1. u' = u /\ disk' = disk /\ serving' = serving /\ btn' = btn
    BY DEF QueueFull, SessionEnds, PromptRequest, PromptAsk, PromptRefused, PromptAbort, PromptsOver
<1>2. ScreensSound(u') /\ Agrees' /\ ButtonsSound'
    BY <1>1 DEF UiInv, Agrees, ButtonsSound
<1>3. fido \in FidoType /\ PromptSound /\ WorkerSound /\ DiskSound
    BY DEF UiInv, PromptSound
<1>4. CASE QueueFull
  <2>1. access' = access /\ fido' = fido /\ maintenance'
      BY <1>4 DEF QueueFull
  <2>2. QED
      BY <1>1, <1>2, <1>3, <2>1 DEF UiInv, WorkerSound, AtWorker, PromptSound, DiskSound
<1>5. CASE SessionEnds
  <2>1. access' = "locked" /\ fido' = fido /\ maintenance' = maintenance
      BY <1>5 DEF SessionEnds
  <2>2. QED
      BY <1>1, <1>2, <1>3, <2>1 DEF UiInv, WorkerSound, AtWorker, PromptSound, DiskSound, Modes
<1>6. CASE PromptRequest
  <2>1. access' = access /\ maintenance' = maintenance /\ ~AtWorker /\ fido.state = 0 /\ ~fido.busy
      BY <1>3, <1>6 DEF PromptRequest, WorkerSound, PromptSound
  <2>2. fido' \in FidoType /\ fido'.busy /\ fido'.state = 1 /\ fido'.ok = fido.ok /\ fido'.secret = fido.secret
    <3>1. fido.asked \in Nat /\ 1 \in 0 .. 3
        BY <1>3 DEF FidoType
    <3>2. fido' \in FidoType
        BY <1>3, <1>6, <3>1 DEF PromptRequest, FidoType
    <3>3. fido'.busy /\ fido'.state = 1
        BY <1>3, <1>6 DEF PromptRequest, FidoType
    <3>4. fido'.ok = fido.ok /\ fido'.secret = fido.secret
        BY <1>3, <1>6 DEF PromptRequest, FidoType
    <3>5. QED
        BY <3>2, <3>3, <3>4
  <2>3. WorkerSound'
      BY <1>1, <1>3, <2>1 DEF WorkerSound, AtWorker
  <2>4. PromptSound'
      BY <1>1, <1>3, <2>1, <2>2 DEF PromptSound
  <2>5. QED
      BY <1>1, <1>2, <1>3, <2>1, <2>3, <2>4 DEF UiInv, DiskSound
<1>7. CASE PromptAsk
  <2>1. access' = access /\ maintenance' = maintenance /\ fido.state = 0 /\ fido.busy
      BY <1>7 DEF PromptAsk
  <2>2. fido' \in FidoType /\ fido'.busy /\ fido'.state = 1 /\ fido'.ok = fido.ok /\ fido'.secret = fido.secret
    <3>1. fido.asked \in Nat /\ 1 \in 0 .. 3
        BY <1>3 DEF FidoType
    <3>2. fido' \in FidoType
      <4>1. fido.asked + 1 \in Nat
          BY <3>1
      <4>2. fido' = [fido EXCEPT !.state = 1, !.asked = fido.asked + 1]
          BY <1>3, <1>7 DEF PromptAsk, FidoType
      <4>3. ASSUME NEW n \in Nat
            PROVE  [fido EXCEPT !.state = 1, !.asked = n] \in FidoType
        <5>1. PICK a \in FidoType : a = [fido EXCEPT !.asked = n]
            BY <1>3 DEF FidoType
        <5>2. [fido EXCEPT !.state = 1, !.asked = n] = [a EXCEPT !.state = 1]
            BY <1>3, <5>1 DEF FidoType
        <5>3. [a EXCEPT !.state = 1] \in FidoType
            BY DEF FidoType
        <5>4. QED
            BY <5>2, <5>3
      <4>4. QED
          BY <4>1, <4>2, <4>3
    <3>3. fido'.busy /\ fido'.state = 1
        BY <1>3, <1>7 DEF PromptAsk, FidoType
    <3>4. fido'.ok = fido.ok /\ fido'.secret = fido.secret
        BY <1>3, <1>7 DEF PromptAsk, FidoType
    <3>5. QED
        BY <3>2, <3>3, <3>4
  <2>3. WorkerSound'
      BY <1>1, <1>3, <2>1 DEF WorkerSound, AtWorker
  <2>4. PromptSound'
      BY <1>1, <1>3, <2>1, <2>2 DEF PromptSound
  <2>5. QED
      BY <1>1, <1>2, <1>3, <2>1, <2>3, <2>4 DEF UiInv, DiskSound
<1>8. CASE PromptRefused
  <2>1. access' = access /\ maintenance' = maintenance /\ fido.state = 1 /\ fido.busy
      BY <1>3, <1>8 DEF PromptRefused, PromptSound
  <2>2. fido' \in FidoType /\ fido'.busy = fido.busy /\ fido'.state = 0 /\ fido'.ok = fido.ok /\ fido'.secret = fido.secret
      BY <1>3, <1>8 DEF PromptRefused, FidoType
  <2>3. WorkerSound'
      BY <1>1, <1>3, <2>1 DEF WorkerSound, AtWorker
  <2>4. PromptSound'
      BY <1>1, <1>3, <2>1, <2>2 DEF PromptSound
  <2>5. QED
      BY <1>1, <1>2, <1>3, <2>1, <2>3, <2>4 DEF UiInv, DiskSound
<1>9. CASE PromptAbort
  <2>1. access' = access /\ maintenance' = maintenance
      BY <1>9 DEF PromptAbort
  <2>2. /\ fido' \in FidoType /\ fido'.busy = fido.busy /\ fido'.state = fido.state
        /\ fido'.ok = fido.ok /\ fido'.secret = fido.secret
      BY <1>3, <1>9 DEF PromptAbort, FidoType
  <2>3. WorkerSound'
      BY <1>1, <1>3, <2>1, <2>2 DEF WorkerSound, AtWorker
  <2>4. PromptSound'
      BY <1>1, <1>3, <2>1, <2>2 DEF PromptSound
  <2>5. QED
      BY <1>1, <1>2, <1>3, <2>1, <2>3, <2>4 DEF UiInv, DiskSound
<1>10. CASE PromptsOver
  <2>1. maintenance' = maintenance /\ fido.state = 0 /\ fido.busy
      BY <1>10 DEF PromptsOver
  <2>2. access' \in {access, "locked"} \/ (access' = "passkeys" /\ fido.ok)
      BY <1>10 DEF PromptsOver
  <2>3. /\ fido' \in FidoType /\ ~fido'.busy /\ fido'.state = 0 /\ ~fido'.ok /\ fido'.secret = fido.secret
      BY <1>3, <1>10 DEF PromptsOver, FidoType
  <2>4. WorkerSound'
      BY <1>1, <1>3, <2>1 DEF WorkerSound, AtWorker
  <2>5. DiskSound'
      BY <1>1, <1>3, <2>2 DEF DiskSound, PromptSound, Modes
  <2>6. PromptSound'
      BY <1>1, <1>3, <2>1, <2>3 DEF PromptSound
  <2>7. QED
      BY <1>2, <2>4, <2>5, <2>6 DEF UiInv
<1>11. QED
    BY <1>4, <1>5, <1>6, <1>7, <1>8, <1>9, <1>10

\* A bus event, and a refresh that is due.
LEMMA CancelStep ==
    ASSUME UiInv, Disconnected \/ Refresh
    PROVE  UiInv'
<1>1. UNCHANGED <<disk, access, serving, maintenance, fido, btn>>
    BY DEF Disconnected, Refresh
<1>2. u' = Cancelled(u) \/ u' = u
    BY DEF Disconnected, Refresh
<1>3. u.modal => u' = u
    BY DEF Disconnected, Refresh, RefreshDue
<1>4. CASE u' = u
    BY <1>1, <1>4 DEF UiInv, Agrees, WorkerSound, AtWorker, PromptSound, DiskSound, ButtonsSound
<1>5. CASE u' = Cancelled(u) /\ ~u.modal
  <2>1. ScreensSound(u)
      BY DEF UiInv
  <2>2. /\ ScreensSound(u') /\ u'.screen = "wait" /\ ~u'.modal /\ u'.bump = u.bump
        /\ u'.pending => u'.job.op = "status"
        /\ u.screen = "wait" /\ ~u.pending => ~u'.pending
      BY <1>5, <2>1, CancelledSound
  <2>3. Agrees'
      BY <2>2 DEF Agrees
  <2>4. WorkerSound'
      BY <1>1, <2>2 DEF UiInv, WorkerSound, AtWorker
  <2>5. PromptSound'
      BY <1>1, <1>5, <2>2 DEF UiInv, PromptSound
  <2>6. DiskSound'
      BY <1>1 DEF UiInv, DiskSound
  <2>7. ButtonsSound'
      BY <1>1, <2>2 DEF UiInv, ButtonsSound
  <2>8. QED
      BY <2>2, <2>3, <2>4, <2>5, <2>6, <2>7 DEF UiInv
<1>6. QED
    BY <1>2, <1>3, <1>4, <1>5

\* The job leaves for the worker.
LEMMA HandOverStep ==
    ASSUME UiInv, HandOver
    PROVE  UiInv'
<1>1. /\ UNCHANGED <<disk, access, fido, btn>> /\ maintenance' /\ u.pending /\ ~fido.busy /\ u' = Emptied(u)
    BY DEF HandOver
<1>2. ScreensSound(u) /\ u \in UiType /\ u.job \in JobType /\ JobSound(u) /\ u.screen = "wait" /\ ~u.modal
    BY <1>1 DEF UiInv, ScreensSound, UiType, JobSound
<1>3. ScreensSound(u') /\ u'.screen = "wait" /\ ~u'.pending /\ ~u'.modal /\ u'.bump = u.bump
    BY <1>1, <1>2, EmptiedSound
<1>4. /\ serving'.op = u.job.op /\ serving'.mode = u.job.mode /\ serving'.profile = u.job.profile
      /\ serving'.policy = u.job.policy
    BY DEF HandOver, Idle, NoJob
<1>5. Agrees'
    BY <1>3 DEF Agrees
<1>6. WorkerSound'
  <2>1. /\ u.job.op \in Ops /\ u.job.mode \in Modes /\ u.job.profile \in 0 .. 4 /\ u.job.policy \in Policies
      BY <1>2 DEF JobType
  <2>2. u.job.op = "unlock" => disk.profile \in 2 .. 4
      BY <1>1 DEF UiInv, Agrees
  <2>3. u.job.op \in {"create", "change"} => u.job.profile \in 2 .. 4
      BY <1>1, <1>2 DEF JobSound, Accepts, ValidSecret
  <2>4. QED
      BY <1>1, <1>3, <1>4, <2>1, <2>2, <2>3 DEF WorkerSound, AtWorker
<1>7. PromptSound'
    BY <1>1, <1>2, <1>3 DEF UiInv, PromptSound
<1>8. DiskSound' /\ ButtonsSound'
    BY <1>1, <1>3 DEF UiInv, DiskSound, ButtonsSound
<1>9. QED
    BY <1>3, <1>5, <1>6, <1>7, <1>8 DEF UiInv

\* The buttons when another screen is shown by the worker's answer or a prompt.
LEMMA AgedSound ==
    ASSUME UiInv, btn' = Aged(u'), u'.bump \in BOOLEAN, u.bump => u'.bump, Guarded(u') => u'.bump
    PROVE  ButtonsSound'
<1>1. btn \in ButtonType /\ (btn.old => btn.cand /\ (u.bump \/ ~btn.armed))
    BY DEF UiInv, ButtonsSound
<1> DEFINE o == btn.old \/ (btn.cand /\ Guarded(u') /\ (u'.screen # u.screen \/ u'.modal # u.modal))
<1>2. btn' = [btn EXCEPT !.old = o]
    BY <1>1 DEF Aged, ButtonType
<1>3. o \in BOOLEAN /\ (o => btn.cand /\ (u'.bump \/ ~btn.armed))
  <2>1. o \in BOOLEAN
      BY <1>1 DEF ButtonType
  <2>2. o => btn.cand /\ (u'.bump \/ ~btn.armed)
      BY <1>1, Zenon
  <2>3. QED
      BY <2>1, <2>2
<1> HIDE DEF o
<1>4. btn' \in ButtonType
    BY <1>1, <1>2, <1>3 DEF ButtonType
<1>5. btn'.old = o /\ btn'.cand = btn.cand /\ btn'.armed = btn.armed
    BY <1>1, <1>2, <1>3 DEF ButtonType
<1>6. QED
    BY <1>3, <1>4, <1>5 DEF ButtonsSound

\* The worker's answer is taken.
LEMMA AnswerStep ==
    ASSUME UiInv, AtWorker, NEW d \in DiskType, NEW m \in Modes, NEW ok \in BOOLEAN, NEW pk \in Passkeys,
           d.status = "active" => d.profile # 0, m # "locked" => d.profile \in 2 .. 4, Answer(d, m, ok, pk)
    PROVE  UiInv'
<1> DEFINE x == IF ok THEN d ELSE [d EXCEPT !.profile = 0]
           D == Device(x, m, pk)
<1>1. /\ u' = Completed(u, ok, D) /\ disk' = d /\ access' = m /\ btn' = Aged(u')
      /\ serving' = Idle /\ fido' = fido
    BY DEF Answer
<1>2. ScreensSound(u) /\ u.screen = "wait" /\ ~u.modal /\ ~fido.busy /\ fido \in FidoType
    BY DEF UiInv, WorkerSound, PromptSound
<1>3. x \in DiskType
    BY DEF DiskType
<1> HIDE DEF x
<1>4. D \in DeviceType /\ D.status = x.status /\ D.profile = x.profile /\ D.mode = m
    BY <1>3, DeviceFacts
<1>5. ok => x = d
    BY DEF x
<1> HIDE DEF D
<1>6. ok => Usable(D)
    BY <1>4, <1>5 DEF Usable, Unlocked
<1>7. /\ ScreensSound(u') /\ u'.dev = D /\ ~u'.modal /\ ~u'.pending
      /\ ~ok => u'.screen = "error"
      /\ u'.screen \in Prompting \/ u.bump => u'.bump
    BY <1>1, <1>2, <1>4, <1>6, CompletedSound
<1>8. Agrees'
    BY <1>1, <1>4, <1>5, <1>7 DEF Agrees
<1>9. WorkerSound'
    BY <1>1, IdleFacts DEF WorkerSound, AtWorker, Modes
<1>10. PromptSound'
  <2>1. fido.state = 0 /\ ~fido.ok /\ ~fido.secret
      BY <1>2 DEF UiInv, PromptSound, FidoType
  <2>2. QED
      BY <1>1, <1>2, <1>7, <2>1 DEF PromptSound
<1>11. DiskSound'
    BY <1>1 DEF DiskSound
<1>12. ButtonsSound'
  <2>1. u'.bump \in BOOLEAN
      BY <1>7 DEF ScreensSound, UiType
  <2>2. Guarded(u') => u'.screen \in Prompting
      BY <1>7 DEF Guarded, Prompting
  <2>3. QED
      BY <1>1, <1>7, <2>1, <2>2, AgedSound
<1>13. QED
    BY <1>7, <1>8, <1>9, <1>10, <1>11, <1>12 DEF UiInv

\* The worker serves a job.
LEMMA ServedStep ==
    ASSUME UiInv, JobServed
    PROVE  UiInv'
<1>1. AtWorker /\ NoPasskey \in Passkeys
    BY DEF JobServed, Passkeys
<1>2. /\ disk \in DiskType /\ access \in Modes /\ (disk.status = "active" => disk.profile # 0)
      /\ access # "locked" => disk.profile \in 2 .. 4
      /\ "locked" \in Modes
    BY DEF UiInv, DiskSound, Modes
<1>3. /\ serving.mode \in Modes /\ serving.profile \in 0 .. 4 /\ serving.policy \in Policies
      /\ serving.op = "unlock" => disk.profile \in 2 .. 4
      /\ serving.op \in {"create", "change"} => serving.profile \in 2 .. 4
    BY DEF UiInv, WorkerSound
<1>4. CASE \E pk \in Passkeys : Answer(disk, access, TRUE, pk)
    BY <1>1, <1>2, <1>4, AnswerStep
<1>5. CASE Answer(disk, "locked", TRUE, NoPasskey)
    BY <1>1, <1>2, <1>5, AnswerStep
<1>6. CASE serving.op = "unlock" /\ Answer(disk, serving.mode, TRUE, NoPasskey)
    BY <1>1, <1>2, <1>3, <1>6, AnswerStep
<1>7. CASE serving.op \in {"create", "policy", "change", "erase"} /\ Answer(Written(serving), "locked", TRUE, NoPasskey)
  <2> DEFINE d == Written(serving)
  <2>0. Stored(serving.policy) \in Policies
      BY <1>3, UiSizes DEF Stored, Policy, Policies
  <2>1. d \in DiskType /\ (d.status = "active" => d.profile # 0)
    <3>1. CASE serving.op = "create"
      <4>1. d = [status |-> "active", profile |-> serving.profile, policy |-> Stored(serving.policy)]
          BY <3>1 DEF Written
      <4>2. QED
          BY <1>3, <2>0, <3>1, <4>1 DEF DiskType, Statuses
    <3>2. CASE serving.op = "policy"
      <4>1. d = [disk EXCEPT !.policy = Stored(serving.policy)]
          BY <3>2 DEF Written
      <4>2. QED
          BY <1>2, <2>0, <4>1 DEF DiskType
    <3>3. CASE serving.op = "change"
      <4>1. d = [disk EXCEPT !.profile = serving.profile]
          BY <3>3 DEF Written
      <4>2. QED
          BY <1>2, <1>3, <3>3, <4>1 DEF DiskType
    <3>4. CASE serving.op = "erase"
      <4>1. d = NoDisk
          BY <3>4 DEF Written
      <4>2. QED
          BY <4>1, NoDiskFacts
    <3>5. QED
        BY <1>7, <3>1, <3>2, <3>3, <3>4
  <2> HIDE DEF d
  <2>2. Answer(d, "locked", TRUE, NoPasskey)
      BY <1>7 DEF d
  <2>3. QED
      BY <1>1, <1>2, <2>1, <2>2, AnswerStep
<1>8. QED
  <2>1. \/ \E pk \in Passkeys : Answer(disk, access, TRUE, pk)
        \/ Answer(disk, "locked", TRUE, NoPasskey)
        \/ serving.op = "unlock" /\ Answer(disk, serving.mode, TRUE, NoPasskey)
        \/ serving.op \in {"create", "policy", "change", "erase"} /\ Answer(Written(serving), "locked", TRUE, NoPasskey)
      BY <1>1 DEF JobServed
  <2>2. QED
      BY <1>4, <1>5, <1>6, <1>7, <2>1

\* A job fails.
LEMMA FailedStep ==
    ASSUME UiInv, JobFailed
    PROVE  UiInv'
<1>1. AtWorker /\ NoPasskey \in Passkeys
    BY DEF JobFailed, Passkeys
<1>2. /\ disk \in DiskType /\ access \in Modes /\ (disk.status = "active" => disk.profile # 0)
      /\ access # "locked" => disk.profile \in 2 .. 4
      /\ "locked" \in Modes
    BY DEF UiInv, DiskSound, Modes
<1>3. PICK m \in {access, "locked"}, d \in {disk, [disk EXCEPT !.status = "denied"]} :
          (d = disk \/ m = "locked") /\ Answer(d, m, FALSE, NoPasskey)
    BY DEF JobFailed
<1>4. [disk EXCEPT !.status = "denied"] \in DiskType /\ [disk EXCEPT !.status = "denied"].status = "denied"
    BY <1>2 DEF DiskType, Statuses
<1>5. d \in DiskType /\ (d.status = "active" => d.profile # 0) /\ (m # "locked" => d.profile \in 2 .. 4) /\ m \in Modes
    BY <1>2, <1>3, <1>4
<1>6. QED
    BY <1>1, <1>3, <1>5, AnswerStep

\* The prompts of a FIDO request.
LEMMA ShownStep ==
    ASSUME UiInv, NEW secret \in BOOLEAN, PromptShow(secret)
    PROVE  UiInv'
<1> DEFINE p == IF secret THEN disk.profile ELSE 0
<1>1. /\ fido.state = 1 /\ u' = FidoBegin(u, secret, p) /\ btn' = Aged(u')
      /\ UNCHANGED <<disk, access, serving, maintenance>>
      /\ fido' = [fido EXCEPT !.state = 2, !.owned = TRUE, !.secret = secret]
    BY DEF PromptShow
<1>2. ScreensSound(u) /\ ~u.modal /\ fido.busy /\ fido \in FidoType /\ ~AtWorker
    BY <1>1 DEF UiInv, PromptSound, WorkerSound
<1>3. p \in 0 .. 4 /\ (secret => p \in 2 .. 4 /\ disk.profile \in 2 .. 4)
    BY DEF PromptShow, Prompts
<1> HIDE DEF p
<1>4. ScreensSound(u') /\ u'.modal /\ u'.bump /\ ~u'.pending
    BY <1>1, <1>2, <1>3, FidoBeginSound
<1>5. Agrees' /\ DiskSound'
    BY <1>1, <1>4 DEF Agrees, UiInv, DiskSound
<1>6. WorkerSound'
    BY <1>1, <1>2 DEF UiInv, WorkerSound, AtWorker
<1>7. PromptSound'
  <2>1. fido' \in FidoType
    <3>1. PICK a \in FidoType : a = [fido EXCEPT !.state = 2]
      <4>1. fido \in FidoType /\ 2 \in 0 .. 3
          BY <1>2
      <4>2. [fido EXCEPT !.state = 2] \in FidoType
          BY <4>1, FidoMoved, Zenon
      <4>3. QED
          BY <4>2, Zenon
    <3>2. PICK c \in FidoType : c = [a EXCEPT !.owned = TRUE]
        BY DEF FidoType
    <3>3. fido' = [c EXCEPT !.secret = secret]
        BY <1>1, <1>2, <3>1, <3>2 DEF FidoType
    <3>4. QED
        BY <3>3 DEF FidoType
  <2>2. fido'.state = 2 /\ fido'.busy = fido.busy
      BY <1>1, <1>2 DEF FidoType
  <2>3. fido'.secret = secret /\ fido'.ok = fido.ok
      BY <1>1, <1>2 DEF FidoType
  <2>4. fido.ok => disk.profile \in 2 .. 4
      BY DEF UiInv, PromptSound
  <2>5. QED
      BY <1>1, <1>2, <1>3, <1>4, <2>1, <2>2, <2>3, <2>4 DEF PromptSound
<1>8. ButtonsSound'
  <2>1. u'.bump \in BOOLEAN
      BY <1>4 DEF ScreensSound, UiType
  <2>2. QED
      BY <1>1, <1>4, <2>1, AgedSound
<1>9. QED
    BY <1>4, <1>5, <1>6, <1>7, <1>8 DEF UiInv

\* The answer to a prompt is taken from the screen.
LEMMA AnsweredStep ==
    ASSUME UiInv, PromptAnswer
    PROVE  UiInv'
<1> DEFINE s == [i \in DOMAIN u.job.secret |-> 0]
<1>1. /\ fido.state = 2 /\ UNCHANGED <<disk, access, serving, maintenance, btn>>
      /\ fido' = [fido EXCEPT !.state = 3, !.abort = FALSE, !.secret = FALSE, !.ok = fido.secret /\ u.approved /\ ~fido.abort]
    BY DEF PromptAnswer
<1>2. /\ ScreensSound(u) /\ u \in UiType /\ u.job \in JobType /\ u.modal /\ fido.busy /\ fido \in FidoType /\ ~AtWorker
    BY <1>1 DEF UiInv, PromptSound, WorkerSound, ScreensSound, UiType
<1>3. u' = [u EXCEPT !.job.secret = s, !.entry = NoEntry]
    BY <1>2 DEF PromptAnswer, UiType, JobType
<1>4. s \in Seq(Int) /\ (u.job.secret = <<>> => s = <<>>)
  <2>1. u.job.secret \in Seq(Int)
      BY <1>2 DEF JobType
  <2>2. DOMAIN u.job.secret = 1 .. Len(u.job.secret) /\ Len(u.job.secret) \in Nat
      BY <2>1, LenProperties
  <2>3. s \in Seq(Int)
    <3>1. s \in [1 .. Len(u.job.secret) -> Int]
        BY <2>2
    <3>2. QED
        BY <2>2, <3>1, SeqDef
  <2>4. Len(s) = Len(u.job.secret)
      BY <2>2, <2>3, LenProperties
  <2>5. QED
      BY <2>1, <2>3, <2>4, EmptySeq
<1> HIDE DEF s
<1>5. ScreensSound(u') /\ u'.modal /\ u'.bump = u.bump /\ ~u'.pending
    BY <1>2, <1>3, <1>4, AnsweredSound
<1>6. Agrees' /\ DiskSound'
    BY <1>1, <1>5 DEF Agrees, UiInv, DiskSound
<1>7. WorkerSound'
    BY <1>1, <1>2 DEF UiInv, WorkerSound, AtWorker
<1>8. PromptSound'
  <2> DEFINE o == fido.secret /\ u.approved /\ ~fido.abort
  <2>1. o \in BOOLEAN /\ (o => fido.secret)
      BY Zenon
  <2>2. fido' = [fido EXCEPT !.state = 3, !.abort = FALSE, !.secret = FALSE, !.ok = o]
      BY <1>1
  <2> HIDE DEF o
  <2>3. fido' \in FidoType
    <3>1. PICK a \in FidoType : a = [fido EXCEPT !.state = 3]
      <4>1. fido \in FidoType /\ 3 \in 0 .. 3
          BY <1>2
      <4>2. [fido EXCEPT !.state = 3] \in FidoType
          BY <4>1, FidoMoved, Zenon
      <4>3. QED
          BY <4>2, Zenon
    <3>2. PICK c \in FidoType : c = [a EXCEPT !.abort = FALSE]
        BY DEF FidoType
    <3>3. PICK d \in FidoType : d = [c EXCEPT !.secret = FALSE]
        BY DEF FidoType
    <3>4. fido' = [d EXCEPT !.ok = o]
        BY <1>2, <2>2, <3>1, <3>2, <3>3 DEF FidoType
    <3>5. QED
        BY <2>1, <3>4 DEF FidoType
  <2>4. fido'.state = 3 /\ fido'.busy = fido.busy /\ ~fido'.secret
      BY <1>2, <2>2 DEF FidoType
  <2>5. fido'.ok = o
      BY <1>2, <2>2 DEF FidoType
  <2>6. fido.secret => disk.profile \in 2 .. 4
      BY DEF UiInv, PromptSound
  <2>7. QED
      BY <1>1, <1>2, <1>5, <2>1, <2>3, <2>4, <2>5, <2>6 DEF PromptSound
<1>9. ButtonsSound'
    BY <1>1, <1>5 DEF UiInv, ButtonsSound
<1>10. QED
    BY <1>5, <1>6, <1>7, <1>8, <1>9 DEF UiInv

\* A prompt is taken down.
LEMMA EndedStep ==
    ASSUME UiInv, PromptEnd
    PROVE  UiInv'
<1>1. /\ fido.state = 3 /\ fido' = [fido EXCEPT !.state = 0] /\ UNCHANGED <<disk, access, serving, maintenance, btn>>
    BY DEF PromptEnd
<1>2. ScreensSound(u) /\ u.modal /\ fido.busy /\ fido \in FidoType /\ ~AtWorker
    BY <1>1 DEF UiInv, PromptSound, WorkerSound
<1>3. u' = FidoEnd(u)
    BY <1>2 DEF PromptEnd
<1>4. ScreensSound(u') /\ ~u'.modal /\ u'.bump /\ u'.screen = "wait" /\ u'.job.op = "status"
    BY <1>2, <1>3, FidoEndSound
<1>5. Agrees' /\ DiskSound'
    BY <1>1, <1>4 DEF Agrees, UiInv, DiskSound
<1>6. WorkerSound'
    BY <1>1, <1>2 DEF UiInv, WorkerSound, AtWorker
<1>7. PromptSound'
  <2>1. fido' \in FidoType
      BY <1>1, <1>2 DEF FidoType
  <2>2. fido'.state = 0 /\ fido'.busy = fido.busy
      BY <1>1, <1>2 DEF FidoType
  <2>3. fido'.secret = fido.secret /\ fido'.ok = fido.ok
      BY <1>1, <1>2 DEF FidoType
  <2>4. ~fido.secret /\ (fido.ok => disk.profile \in 2 .. 4)
      BY <1>1 DEF UiInv, PromptSound
  <2>5. QED
      BY <1>1, <1>2, <1>4, <2>1, <2>2, <2>3, <2>4 DEF PromptSound
<1>8. ButtonsSound'
    BY <1>1, <1>4 DEF UiInv, ButtonsSound
<1>9. QED
    BY <1>4, <1>5, <1>6, <1>7, <1>8 DEF UiInv

\* The buttons are read, and a key is delivered to the screen.
LEMMA SampleStep ==
    ASSUME UiInv, NEW down \in BOOLEAN, NEW elapsed \in BOOLEAN, Sample(down, elapsed)
    PROVE  UiInv'
<1> DEFINE b == Sampled(btn, u.bump, down, elapsed)
           z == [u EXCEPT !.bump = FALSE]
           o == Aged(u').old /\ b.cand
           q == IF Edge(btn, down, elapsed) THEN down ELSE b.prev
<1>1. /\ UNCHANGED <<disk, access, serving, maintenance, fido>>
      /\ u' \in IF KeyDue(btn, u.bump, down, elapsed) THEN After(z) ELSE {z}
      /\ btn' = [b EXCEPT !.prev = IF Edge(btn, down, elapsed) THEN down ELSE @, !.old = Aged(u').old /\ b.cand]
    BY DEF Sample
<1>2. ScreensSound(u) /\ u \in UiType /\ btn \in ButtonType /\ (btn.old => btn.cand /\ (u.bump \/ ~btn.armed))
    BY DEF UiInv, ScreensSound, ButtonsSound
<1>3. /\ z \in UiType /\ z.screen = u.screen /\ z.cursor = u.cursor /\ z.flow = u.flow /\ z.job = u.job
      /\ z.confirmation = u.confirmation /\ z.entry = u.entry /\ z.pending = u.pending /\ z.dev = u.dev
      /\ z.modal = u.modal /\ z.done = u.done /\ z.approved = u.approved
    BY <1>2 DEF UiType
<1> HIDE DEF z
<1>4. ScreensSound(z)
  <2>1. Wiped(z) /\ JobSound(z) /\ DeviceSound(z)
      BY <1>2, <1>3 DEF ScreensSound, Wiped, JobSound, DeviceSound, Cleared
  <2>2. FlowSound(u) => FlowSound(z)
      BY <1>3 DEF FlowSound, Prepared, Complete, LongEnough, Second
  <2>3. PasskeySound(u) => PasskeySound(z)
      BY <1>3 DEF PasskeySound
  <2>4. QED
      BY <1>2, <1>3, <2>1, <2>2, <2>3 DEF ScreensSound
<1>5. u' = z \/ \E k \in Keys : u' = Keypress(z, k)
    BY <1>1, UiKeys DEF After, Tries
<1>6. /\ u' = z \/ Follows(z, u')
      /\ u.screen \in {"wait", "error"} => u'.screen \in {"wait", "error"}
      /\ u.screen = "wait" => u' = z
  <2>1. CASE u' = z
      BY <1>3, <2>1
  <2>2. CASE \E k \in Keys : u' = Keypress(z, k)
    <3>1. PICK k \in Keys : u' = Keypress(z, k)
        BY <2>2
    <3>2. z.screen = "wait" => Keypress(z, k) = z
        BY DEF Keypress
    <3>3. QED
        BY <1>3, <1>4, <3>1, <3>2, KeypressFollows
  <2>3. QED
      BY <1>5, <2>1, <2>2
<1>7. /\ ScreensSound(u') /\ u'.dev = u.dev /\ u'.modal = u.modal
      /\ u'.screen \in Prompting => u'.screen = u.screen \/ u'.bump
      /\ u'.modal => u'.screen = u.screen
    BY <1>3, <1>4, <1>6 DEF Follows
<1>8. Agrees'
  <2>1. u'.screen \notin {"wait", "error"} /\ ~u'.modal =>
            u'.dev.status = disk'.status /\ u'.dev.profile = disk'.profile
      BY <1>1, <1>6, <1>7 DEF UiInv, Agrees
  <2>2. u'.pending /\ u'.job.op = "unlock" => disk'.profile \in 2 .. 4
    <3>1. CASE u' = z
        BY <1>1, <1>3, <3>1 DEF UiInv, Agrees
    <3>2. CASE Follows(z, u')
      <4>1. SUFFICES ASSUME u'.pending, u'.job.op = "unlock"
                     PROVE  disk'.profile \in 2 .. 4
          OBVIOUS
      <4>2. u.screen \notin {"wait", "error"}
          BY <1>3, <3>2, <4>1 DEF Follows
      <4>3. ~u'.modal /\ u'.dev.profile \in 2 .. 4
        <5>1. JobSound(u')
            BY <1>7 DEF ScreensSound
        <5>2. u'.screen = "wait" /\ u'.dev.profile \in 2 .. 4
            BY <4>1, <5>1 DEF JobSound
        <5>3. QED
            BY <1>7, <5>2 DEF ScreensSound
      <4>4. QED
          BY <1>1, <1>7, <4>2, <4>3 DEF UiInv, Agrees
    <3>3. QED
        BY <1>6, <3>1, <3>2
  <2>3. QED
      BY <2>1, <2>2 DEF Agrees
<1>9. WorkerSound'
  <2>1. AtWorker => u.screen = "wait" /\ ~u.pending /\ ~u.modal
      BY DEF UiInv, WorkerSound
  <2>2. AtWorker => u'.screen = "wait" /\ ~u'.pending /\ ~u'.modal
      BY <1>3, <1>6, <2>1
  <2>3. QED
      BY <1>1, <2>2 DEF UiInv, WorkerSound, AtWorker
<1>10. PromptSound' /\ DiskSound'
    BY <1>1, <1>7 DEF UiInv, PromptSound, DiskSound
<1>11. ButtonsSound'
  <2>1. b \in ButtonType /\ b.cand = down /\ (down => (b.armed <=> btn.armed /\ ~u.bump))
    <3>0. u.bump \in BOOLEAN
        BY <1>2 DEF UiType
    <3> DEFINE r == Required(btn, u.bump)
               s == Rearmed(r, down, elapsed)
    <3>1. r \in ButtonType /\ r.cand = btn.cand
        BY <1>2 DEF Required, ButtonType
    <3>2. r.armed <=> btn.armed /\ ~u.bump
        BY <1>2, <3>0 DEF Required, ButtonType
    <3>3. b = Changed(s, down)
        BY DEF Sampled
    <3> HIDE DEF r, b
    <3>4. s \in ButtonType /\ (down => s = r)
        BY <3>1 DEF Rearmed, ButtonType
    <3> HIDE DEF s
    <3>5. b \in ButtonType /\ b.cand = down /\ b.armed = s.armed
      <4>1. CASE down # s.cand
          BY <3>3, <3>4, <4>1 DEF Changed, ButtonType
      <4>2. CASE down = s.cand
          BY <3>3, <3>4, <4>2 DEF Changed
      <4>3. QED
          BY <4>1, <4>2
    <3>6. QED
        BY <3>2, <3>4, <3>5
  <2> HIDE DEF b
  <2>2. q \in BOOLEAN /\ o \in BOOLEAN
    <3>1. q \in BOOLEAN
        BY <2>1 DEF ButtonType
    <3>2. QED
        BY <3>1
  <2>3. btn' = [b EXCEPT !.prev = q, !.old = o]
      BY <1>1, <2>1 DEF ButtonType
  <2>4. Aged(u').old <=> btn.old \/ (btn.cand /\ Guarded(u') /\ (u'.screen # u.screen \/ u'.modal # u.modal))
    <3> DEFINE a == btn.old \/ (btn.cand /\ Guarded(u') /\ (u'.screen # u.screen \/ u'.modal # u.modal))
    <3>1. Aged(u') = [btn EXCEPT !.old = a]
        BY <1>2 DEF Aged, ButtonType
    <3> HIDE DEF a
    <3>2. Aged(u').old = a
        BY <1>2, <3>1 DEF ButtonType
    <3>3. QED
        BY <3>2 DEF a
  <2>5. Guarded(u') /\ (u'.screen # u.screen \/ u'.modal # u.modal) => u'.bump
      BY <1>7 DEF Guarded, Prompting
  <2>6. o => b.cand /\ (u'.bump \/ ~b.armed)
    <3>1. SUFFICES ASSUME o
                   PROVE  b.cand /\ (u'.bump \/ ~b.armed)
        OBVIOUS
    <3>2. b.cand /\ down /\ Aged(u').old
        BY <2>1, <3>1
    <3>3. CASE btn.old
        BY <1>2, <2>1, <3>2, <3>3
    <3>4. CASE ~btn.old
        BY <2>4, <2>5, <3>2, <3>4
    <3>5. QED
        BY <3>3, <3>4
  <2> HIDE DEF q, o
  <2>7. btn' \in ButtonType
    <3>1. PICK a \in ButtonType : a = [b EXCEPT !.prev = q]
        BY <2>1, <2>2 DEF ButtonType
    <3>2. btn' = [a EXCEPT !.old = o]
        BY <2>1, <2>3, <3>1 DEF ButtonType
    <3>3. QED
        BY <2>2, <3>2 DEF ButtonType
  <2>8. btn'.cand = b.cand /\ btn'.armed = b.armed
      BY <2>1, <2>3 DEF ButtonType
  <2>9. btn'.old = o
      BY <2>1, <2>3 DEF ButtonType
  <2>10. QED
      BY <2>6, <2>7, <2>8, <2>9 DEF ButtonsSound
<1>12. QED
    BY <1>7, <1>8, <1>9, <1>10, <1>11 DEF UiInv

\* Every step of the two cores and of the user keeps the invariant.
LEMMA UiStep ==
    ASSUME UiInv, [UNext]_uvars
    PROVE  UiInv'
<1>1. CASE UNCHANGED uvars
    BY <1>1 DEF uvars, UiInv, Agrees, WorkerSound, AtWorker, PromptSound, DiskSound, ButtonsSound
<1>2. CASE Disconnected \/ Refresh
    BY <1>2, CancelStep
<1>3. CASE HandOver
    BY <1>3, HandOverStep
<1>4. CASE QueueFull \/ SessionEnds \/ PromptRequest \/ PromptAsk \/ PromptRefused \/ PromptAbort \/ PromptsOver
    BY <1>4, QuietStep
<1>5. CASE JobServed
    BY <1>5, ServedStep
<1>6. CASE JobFailed
    BY <1>6, FailedStep
<1>7. CASE \E secret \in BOOLEAN : PromptShow(secret)
    BY <1>7, ShownStep
<1>8. CASE PromptAnswer
    BY <1>8, AnsweredStep
<1>9. CASE PromptEnd
    BY <1>9, EndedStep
<1>10. CASE \E down, elapsed \in BOOLEAN : Sample(down, elapsed)
    BY <1>10, SampleStep
<1>11. QED
    BY <1>1, <1>2, <1>3, <1>4, <1>5, <1>6, <1>7, <1>8, <1>9, <1>10 DEF UNext

\* The inductive invariant of the interface holds: the screens are sound, they agree
\* with the device, and the mailboxes between the cores are used one at a time
\* (device_ui.c, device_ui_adapter.c, fido_ui.c).
THEOREM UiSound == USpec => []UiInv
<1>1. QED
    BY UiInitial, UiStep, PTL DEF USpec

\* Whatever the user, the host and the prompts do, a pending job is one the worker
\* does not refuse as invalid, names the passkey on the screen if it deletes one, and
\* finds the mailbox free (ui_submit, fv_device_ui_poll, fv_device_ui_execute).
THEOREM UiJobsAccepted == USpec => []JobsAccepted
<1>1. UiInv => JobsAccepted
    BY DEF UiInv, ScreensSound, JobSound, WorkerSound, JobsAccepted
<1>2. QED
    BY <1>1, UiSound, PTL

\* Credential input lives only on the screens of its flow and in a job that waits to
\* be taken: every other exit wipes it (ui_clear_input, fv_ui_cancel, fv_ui_complete).
THEOREM UiNoSecretLeft == USpec => []NoSecretLeft
<1>1. ASSUME UiInv
      PROVE  NoSecretLeft
  <2>1. ~Typed(<<>>)
      BY DEF Typed
  <2>2. Wiped(u)
      BY <1>1 DEF UiInv, ScreensSound
  <2>3. CASE u.screen \notin FlowScreens /\ ~u.pending
    <3>1. u.job.secret = <<>> /\ u.job.current = <<>> /\ u.entry.values = <<>> /\ u.confirmation = <<>>
        BY <2>2, <2>3, NoEntryFacts DEF Wiped, Cleared, FlowScreens
    <3>2. QED
        BY <2>1, <3>1 DEF NoSecretLeft
  <2>4. CASE u.screen \in FlowScreens \/ u.pending
      BY <2>4 DEF NoSecretLeft, FlowScreens
  <2>5. QED
      BY <2>3, <2>4
<1>2. QED
    BY <1>1, UiSound, PTL

\* A key whose button went down before a prompt, a credential screen or a passkey
\* screen was shown is never delivered to it (fv_button_input_require_release).
THEOREM UiFreshInput == USpec => []FreshInput
<1>1. ASSUME UiInv
      PROVE  FreshInput
  <2>1. btn \in ButtonType /\ (btn.old => u.bump \/ ~btn.armed)
      BY <1>1 DEF UiInv, ButtonsSound
  <2>2. SUFFICES ASSUME KeyDue(btn, u.bump, btn.cand, ~u.bump)
                 PROVE  ~btn.old
      BY DEF FreshInput
  <2>3. ~u.bump /\ btn.cand
      BY <2>2 DEF KeyDue, Edge
  <2>4. Sampled(btn, u.bump, btn.cand, ~u.bump) = btn
      BY <2>3 DEF Sampled, Required, Rearmed, Changed
  <2>5. btn.armed
      BY <2>2, <2>4 DEF KeyDue
  <2>6. QED
      BY <2>1, <2>3, <2>5
<1>2. QED
    BY <1>1, UiSound, PTL
=============================================================================
