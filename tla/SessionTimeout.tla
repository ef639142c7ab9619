--------------------------- MODULE SessionTimeout ---------------------------
(***************************************************************************)
(* Automatic locking (session_timer.c, session_timeout.c and usb_lock of   *)
(* commands.c).  The worker core owns the session, its generation and the  *)
(* inactivity timer.  Core 0 publishes button presses through a mailbox of *)
(* two atomics, a sequence counter and the generation the key was pressed  *)
(* in; the worker takes an event without ever waiting for core 0.  A step  *)
(* is one access to a variable both cores use, or everything the worker    *)
(* does with its own variables in between.                                 *)
(***************************************************************************)
EXTENDS Integers

CONSTANTS MaxTime,         \* UINT64_MAX of the millisecond clock
          TicksPerSecond,  \* 1000
          Seconds,         \* auto_lock_seconds of the policies; 0 is off
          MaxGeneration,   \* bound on session generations (32 bits, far away)
          MaxPresses       \* bound on button presses in one behaviour

ASSUME TimeAssumption == MaxTime \in Nat /\ TicksPerSecond \in Nat \ {0}
ASSUME SecondsAssumption == Seconds \subseteq Nat
ASSUME SessionBounds == MaxGeneration \in Nat /\ MaxPresses \in Nat

VARIABLES now,        \* time_us_64()/1000
          unlocked,   \* usb_access.mode is not FV_ACCESS_LOCKED
          gen,        \* usb_access.generation
          published,  \* session_generation, read by core 0
          timer,      \* fv_session_timer
          timerGen,   \* timer_generation
          consumed,   \* consumed_sequence
          remaining,  \* remaining_seconds, read by core 0
          seq,        \* local_sequence
          event,      \* local_generation
          key,        \* core 0 in fv_session_timeout_local_activity
          pc,         \* where the worker is
          w,          \* its arguments and locals
          last,       \* history: the session's last activity
          presses,    \* history: presses in each generation
          renewals    \* history: presses the session was renewed by

worker == <<unlocked, gen, published, timer, timerGen, consumed, remaining, pc, w, last, renewals>>
mailbox == <<seq, event, key, presses>>
vars == <<now, worker, mailbox>>

Time == 0 .. MaxTime
Generation == 0 .. MaxGeneration
Off == [seconds |-> 0, deadline |-> 0]
NoWork == [at |-> 0, gen |-> 0, touch |-> FALSE, seq |-> 0, event |-> 0, seconds |-> 0, opening |-> FALSE]

-----------------------------------------------------------------------------
(* session_timer.c *)

Duration(s) == s * TicksPerSecond

Deadline(s, t) == IF Duration(s) > MaxTime - t THEN MaxTime ELSE t + Duration(s)

\* Mutant of Expired: the deadline itself is still in time.
ExpiredAfter(tm, t) == tm.seconds # 0 /\ t > tm.deadline

Expired(tm, t) == tm.seconds # 0 /\ t >= tm.deadline

Started(s, t) == [seconds |-> s, deadline |-> IF s # 0 THEN Deadline(s, t) ELSE 0]

\* A touch with an older timestamp must not shorten the interval.
Touched(tm, t) ==
    IF tm.seconds = 0 \/ Expired(tm, t) \/ Deadline(tm.seconds, t) <= tm.deadline THEN tm
    ELSE [tm EXCEPT !.deadline = Deadline(tm.seconds, t)]

\* Rounded up to seconds, and never more than the whole interval.
Remaining(tm, t) ==
    IF tm.seconds = 0 \/ Expired(tm, t) THEN 0
    ELSE LET s == (tm.deadline - t + TicksPerSecond - 1) \div TicksPerSecond
         IN IF s > tm.seconds THEN tm.seconds ELSE s

-----------------------------------------------------------------------------
(* Core 0: a button press *)

\* The key is read and the generation it belongs to sampled.
Press ==
    /\ key.pc = "idle" /\ seq < 2 * MaxPresses
    /\ key' = [pc |-> "begin", gen |-> published]
    /\ presses' = [presses EXCEPT ![published] = @ + 1]
    /\ UNCHANGED <<now, worker, seq, event>>

\* The sequence is odd while the event is being written.
EventBegin ==
    /\ key.pc = "begin"
    /\ seq' = seq + 1
    /\ key' = [key EXCEPT !.pc = "store"]
    /\ UNCHANGED <<now, worker, event, presses>>

EventStore ==
    /\ key.pc = "store"
    /\ event' = key.gen
    /\ key' = [key EXCEPT !.pc = "end"]
    /\ UNCHANGED <<now, worker, seq, presses>>

EventEnd ==
    /\ key.pc = "end"
    /\ seq' = seq + 1
    /\ key' = [pc |-> "idle", gen |-> 0]
    /\ UNCHANGED <<now, worker, event, presses>>

-----------------------------------------------------------------------------
(* The worker: unlocking and usb_lock *)

\* fv_session_timeout_stop.  Events published so far are discarded.
Stop ==
    /\ timer' = Off
    /\ timerGen' = 0
    /\ consumed' = seq
    /\ remaining' = 0

\* fv_session_unlock: a new generation, whether the credential was right or
\* not.  The menu's job locks first, FIDO verification comes here directly.
Unlock(right, s) ==
    /\ pc \in {"idle", "unlock"} /\ ~unlocked
    /\ gen + 2 <= MaxGeneration
    /\ unlocked' = right
    /\ gen' = gen + 1
    /\ w' = [NoWork EXCEPT !.seconds = s]
    /\ pc' = "opened"
    /\ UNCHANGED <<now, published, timer, timerGen, consumed, remaining, last, renewals, mailbox>>

\* The card of the menu's job does not answer.
UnlockNoCard ==
    /\ pc = "unlock"
    /\ pc' = "idle"
    /\ UNCHANGED <<now, unlocked, gen, published, timer, timerGen, consumed, remaining, w, last,
                   renewals, mailbox>>

\* The bus may have been reset meanwhile: then the session is locked again.
\* FIDO verification also locks after a wrong credential.
PublishOpened ==
    /\ pc = "opened"
    /\ published' = gen
    /\ pc' \in IF unlocked THEN {"start", "revoke"} ELSE {"idle", "revoke"}
    /\ UNCHANGED <<now, unlocked, gen, timer, timerGen, consumed, remaining, w, last, renewals,
                   mailbox>>

\* fv_session_reverify_fido, in an open session: a failure closes it, under
\* a timer that still runs.
Reverify(right) ==
    /\ pc = "idle" /\ unlocked
    /\ right \/ gen + 2 <= MaxGeneration
    /\ unlocked' = right
    /\ gen' = IF right THEN gen ELSE gen + 1
    /\ pc' = "verified"
    /\ UNCHANGED <<now, published, timer, timerGen, consumed, remaining, w, last, renewals,
                   mailbox>>

\* A verification in an open session is activity in it.
PublishVerified ==
    /\ pc = "verified"
    /\ published' = gen
    /\ \/ unlocked /\ pc' = "poll" /\ w' = [NoWork EXCEPT !.at = now, !.gen = gen, !.touch = TRUE]
       \/ pc' = "revoke" /\ UNCHANGED w
    /\ UNCHANGED <<now, unlocked, gen, timer, timerGen, consumed, remaining, last, renewals,
                   mailbox>>

\* usb_timer_start.
TimerStart ==
    /\ pc = "start"
    /\ timerGen' = gen
    /\ consumed' = seq
    /\ timer' = Started(w.seconds, now)
    /\ remaining' = Remaining(timer', now)
    /\ last' = now
    /\ renewals' = 0
    /\ pc' = "idle"
    /\ UNCHANGED <<now, unlocked, gen, published, w, mailbox>>

\* usb_lock, by the user, the host, a bus event or an I/O failure, or at the
\* start of the menu's unlock job.
Lock(opening) ==
    /\ pc = "idle"
    /\ IF opening THEN ~unlocked /\ gen + 3 <= MaxGeneration ELSE gen < MaxGeneration
    /\ w' = [NoWork EXCEPT !.opening = opening]
    /\ pc' = "revoke"
    /\ UNCHANGED <<now, unlocked, gen, published, timer, timerGen, consumed, remaining, last,
                   renewals, mailbox>>

\* The published generation goes first, to revoke queued transport work.
Revoke ==
    /\ pc = "revoke"
    /\ published' = gen + 1
    /\ pc' = "close"
    /\ UNCHANGED <<now, unlocked, gen, timer, timerGen, consumed, remaining, w, last, renewals,
                   mailbox>>

\* The timer is stopped, then fv_session_lock.
Close ==
    /\ pc = "close"
    /\ Stop
    /\ unlocked' = FALSE
    /\ gen' = gen + 1
    /\ w' = NoWork
    /\ pc' = IF w.opening THEN "unlock" ELSE "idle"
    /\ UNCHANGED <<now, published, last, renewals, mailbox>>

-----------------------------------------------------------------------------
(* The worker: fv_session_timeout_poll and fv_session_timeout_activity     *)

\* The clock and the generation are the caller's; FIDO callbacks pass the
\* published one.
Poll(g, touch) ==
    /\ pc = "idle"
    /\ w' = [NoWork EXCEPT !.at = now, !.gen = g, !.touch = touch]
    /\ pc' = "poll"
    /\ UNCHANGED <<now, unlocked, gen, published, timer, timerGen, consumed, remaining, last,
                   renewals, mailbox>>

PollForeign ==
    /\ pc = "poll" /\ w.gen # timerGen
    /\ Stop
    /\ w' = NoWork
    /\ pc' = "idle"
    /\ UNCHANGED <<now, unlocked, gen, published, last, renewals, mailbox>>

\* Expiry precedes pending activity.
PollExpired ==
    /\ pc = "poll" /\ w.gen = timerGen /\ Expired(timer, w.at)
    /\ Stop
    /\ pc' = "revoke"
    /\ UNCHANGED <<now, unlocked, gen, published, w, last, renewals, mailbox>>

PollLive ==
    /\ pc = "poll" /\ w.gen = timerGen /\ ~Expired(timer, w.at)
    /\ pc' = "sequence"
    /\ UNCHANGED <<now, unlocked, gen, published, timer, timerGen, consumed, remaining, w, last,
                   renewals, mailbox>>

\* The end of a poll that found the session alive: renewed by a taken event,
\* then by the caller's own activity.
Finish(taken) ==
    /\ timer' = IF taken \/ w.touch THEN Touched(timer, w.at) ELSE timer
    /\ last' = IF taken \/ w.touch THEN w.at ELSE last
    /\ renewals' = IF taken /\ timer.seconds # 0 THEN renewals + 1 ELSE renewals
    /\ remaining' = Remaining(timer', w.at)
    /\ w' = NoWork
    /\ pc' = "idle"
    /\ UNCHANGED <<now, unlocked, gen, published, timerGen, mailbox>>

\* Mutant of Unstable: a half-written event is taken.
UnstableNever(s) == s = consumed

\* take_local_activity: an odd sequence is an event being written.
Unstable(s) == s % 2 = 1 \/ s = consumed

TakeNothing ==
    /\ pc = "sequence" /\ Unstable(seq)
    /\ Finish(FALSE)
    /\ UNCHANGED consumed

TakeSequence ==
    /\ pc = "sequence" /\ ~Unstable(seq)
    /\ w' = [w EXCEPT !.seq = seq]
    /\ pc' = "event"
    /\ UNCHANGED <<now, unlocked, gen, published, timer, timerGen, consumed, remaining, last,
                   renewals, mailbox>>

TakeEvent ==
    /\ pc = "event"
    /\ w' = [w EXCEPT !.event = event]
    /\ pc' = "again"
    /\ UNCHANGED <<now, unlocked, gen, published, timer, timerGen, consumed, remaining, last,
                   renewals, mailbox>>

\* Core 0 wrote meanwhile: left for the next poll.
TakeChanged ==
    /\ pc = "again" /\ seq # w.seq
    /\ Finish(FALSE)
    /\ UNCHANGED consumed

TakeStable ==
    /\ pc = "again" /\ seq = w.seq
    /\ consumed' = w.seq
    /\ Finish(w.event = w.gen)

-----------------------------------------------------------------------------
Tick == now < MaxTime /\ now' = now + 1 /\ UNCHANGED <<worker, mailbox>>

Init ==
    /\ now = 0
    /\ unlocked = FALSE /\ gen = 0 /\ published = 0
    /\ timer = Off /\ timerGen = 0 /\ consumed = 0 /\ remaining = 0
    /\ seq = 0 /\ event = 0 /\ key = [pc |-> "idle", gen |-> 0]
    /\ pc = "idle" /\ w = NoWork
    /\ last = 0 /\ presses = [g \in Generation |-> 0] /\ renewals = 0

Core0 == Press \/ EventBegin \/ EventStore \/ EventEnd

\* The steps a started call goes through.
Proceed ==
    \/ \E right \in BOOLEAN, s \in Seconds : pc = "unlock" /\ Unlock(right, s)
    \/ UnlockNoCard \/ PublishOpened \/ PublishVerified \/ TimerStart \/ Revoke \/ Close
    \/ PollForeign \/ PollExpired \/ PollLive
    \/ TakeNothing \/ TakeSequence \/ TakeEvent \/ TakeChanged \/ TakeStable

\* The worker loop polls between commands.
IdlePoll == Poll(gen, FALSE)

Worker ==
    \/ Proceed \/ IdlePoll
    \/ \E opening \in BOOLEAN : Lock(opening)
    \/ \E right \in BOOLEAN : Reverify(right)
    \/ \E right \in BOOLEAN, s \in Seconds : pc = "idle" /\ Unlock(right, s)
    \/ \E touch \in BOOLEAN : Poll(published, touch)

Next == Core0 \/ Worker \/ Tick

Spec == Init /\ [][Next]_vars

\* Time passes, and the worker runs: it finishes its calls and polls again
\* and again.  Nothing is assumed of the user or of the host.
FairSpec == Spec /\ WF_vars(Tick) /\ WF_vars(Proceed) /\ WF_vars(IdlePoll)

-----------------------------------------------------------------------------
(* Properties *)

TimerType == [seconds : Seconds \cup {0}, deadline : Time]
WorkType == [at : Time, gen : Generation, touch : BOOLEAN, seq : 0 .. 2 * MaxPresses,
             event : Generation, seconds : Seconds \cup {0}, opening : BOOLEAN]

\* Clock, session, timer and mailbox keep their types; the deadline stays on
\* the clock and no more than the whole interval is shown as remaining.
TypeOK ==
    /\ now \in Time /\ last \in Time
    /\ unlocked \in BOOLEAN
    /\ gen \in Generation /\ published \in Generation /\ timerGen \in Generation
    /\ timer \in TimerType
    /\ seq \in 0 .. 2 * MaxPresses /\ consumed \in 0 .. 2 * MaxPresses
    /\ remaining \in 0 .. timer.seconds
    /\ event \in Generation
    /\ key \in [pc : {"idle", "begin", "store", "end"}, gen : Generation]
    /\ pc \in {"idle", "unlock", "opened", "verified", "start", "revoke", "close",
              "poll", "sequence", "event", "again"}
    /\ w \in WorkType
    /\ presses \in [Generation -> 0 .. MaxPresses]
    /\ renewals \in 0 .. MaxPresses

\* A session is renewed at most once by each press made in it, however the
\* cores interleave: no event is taken twice, half-written, or from an
\* earlier session.
RenewedByOwnPresses == pc = "idle" /\ unlocked => renewals <= presses[gen]

\* Every deadline is either moved by activity or enforced, and not early:
\* expiry locks only after the whole interval without activity, or at the end
\* of the clock.
NotEarly ==
    pc = "poll" /\ pc' = "revoke" =>
        w.at = MaxTime \/ w.at >= last + Duration(timer.seconds)
DeadlineEnforced ==
    /\ [][NotEarly]_vars
    /\ \A d \in Time :
          (unlocked /\ timer.seconds # 0 /\ timer.deadline = d) ~>
              (~unlocked \/ timer.deadline # d)
=============================================================================
