-------------------------- MODULE FidoVerification --------------------------
(***************************************************************************)
(* Reuse of a user verification by later FIDO requests (verification.c and *)
(* verify in fido_adapter.c).  The code keeps time as a 32-bit count of    *)
(* milliseconds; the specification also keeps the true age.                *)
(***************************************************************************)
EXTENDS Integers

CONSTANTS Wrap,       \* the code's clock counts modulo this (2^32)
          Start,      \* FV_FIDO_UV_START_MS, below Complete
          Complete,   \* FV_FIDO_UV_COMPLETE_MS, below Wrap
          Sites,      \* relying parties
          MaxTime     \* bound on the time an observation takes

VARIABLES time, open, policy, v, true_at, broken

vars == <<time, open, policy, v, true_at, broken>>

NoSite == "none"
Now == time % Wrap

\* fv_fido_verification_clear, fv_fido_verification_begin.
Clear == [valid |-> FALSE, at |-> 0, started |-> FALSE, rp |-> NoSite]
Begin == [Clear EXCEPT !.valid = TRUE, !.at = Now]

\* fv_fido_verification_use_policy: is the verification s good for site rp?
Age(s) == (Now - s.at) % Wrap
Usable(s, rp) ==
    /\ s.valid
    /\ \/ policy = "session"
       \/ /\ Age(s) < Complete
          /\ s.started \/ Age(s) < Start
          /\ rp = NoSite \/ s.rp \in {NoSite, rp}
Used(s, rp) ==
    IF policy = "session" THEN s
    ELSE [s EXCEPT !.started = TRUE, !.rp = IF @ = NoSite THEN rp ELSE @]

Init ==
    /\ time = 0 /\ open = FALSE /\ policy \in {"strict", "session"} /\ v = Clear
    /\ true_at = 0 /\ broken = FALSE

Tick ==
    /\ time < MaxTime
    /\ time' = time + 1
    /\ UNCHANGED <<open, policy, v, true_at, broken>>

\* The user unlocks the vault on the device (fv_fido_unlocked).
Unlock ==
    /\ ~open
    /\ open' = TRUE /\ v' = Begin /\ true_at' = time
    /\ UNCHANGED <<time, policy, broken>>

\* fv_fido_close.
Lock ==
    /\ open
    /\ open' = FALSE /\ v' = Clear
    /\ UNCHANGED <<time, policy, true_at, broken>>

\* fv_fido_policy_set.
PolicySet(p) ==
    /\ open
    /\ policy' = p /\ v' = Clear
    /\ UNCHANGED <<time, open, true_at, broken>>

\* verify, when the saved verification is good for the request.
Reuse(rp) ==
    /\ open /\ Usable(v, rp)
    /\ v' = Used(v, rp)
    /\ broken' = (broken \/ (policy = "strict" /\ time - true_at >= Complete))
    /\ UNCHANGED <<time, open, policy, true_at>>

\* verify, when it is not: the user enters the credential, is wrong, which
\* closes the session, or does not answer.
Ask(rp, outcome) ==
    /\ open => ~Usable(v, rp)
    /\ v' = IF outcome = "right" THEN Used(Begin, rp) ELSE Clear
    /\ open' = (outcome = "right" \/ (outcome = "silent" /\ open))
    /\ true_at' = IF outcome = "right" THEN time ELSE true_at
    /\ UNCHANGED <<time, policy, broken>>

Next ==
    \/ Tick \/ Unlock \/ Lock
    \/ \E p \in {"strict", "session"} : PolicySet(p)
    \/ \E rp \in Sites \cup {NoSite} :
        Reuse(rp) \/ \E outcome \in {"right", "wrong", "silent"} : Ask(rp, outcome)

Spec == Init /\ [][Next]_vars

\* Under the strict policy nobody reuses a verification ten minutes after it
\* was made (docs/FIDO2.md: "expires ten minutes after verification").
StrictExpires == ~broken
=============================================================================
