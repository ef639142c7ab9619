------------------------------ MODULE MCVault ------------------------------
(* Two credentials and one policy of each kind.  A third header is sealed  *)
(* only on a card left alone, for a new credential under the policy in     *)
(* force.                                                                  *)
EXTENDS Vault, TLC

CONSTANTS right, other

MCSecret == {right, other}
MCPolicy == {[max |-> 2, action |-> "DESTROY"], [max |-> 1, action |-> "LOCKOUT"],
             [max |-> 0, action |-> "NONE"]}

Again == ~altered /\ call'.op = "change" /\ call'.policy = anchor.policy
MCNext ==
    /\ Next
    /\ pc = "idle" /\ call'.op \in {"create", "change"} /\ Newest = 2 => Again
MCSpec == Init /\ [][MCNext]_vars /\ WF_state(Progress) /\ WF_state(Recover)
=============================================================================
