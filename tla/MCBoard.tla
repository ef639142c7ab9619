------------------------------ MODULE MCBoard ------------------------------
(***************************************************************************)
(* Three parts of the firmware that depend on time and on the user alone,  *)
(* for TLC: the session timer, the connector switch and the card driver.   *)
(* They share no state; a behaviour here is one of one of the three, the   *)
(* others resting as they start.                                           *)
(***************************************************************************)
EXTENDS SessionTimeout, UsbMux, CardDriver

VARIABLE part   \* the module that is followed
mcvars == <<part, vars, mvars, cvars>>

MuxRests ==
  /\ power = {} /\ plugs = 0
  /\ mux = [selected |-> "none", candidate |-> "none", stable |-> 0, waiting |-> 0]
  /\ data = [enabled |-> FALSE, select |-> "C", connected |-> FALSE]
CardRests ==
  /\ detect = FALSE /\ slot = [card |-> NoCard, live |-> FALSE] /\ sd = Uninitialized
  /\ used = FALSE /\ session = NoCard /\ step = At("idle") /\ moves = 0

MCInit ==
  /\ part \in {"timer", "mux", "card"}
  /\ Init
  /\ IF part = "mux" THEN MuxInit ELSE MuxRests
  /\ IF part = "card" THEN CInit ELSE CardRests
MCNext ==
  \/ part = "timer" /\ Next /\ UNCHANGED <<part, mvars, cvars>>
  \/ part = "mux" /\ MuxNext /\ UNCHANGED <<part, vars, cvars>>
  \/ part = "card" /\ CNext /\ UNCHANGED <<part, vars, mvars>>

\* The fairness of the part that is followed: FairSpec of SessionTimeout and
\* MuxSpec of UsbMux.
Fairness ==
  /\ WF_vars(part = "timer" /\ Tick)
  /\ WF_vars(part = "timer" /\ Proceed)
  /\ WF_vars(part = "timer" /\ IdlePoll)
  /\ WF_mvars(part = "mux" /\ MuxPoll)
  /\ WF_mvars(part = "mux" /\ TimePasses)
MCSpec == MCInit /\ [][MCNext]_mcvars /\ Fairness
=============================================================================
