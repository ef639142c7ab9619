------------------------------- MODULE LegacySd -------------------------------
(***************************************************************************)
(* The SD driver of the first-generation firmware (rp2354_sd.c) as         *)
(* operators on its flags.  slot is the socket: "none", "raw" (a card that *)
(* has not been initialised since it was inserted) or "live".  A card only *)
(* answers data commands when it is live, whatever the driver believes.    *)
(***************************************************************************)
EXTENDS Naturals

SdOff == [initialized |-> FALSE, physical |-> FALSE,
          insertion |-> FALSE, removal |-> FALSE, failure |-> FALSE]

\* mark_not_ready: one event per loss of a card that was in use
MarkNotReady(sd, slot, failed) ==
  [sd EXCEPT !.initialized = FALSE,
             !.removal = @ \/ (sd.initialized /\ slot = "none"),
             !.failure = @ \/ (sd.initialized /\ slot # "none" /\ failed)]

\* initialize_card; ok says whether the card answered every command
InitializeCard(sd, slot, ok) ==
  [sd EXCEPT !.initialized = ok /\ slot # "none", !.removal = FALSE]

\* fv_rp2354_sd_init
SdInit(slot, ok) ==
  LET sd == InitializeCard([SdOff EXCEPT !.physical = slot # "none"], slot, ok)
  IN [sd EXCEPT !.failure = slot # "none" /\ ~sd.initialized]

\* fv_rp2354_sd_poll
SdPoll(sd, slot, ok) ==
  CASE sd.initialized /\ slot = "none" ->
         [MarkNotReady(sd, slot, FALSE) EXCEPT !.physical = FALSE]
    [] ~sd.initialized /\ slot = "none" -> [sd EXCEPT !.physical = FALSE]
    [] ~sd.initialized /\ slot # "none" /\ ~sd.physical ->
         LET up == InitializeCard([sd EXCEPT !.physical = TRUE], slot, ok)
         IN [up EXCEPT !.insertion = @ \/ up.initialized, !.failure = @ \/ ~up.initialized]
    [] OTHER -> sd

\* The poll that would bring a newly inserted card up.
PollInitializes(sd, slot) == ~sd.initialized /\ slot # "none" /\ ~sd.physical

IsPresent(sd, slot) == sd.initialized /\ slot # "none"

\* read_blocks, write_blocks and sync_blocks: whether the transfer can succeed,
\* and the driver after one that did not
CanTransfer(sd, slot) == sd.initialized /\ slot = "live"
FailedTransfer(sd, slot) ==
  IF sd.initialized THEN MarkNotReady(sd, slot, slot # "none") ELSE sd
=============================================================================
