------------------------------- MODULE UsbMux -------------------------------
(***************************************************************************)
(* The connector switch (usb_mux.c): core 0 polls which of two connectors  *)
(* has power, waits until the answer has been the same for a while, takes  *)
(* the device off the bus and puts it back on the other connector after a  *)
(* delay.  Instants are kept as the time that has passed since, which is   *)
(* all the code compares.                                                  *)
(***************************************************************************)
EXTENDS Naturals

CONSTANTS Debounce,    \* USB_PRESENCE_DEBOUNCE_US
          Delay,       \* USB_RECONNECT_DELAY_US
          MaxPlugs     \* bound: changes of the cables

ASSUME MuxAssumption == Debounce \in Nat \ {0} /\ Delay \in Nat \ {0} /\ MaxPlugs \in Nat

VARIABLES power,   \* the connectors that have power
          mux,     \* [selected, candidate, stable, waiting]: the statics of
                   \* fv_usb_mux_poll, as times passed; waiting is 0 when
                   \* reconnect_at_us is
          data,    \* [enabled, select, connected]: the pins and TinyUSB
          plugs

mvars == <<power, mux, data, plugs>>

MuxInit ==
  /\ power \in SUBSET {"C", "A"}
  /\ mux = [selected |-> "none", candidate |-> "none", stable |-> 0, waiting |-> 0]
  /\ data \in [enabled : {FALSE}, select : {"C"}, connected : BOOLEAN]
  /\ plugs = 0

PreferredPort == IF "C" \in power THEN "C" ELSE IF "A" \in power THEN "A" ELSE "none"

\* Mutant: the wait begins again at every poll that differs from the selection.
SensedAgain(m) ==
  IF PreferredPort # m.selected THEN [m EXCEPT !.candidate = PreferredPort, !.stable = 0]
  ELSE [m EXCEPT !.candidate = PreferredPort]

\* The candidate and the time it has been sensed.
Sensed(m) ==
  IF PreferredPort # m.candidate THEN [m EXCEPT !.candidate = PreferredPort, !.stable = 0] ELSE m

Switches(m) == m.candidate # m.selected /\ m.stable >= Debounce

\* Off the bus, then to the other connector; waiting counts from 1.
Switched(m) == [m EXCEPT !.selected = m.candidate, !.waiting = 1]
Reconnects(m) == m.waiting > Delay

\* fv_usb_mux_poll
MuxPoll ==
  LET m == Sensed(mux)
      n == IF Switches(m) THEN Switched(m) ELSE m
      off == [enabled |-> FALSE, select |-> IF m.candidate = "A" THEN "A" ELSE "C",
              connected |-> FALSE]
      d == IF Switches(m) THEN off ELSE data
  IN /\ mux' = IF Reconnects(n) THEN [n EXCEPT !.waiting = 0] ELSE n
     /\ data' = IF Reconnects(n) /\ n.selected # "none"
                THEN [d EXCEPT !.enabled = TRUE, !.connected = TRUE] ELSE d
     /\ UNCHANGED <<power, plugs>>

\* Time passes; what is beyond the two delays makes no difference.
TimePasses ==
  /\ mux' = [mux EXCEPT !.stable = IF @ < Debounce THEN @ + 1 ELSE @,
                        !.waiting = IF @ \in 1..Delay THEN @ + 1 ELSE @]
  /\ UNCHANGED <<power, data, plugs>>

\* The user plugs or unplugs a cable.
Plug ==
  /\ plugs < MaxPlugs /\ plugs' = plugs + 1
  /\ \E p \in SUBSET {"C", "A"} \ {power} : power' = p
  /\ UNCHANGED <<mux, data>>

MuxNext == MuxPoll \/ TimePasses \/ Plug

\* The main loop polls again and again and time passes between two polls;
\* nothing is assumed of the cables.
MuxSpec == MuxInit /\ [][MuxNext]_mvars /\ WF_mvars(MuxPoll) /\ WF_mvars(TimePasses)

\* Whatever happened to the cables before, once they rest the device ends on
\* the bus of the preferred connector, with the data path to that connector,
\* or with the data path off when neither has power.
EndsOnPreferred ==
  \A port \in {"C", "A", "none"} :
    <>[](PreferredPort = port) =>
      <>[](/\ data.enabled = (port # "none")
           /\ data.enabled => data.connected /\ data.select = port)
=============================================================================
