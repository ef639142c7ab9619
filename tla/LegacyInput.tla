----------------------------- MODULE LegacyInput -----------------------------
(***************************************************************************)
(* The buttons of the first-generation firmware (input.c) under the main   *)
(* loop: every pass samples the pins once and takes the buttons one after  *)
(* the other; an event may change the screen, and with it the map of       *)
(* buttons, before the next button is looked at.                           *)
(*                                                                         *)
(* Time is not followed: whether a sample has been steady long enough, and *)
(* whether the next repeat is due, are choices.  A map is the set of       *)
(* buttons it enables and the set of those that repeat; the event bound to *)
(* a button is the button.                                                 *)
(***************************************************************************)
EXTENDS Integers

CONSTANTS ButtonCount,     \* FV_INPUT_COUNT
          Map,         \* maps the screens have
          MaxScreens   \* bound: changes of the map

ASSUME InputAssumption == ButtonCount \in Nat \ {0} /\ MaxScreens \in Nat

VARIABLES pins,      \* what is physically held
          buttons,   \* sampled_pressed, stable_pressed, blocked_until_release
          map,       \* fv_input_controller_t.map
          pass,      \* the update under way: [at, mask], at = 0 when there is none
          screens,   \* changes of the map so far
          began,     \* per button: screens when its press became stable
          sent       \* the last event: its button, screens then, began then

ivars == <<pins, buttons, map, pass, screens, began, sent>>

Button == 1..ButtonCount
NoMap == [enabled |-> {}, repeats |-> {}]
Waiting == [at |-> 0, mask |-> {}]

\* fv_input_controller_init: a button that is held then is not a press
Controller(held) ==
  [b \in Button |-> [sampled |-> b \in held, stable |-> b \in held, blocked |-> b \in held]]

IInit ==
  /\ pins \in SUBSET Button /\ buttons = Controller(pins) /\ map = NoMap /\ pass = Waiting
  /\ screens = 0 /\ began = [b \in Button |-> 0] /\ sent = [button |-> 0, at |-> 0, of |-> 0]

\* Mutant: what is held stays a press across a change of the map.
KeptHeld(bs, next) == bs

\* fv_input_controller_set_map: with another map nothing held counts any more
Blocked(bs, next) ==
  [b \in Button |-> [bs[b] EXCEPT !.blocked = @ \/ (next # map /\ bs[b].stable)]]
SetMap(bs, next) ==
  /\ buttons' = Blocked(bs, next) /\ map' = next
  /\ IF next = map THEN UNCHANGED screens
     ELSE screens < MaxScreens /\ screens' = screens + 1

MovePins ==
  /\ \E b \in Button : pins' = IF b \in pins THEN pins \ {b} ELSE pins \cup {b}
  /\ UNCHANGED <<buttons, map, pass, screens, began, sent>>

\* An event that did not come from the buttons changes the screen.
ChangeScreen ==
  /\ pass = Waiting /\ \E next \in Map \ {map} : SetMap(buttons, next)
  /\ UNCHANGED <<pins, pass, began, sent>>

\* fido_presence is over: the controller starts again, on the same screen
Consume ==
  /\ pass = Waiting /\ screens < MaxScreens
  /\ buttons' = Controller(pins) /\ screens' = screens + 1
  /\ UNCHANGED <<pins, map, pass, began, sent>>

\* fv_input_controller_update, one button after the other
BeginUpdate ==
  /\ pass = Waiting /\ pass' = [at |-> 1, mask |-> pins]
  /\ UNCHANGED <<pins, buttons, map, screens, began, sent>>

\* emit_binding: the event may change the map under the update's feet
Emit(b, bs) ==
  /\ sent' = [button |-> b, at |-> screens, of |-> began'[b]]
  /\ \E next \in Map \cup {map} : SetMap(bs, next)
Silent(bs) == buttons' = bs /\ UNCHANGED <<map, screens, sent>>

\* A sample is steady when it has not changed for debounce_ms.
Update ==
  /\ pass # Waiting
  /\ LET b == pass.at
         was == buttons[b]
         bs == [buttons EXCEPT ![b].sampled = b \in pass.mask]
         turned == [bs EXCEPT ![b].stable = ~was.stable, ![b].blocked = FALSE]
     IN \/ /\ was.sampled = bs[b].sampled /\ was.stable # was.sampled     \* steady
           /\ began' = IF was.stable THEN began ELSE [began EXCEPT ![b] = screens]
           /\ IF ~was.stable /\ b \in map.enabled THEN Emit(b, turned) ELSE Silent(turned)
        \/ /\ was.stable /\ ~was.blocked /\ b \in map.repeats            \* due
           /\ UNCHANGED began /\ Emit(b, bs)
        \/ Silent(bs) /\ UNCHANGED began
  /\ pass' = IF pass.at = ButtonCount THEN Waiting ELSE [pass EXCEPT !.at = @ + 1]
  /\ UNCHANGED pins

INext == MovePins \/ ChangeScreen \/ Consume \/ BeginUpdate \/ Update
ISpec == IInit /\ [][INext]_ivars

\* A press acts on one screen only: a button that is still held when the map
\* changes, or when an approval is over, is not repeated into the next screen,
\* whichever button's event changed it in the middle of an update.
HeldNotCarried == sent.at = sent.of
=============================================================================
