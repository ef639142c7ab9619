----------------------------- MODULE LegacyEntry -----------------------------
(***************************************************************************)
(* The four ways to enter a secret in the first-generation firmware        *)
(* (secret_input.c): number wheels, a sequence of directions, a keypad and *)
(* a list of words, each word chosen by three turns.  EntryHandle is       *)
(* fv_secret_entry_handle; LegacyDevice keeps of it only that an entry is  *)
(* completed or left empty.                                                *)
(*                                                                         *)
(* A key is SELECT, BACK or a direction, numbered as the code numbers them *)
(* when they are a value: up, right, down, left.                           *)
(***************************************************************************)
EXTENDS Integers, SequencesExt

CONSTANTS Wheels, WheelValues,   \* FV_SECRET_WHEEL_COUNT, FV_SECRET_WHEEL_VALUES
          MinTurns, MaxTurns,    \* DIRECTION_MIN_LENGTH, FV_SECRET_DIRECTION_MAX
          MinPin, MaxPin,        \* KEYPAD_MIN_LENGTH, FV_SECRET_KEYPAD_MAX
          Words,                 \* FV_SECRET_WORD_COUNT
          WordWays               \* bound: directions used in the word list

ASSUME WheelAssumption == Wheels \in Nat \ {0} /\ WheelValues \in Nat \ {0}
ASSUME LengthAssumption == {MinTurns, MaxTurns, MinPin, MaxPin} \subseteq Nat
ASSUME WordAssumption == Words \in Nat \ {0} /\ WordWays \in 0..Words

VARIABLES entry,     \* fv_secret_entry_t
          handled    \* what fv_secret_entry_handle returned last

evars == <<entry, handled>>

Up == 0
Right == 1
Down == 2
Left == 3
Way == 0..3
SelectKey == 4
BackKey == 5
EmptyWord == 255

Answered(e, r) == [entry |-> e, handled |-> r]
Changed(e) == Answered(e, "CHANGED")
Ignored(e) == Answered(e, "IGNORED")
Complete(e) == Answered(e, "COMPLETE")
Step(n, forward, size) == (n + (IF forward THEN 1 ELSE size - 1)) % size

\* fv_secret_entry_begin
BeginEntryOf(method) ==
  CASE method = "WHEELS" ->
         [method |-> method, values |-> [i \in 0..(Wheels - 1) |-> 0], selected |-> 0]
    [] method = "DIRECTIONS" -> [method |-> method, values |-> <<>>]
    [] method = "KEYPAD" -> [method |-> method, values |-> <<>>, selected |-> 0]
    [] method = "WORD_LIST" ->
         [method |-> method, values |-> [i \in 0..(Words - 1) |-> EmptyWord], selected |-> 0,
          depth |-> 0, prefix |-> 0, reviewing |-> FALSE]

HandleWheels(e, key) ==
  CASE key \in {Left, Right} -> Changed([e EXCEPT !.selected = Step(@, key = Right, Wheels)])
    [] key \in {Up, Down} ->
         Changed([e EXCEPT !.values[e.selected] = Step(@, key = Up, WheelValues)])
    [] key = SelectKey -> Complete(e)
    [] OTHER -> Ignored(e)

HandleDirections(e, key) ==
  CASE key = BackKey /\ e.values # <<>> -> Changed([e EXCEPT !.values = Front(@)])
    [] key = SelectKey /\ Len(e.values) >= MinTurns -> Complete(e)
    [] key \in Way ->
         Changed(IF Len(e.values) < MaxTurns THEN [e EXCEPT !.values = Append(@, key)] ELSE e)
    [] OTHER -> Ignored(e)

\* keypad_value: three rows of four cells; 10 erases, 11 ends
KeypadValue == <<1, 2, 3, 10, 4, 5, 6, 0, 7, 8, 9, 11>>
HandleKeypad(e, key) ==
  LET row == e.selected \div 4
      column == e.selected % 4
      value == KeypadValue[e.selected + 1]
      erased == IF e.values = <<>> THEN e ELSE [e EXCEPT !.values = Front(@)]
  IN CASE key \in {Left, Right} ->
            Changed([e EXCEPT !.selected = row * 4 + Step(column, key = Right, 4)])
       [] key \in {Up, Down} ->
            Changed([e EXCEPT !.selected = Step(row, key = Down, 3) * 4 + column])
       [] key = BackKey /\ e.values # <<>> -> Changed(erased)
       [] key = SelectKey ->
            IF value = 11 /\ Len(e.values) >= MinPin THEN Complete(e)
            ELSE Changed(IF value = 10 THEN erased
                         ELSE IF value < 10 /\ Len(e.values) < MaxPin
                         THEN [e EXCEPT !.values = Append(@, value)] ELSE e)
       [] OTHER -> Ignored(e)

WordsComplete(e) == \A i \in DOMAIN e.values : e.values[i] < 64

\* Mutant: an undone turn stays in the prefix.
WordsBackPrefix(e) ==
  IF e.depth > 0 THEN Changed([e EXCEPT !.depth = @ - 1]) ELSE Ignored(e)

\* BACK undoes a turn, an edit, or the word before
WordsBack(e) ==
  CASE e.depth > 0 -> Changed([e EXCEPT !.depth = @ - 1, !.prefix = @ \div 4])
    [] e.depth = 0 /\ ~e.reviewing /\ WordsComplete(e) ->
         Changed([e EXCEPT !.reviewing = TRUE])
    [] e.depth = 0 /\ (e.reviewing \/ (e.selected > 0 /\ ~WordsComplete(e))) ->
         LET at == IF e.reviewing THEN Words - 1 ELSE e.selected - 1
         IN Changed([e EXCEPT !.selected = at, !.values[at] = EmptyWord, !.reviewing = FALSE])
    [] OTHER -> Ignored(e)

\* The third turn chooses the word; then the first one that is missing.
NextMissing(e) ==
  IF WordsComplete(e) THEN [e EXCEPT !.reviewing = TRUE]
  ELSE [e EXCEPT !.selected = CHOOSE i \in DOMAIN e.values :
                     e.values[i] = EmptyWord /\ \A j \in 0..(i - 1) : e.values[j] # EmptyWord]

HandleWords(e, key) ==
  CASE key = BackKey -> WordsBack(e)
    [] key = SelectKey -> IF e.reviewing /\ WordsComplete(e) THEN Complete(e) ELSE Ignored(e)
    [] key \in Way ->
         Changed(IF e.reviewing THEN [e EXCEPT !.selected = key, !.reviewing = FALSE]
                 ELSE IF e.depth < 2
                 THEN [e EXCEPT !.prefix = @ * 4 + key, !.depth = @ + 1]
                 ELSE NextMissing([e EXCEPT !.values[e.selected] = e.prefix * 4 + key,
                                            !.prefix = 0, !.depth = 0]))

\* fv_secret_entry_handle
EntryHandle(e, key) ==
  CASE e.method = "WHEELS" -> HandleWheels(e, key)
    [] e.method = "DIRECTIONS" -> HandleDirections(e, key)
    [] e.method = "KEYPAD" -> HandleKeypad(e, key)
    [] e.method = "WORD_LIST" -> HandleWords(e, key)

EInit ==
  /\ entry \in {BeginEntryOf(m) : m \in {"WHEELS", "DIRECTIONS", "KEYPAD", "WORD_LIST"}}
  /\ handled = "CHANGED"

PressKey ==
  \E key \in Way \cup {SelectKey, BackKey} :
    /\ entry.method = "WORD_LIST" /\ key \in Way => key < WordWays
    /\ entry' = EntryHandle(entry, key).entry
    /\ handled' = EntryHandle(entry, key).handled
ENext == PressKey
ESpec == EInit /\ [][ENext]_evars

\* An entry of the word list: no sequence of turns, undone turns and edits
\* leaves the table of 64 words or the review of incomplete words, and a word
\* that was chosen is overwritten only by an edit begun in the review.
WordsSound ==
  entry.method = "WORD_LIST" =>
    /\ entry.prefix < 4 ^ entry.depth /\ entry.depth <= 2
    /\ entry.reviewing => WordsComplete(entry) /\ entry.depth = 0
    /\ ~WordsComplete(entry) => entry.values[entry.selected] = EmptyWord
=============================================================================
