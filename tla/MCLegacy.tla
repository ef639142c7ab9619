------------------------------ MODULE MCLegacy ------------------------------
(***************************************************************************)
(* The first-generation firmware for TLC.  LegacyDevice abstracts from its *)
(* journal, its passkey store, its CTAPHID transport, its buttons and its  *)
(* secret pickers, which have modules of their own and share no state with *)
(* it; a behaviour here is one of one of the six, the others resting as    *)
(* they start.                                                             *)
(***************************************************************************)
EXTENDS LegacyDevice, LegacyJournal, LegacyBlock, LegacyInput, LegacyEntry,
        LegacyProbe

CONSTANT Part

VARIABLE part   \* the module that is followed
mcvars == <<part, vars, jvars, bvars, ivars, evars, pvars>>

MCCard == {[super |-> [i \in 0..1 |-> s], head |-> [i \in 0..1 |-> Blank]] : s \in {Blank, Garbage}}
MCImage == [Sector -> {"u", "v"}]
MCMap == {[enabled |-> {1, 2}, repeats |-> {1}], [enabled |-> {1, 2}, repeats |-> {}],
          [enabled |-> {2}, repeats |-> {2}]}

DeviceRests ==
  /\ New /\ app = Off /\ cmds = {} /\ next = {} /\ turns = 0 /\ step = "" /\ vid = NoVault
  /\ card = CHOOSE c \in Card : TRUE
  /\ staged = NoHeader /\ sd = SdOff /\ slot = "raw" /\ usb = UsbOff /\ cable = "none"
  /\ con = NoRoute /\ keys = NoKeys /\ fido = NoFido /\ guesses = 0 /\ disowned = FALSE /\ faults = 0
JournalRests ==
  page = [p \in Page |-> Erased] /\ writing = Resting /\ known = 0 /\ mishaps = 0
InputRests ==
  /\ pins = {} /\ buttons = Controller(pins) /\ map = NoMap /\ pass = Waiting
  /\ screens = 0 /\ began = [b \in Button |-> 0] /\ sent = [button |-> 0, at |-> 0, of |-> 0]
EntryRests == entry = BeginEntryOf("DIRECTIONS") /\ handled = "CHANGED"

MCInit ==
  /\ part \in Part
  /\ IF part = "device" THEN Init ELSE DeviceRests
  /\ IF part = "journal" THEN JInit ELSE JournalRests
  /\ BInit
  /\ IF part = "input" THEN IInit ELSE InputRests
  /\ IF part = "entry" THEN EInit ELSE EntryRests
  /\ PInit

MCNext ==
  \/ part = "device" /\ Next /\ UNCHANGED <<part, jvars, bvars, ivars, evars, pvars>>
  \/ part = "journal" /\ JNext /\ UNCHANGED <<part, vars, bvars, ivars, evars, pvars>>
  \/ part = "blocks" /\ BNext /\ UNCHANGED <<part, vars, jvars, ivars, evars, pvars>>
  \/ part = "input" /\ INext /\ UNCHANGED <<part, vars, jvars, bvars, evars, pvars>>
  \/ part = "entry" /\ ENext /\ UNCHANGED <<part, vars, jvars, bvars, ivars, pvars>>
  \/ part = "probe" /\ PNext /\ UNCHANGED <<part, vars, jvars, bvars, ivars, evars>>
MCSpec == MCInit /\ [][MCNext]_mcvars
=============================================================================
