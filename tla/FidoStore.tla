----------------------------- MODULE FidoStore -----------------------------
(***************************************************************************)
(* The storage of FIDO credentials (store.c): the two-bank image store of  *)
(* the older firmware, the redo journal that replaced it, and the          *)
(* migration from one to the other.  They share one region of the card:    *)
(* the journal's home sectors lie over both banks, and the copy a          *)
(* migration works from lies over the journal's record slots.              *)
(*                                                                         *)
(* A call is a list of steps; each writes some sectors and then syncs.     *)
(* Before the sync a sector may come back old, new or unauthentic (None).  *)
(***************************************************************************)
EXTENDS Integers, Sequences, FiniteSets, FiniteSetsExt

CONSTANTS Sectors,       \* J_DATA
          RecordSlots,   \* 128
          CacheSlots,    \* 8
          Values,        \* what a client writes to a sector
          Blank,         \* 0xff
          Policy,        \* the record a reset may keep
          None,          \* fails its check
          MaxSequence,   \* UINT64_MAX
          MaxCalls,      \* bound on writes, commits and resets in one behaviour
          MaxFaults      \* bound on failures and power cuts

ASSUME RegionGeometry == Sectors \in Nat \ {0} /\ RecordSlots \in Nat \ {0} /\ CacheSlots \in Nat \ {0}
ASSUME RegionBounds == MaxSequence \in Nat /\ MaxCalls \in Nat /\ MaxFaults \in Nat
ASSUME RegionValues == Blank # Policy /\ Blank \notin Values /\ Policy \notin Values

VARIABLES card,          \* [now, may]: each sector, and what it may be after a cut
          era,           \* "images" (older firmware) or "journal"
          store,         \* the open store
          pc, phase,     \* the step of the running call: "write", then "sync"
          job,           \* its arguments
          calls, faults,
          view,          \* history: what the open transaction should read
          allowed        \* history: what a restart may find

history == <<view, allowed>>
svars == <<card, era, store, pc, phase, job, calls, faults, history>>

Data == 0 .. Sectors - 1
Plain == Values \cup {Blank, Policy}
Image == [Data -> Plain]
D(x) == <<"data", x>>
Tag == <<"tag", 0>>
Slot(k) == <<"slot", k>>
Control(i) == <<"control", i>>
Source == <<"source", 0>>
Manifest(b) == <<"manifest", b>>
Bank(b) == <<"bank", b>>
Home == {D(x) : x \in Data} \cup {Tag}
Banks == {Manifest(b) : b \in 0 .. 1} \cup {Bank(b) : b \in 0 .. 1}
Records == {Slot(k) : k \in 1 .. RecordSlots}
Address == Home \cup Banks \cup Records \cup {Control(0), Control(1), Source}

\* What the sectors hold.
States == {"CLEAN", "READY", "RESET", "MIGRATE"}
SlotRecord == [seq : Nat, target : Home, value : Plain \cup Image]
ControlRecord ==
    [seq : Nat, state : States, records : SUBSET [target : Home, value : Plain \cup Image],
     policy : {Blank, Policy}, image : Image]
ManifestRecord == [gen : Nat, image : Image]

ASSUME RegionAuthentic ==
    None \notin Plain \cup Image \cup SlotRecord \cup ControlRecord \cup ManifestRecord

Erased(policy) == [x \in Data |-> IF x = 0 THEN policy ELSE Blank]
NoEntry == [lba |-> -1, value |-> None]
Empty == [k \in 0 .. CacheSlots - 1 |-> NoEntry]
Closed == [st |-> "closed", seq |-> 0, bank |-> 0, targets |-> <<>>, cache |-> Empty]
NoJob == [policy |-> Blank, image |-> Erased(Blank), bank |-> 0, gen |-> 0]

-----------------------------------------------------------------------------
(* The card *)

Written(new) ==
    [now |-> [a \in Address |-> IF a \in DOMAIN new THEN new[a] ELSE card.now[a]],
     may |-> [a \in Address |-> card.may[a] \cup IF a \in DOMAIN new THEN {new[a], None} ELSE {}]]

Synced == [now |-> card.now, may |-> [a \in Address |-> {card.now[a]}]]

Dirty == {a \in Address : card.may[a] # {card.now[a]}}

\* The contents a restart may find: one choice for each sector.
MayRemain(c) == c = [a \in Address |-> c[a]] /\ \A a \in Address : c[a] \in card.may[a]

\* Built from the few sectors that are not settled.
Combinations == FoldSet(LAMBDA a, C : {[c EXCEPT ![a] = x] : c \in C, x \in card.may[a]}, {card.now}, Dirty)
Outcomes == {c \in Combinations : MayRemain(c)}

-----------------------------------------------------------------------------
(* Reading the region *)

\* j_control_scan: the newest authentic control sector.
Found(c) == {i \in 0 .. 1 : c[Control(i)] # None}
Newest(c) == c[Control(CHOOSE i \in Found(c) : \A j \in Found(c) : c[Control(j)].seq <= c[Control(i)].seq)]

\* The image in the home sectors, every sector agreeing with its tag.
Content(c) ==
    IF c[Tag] # None /\ \A x \in Data : c[D(x)] = c[Tag][x] THEN c[Tag] ELSE None

\* j_digest, and the comparison with the digest in the control sector.
Entries(c, seq, n) ==
    {[target |-> c[Slot(k)].target, value |-> c[Slot(k)].value] :
        k \in {k \in 1 .. n : c[Slot(k)] # None /\ c[Slot(k)].seq = seq}}
Replayable(c, r) == Entries(c, r.seq, Cardinality(r.records)) = r.records

\* The home sectors after the records were applied.
Applied(c, records) ==
    [a \in Address |-> LET R == {r \in records : r.target = a}
                       IN IF R = {} THEN c[a] ELSE (CHOOSE r \in R : TRUE).value]

\* scan and read_image: the bank of the newest authentic manifest.
Manifests(c) == {b \in 0 .. 1 : c[Manifest(b)] # None}
LatestBank(c) == CHOOSE b \in Manifests(c) : \A e \in Manifests(c) : c[Manifest(e)].gen <= c[Manifest(b)].gen
Snapshot(c) ==
    IF \/ Manifests(c) = {}
       \/ Cardinality({c[Manifest(b)].gen : b \in Manifests(c)}) < Cardinality(Manifests(c))
       \/ c[Bank(LatestBank(c))] # c[Manifest(LatestBank(c))].image
    THEN None ELSE c[Bank(LatestBank(c))]

\* What fv_fido_journal_open makes of a region; None where it refuses.
Recovered(c) ==
    IF Found(c) = {} THEN Snapshot(c)
    ELSE LET r == Newest(c)
         IN CASE r.state = "CLEAN"   -> Content(c)
              [] r.state = "READY"   -> IF Replayable(c, r) THEN Content(Applied(c, r.records)) ELSE None
              [] r.state = "RESET"   -> Erased(r.policy)
              [] r.state = "MIGRATE" -> IF c[Source] = r.image THEN r.image ELSE None

Current == Found(card.now) # {} /\ Newest(card.now).state = "CLEAN" /\ Newest(card.now).seq = store.seq

-----------------------------------------------------------------------------
(* Reading and writing in a transaction *)

SlotOf(targets, a) ==
    IF \E k \in DOMAIN targets : targets[k] = a THEN CHOOSE k \in DOMAIN targets : targets[k] = a
    ELSE Len(targets) + 1

\* j_overlay_read: a staged sector comes from its record.
Overlay(a) ==
    LET k == SlotOf(store.targets, a)
    IN IF k > Len(store.targets) THEN card.now[a]
       ELSE LET r == card.now[Slot(k)]
            IN IF r # None /\ r.seq = store.seq + 1 /\ r.target = a THEN r.value ELSE None

\* j_sector, reading through the cache of plaintext sectors.
Cached(x) == store.cache[x % CacheSlots].lba = x
Sector(x) ==
    IF Cached(x) THEN store.cache[x % CacheSlots].value
    ELSE IF Overlay(Tag) # None /\ Overlay(D(x)) = Overlay(Tag)[x] THEN Overlay(D(x)) ELSE None

Filled(x) == [store.cache EXCEPT ![x % CacheSlots] = [lba |-> x, value |-> Sector(x)]]

\* Mutant of Dropped: a write leaves the cached sector valid.
Kept(x) == Filled(x)

\* A write drops the sector that was just read for it.
Dropped(x) == [store.cache EXCEPT ![x % CacheSlots] = NoEntry]

Read(x) ==
    /\ store.st = "ready" /\ pc = "idle" /\ Sector(x) # None
    /\ store' = [store EXCEPT !.cache = Filled(x)]
    /\ UNCHANGED <<card, era, pc, phase, job, calls, faults, history>>

\* j_overlay_write: the sector and its tag block become records, in the slots
\* they have or in new ones.  Without room the store fails.
Write(x, v) ==
    /\ store.st = "ready" /\ pc = "idle" /\ calls < MaxCalls
    /\ LET record(a, val) == [seq |-> store.seq + 1, target |-> a, value |-> val]
           k == SlotOf(store.targets, D(x))
           t == IF k > Len(store.targets) THEN Append(store.targets, D(x)) ELSE store.targets
           j == SlotOf(t, Tag)
           u == IF j > Len(t) THEN Append(t, Tag) ELSE t
           tag == [Overlay(Tag) EXCEPT ![x] = v]
           starts == store.seq < MaxSequence /\ (store.targets = <<>> => Current)
       IN IF Sector(x) = None \/ ~starts \/ k > RecordSlots
          THEN store' = Closed /\ UNCHANGED <<card, view>>
          ELSE IF j > RecordSlots
          THEN store' = Closed /\ card' = Written([a \in {Slot(k), Source} |-> IF a = Source THEN None ELSE record(D(x), v)])
               /\ UNCHANGED view
          ELSE /\ card' = Written([a \in {Slot(k), Slot(j), Source} |->
                            CASE a = Slot(k) -> record(D(x), v) [] a = Slot(j) -> record(Tag, tag) [] OTHER -> None])
               /\ store' = [store EXCEPT !.targets = u, !.cache = Dropped(x)]
               /\ view' = [view EXCEPT ![x] = v]
    /\ calls' = calls + 1
    /\ UNCHANGED <<era, pc, phase, job, faults, allowed>>

-----------------------------------------------------------------------------
(* The steps of a call *)

\* The control sector a step writes.
Mark(state, records) ==
    [seq |-> store.seq + 1, state |-> state, records |-> records, policy |-> job.policy, image |-> job.image]

Staged == Entries(card.now, store.seq + 1, Len(store.targets))

Marks(p) ==
    CASE p = "ready" -> Mark("READY", Staged)
      [] p = "reset" -> Mark("RESET", {})
      [] p = "mark"  -> Mark("MIGRATE", {})
      [] OTHER       -> Mark("CLEAN", {})

Markers == {"ready", "reset", "mark", "first", "clean"}

\* An image with its tags over the home sectors, and so over the old banks.
Spread(image) ==
    [a \in Home \cup Banks |-> IF a = Tag THEN image ELSE IF a \in Home THEN image[a[2]] ELSE None]

\* What each step writes.
Writes(p) ==
    CASE p \in Markers   -> [a \in {Control((store.seq + 1) % 2)} |-> Marks(p)]
      [] p = "replay"    -> [a \in {r.target : r \in Newest(card.now).records} |->
                                Applied(card.now, Newest(card.now).records)[a]]
      [] p = "blank"     -> Spread(Erased(job.policy))
      [] p = "move"      -> Spread(job.image)
      [] p = "copy"      -> [a \in Records \cup {Source} |-> IF a = Source THEN job.image ELSE None]
      [] p = "clear"     -> [a \in {Manifest(0), Manifest(1)} |-> None]
      [] p = "void"      -> [a \in {Manifest(job.bank)} |-> None]
      [] p = "image"     -> [a \in {Bank(job.bank)} |-> job.image]
      [] p = "manifest"  -> [a \in {Manifest(job.bank)} |-> [gen |-> job.gen, image |-> job.image]]

\* Mutant of After: the home sectors are written before the migration is marked.
AfterUnmarked(p) ==
    CASE p = "records" -> "ready" [] p = "ready" -> "replay"
      [] p \in {"replay", "blank"} -> "clean"
      [] p = "reset" -> "blank"
      [] p = "copy" -> "move" [] p = "move" -> "clean"
      [] p = "clear" -> "void" [] p = "void" -> "image" [] p = "image" -> "manifest"
      [] OTHER -> "idle"

\* The order of the steps: a commit, a reset, a migration, an image commit.
After(p) ==
    CASE p = "records" -> "ready" [] p = "ready" -> "replay"
      [] p \in {"replay", "blank", "first"} -> "clean"
      [] p = "reset" -> "blank"
      [] p = "copy" -> "mark" [] p = "mark" -> "move" [] p = "move" -> "first"
      [] p = "clear" -> "void" [] p = "void" -> "image" [] p = "image" -> "manifest"
      [] OTHER -> "idle"

\* A control sector is not written past the last sequence number.
StepWrite ==
    /\ pc # "idle" /\ phase = "write"
    /\ IF pc \in Markers /\ store.seq = MaxSequence
       THEN store' = Closed /\ pc' = "idle" /\ job' = NoJob /\ UNCHANGED <<card, phase>>
       ELSE card' = Written(Writes(pc)) /\ phase' = "sync" /\ UNCHANGED <<store, pc, job>>
    /\ UNCHANGED <<era, calls, faults, history>>

StepSync ==
    /\ pc # "idle" /\ phase = "sync" /\ After(pc) # "idle"
    /\ card' = Synced
    /\ store' = IF pc \in Markers THEN [store EXCEPT !.seq = @ + 1] ELSE store
    /\ pc' = After(pc)
    /\ phase' = "write"
    /\ UNCHANGED <<era, job, calls, faults, history>>

\* The last sync: the call succeeds and what it stored is settled.
StepDone ==
    /\ pc # "idle" /\ phase = "sync" /\ After(pc) = "idle"
    /\ card' = Synced
    /\ store' = IF pc \in Markers THEN [store EXCEPT !.seq = @ + 1, !.targets = <<>>]
                ELSE [store EXCEPT !.st = "image", !.seq = job.gen, !.bank = job.bank]
    /\ view' = IF pc \in Markers THEN Content(card.now) ELSE job.image
    /\ allowed' = {view'}
    /\ pc' = "idle" /\ phase' = "write" /\ job' = NoJob
    /\ UNCHANGED <<era, calls, faults>>

\* A failing operation faults the card driver, which starts the card anew, and
\* closes the store, as a power cut does.
Interrupt ==
    /\ faults < MaxFaults
    /\ \E c \in Outcomes : card' = [now |-> c, may |-> [a \in Address |-> {c[a]}]]
    /\ store' = Closed /\ pc' = "idle" /\ phase' = "write" /\ job' = NoJob
    /\ faults' = faults + 1
    /\ UNCHANGED <<era, calls, history>>

Starts(p, ph) == pc' = p /\ phase' = ph

-----------------------------------------------------------------------------
(* The calls of the journal *)

\* Also discards what was written and not committed.
Close ==
    /\ store.st # "closed" /\ pc = "idle"
    /\ store' = Closed
    /\ UNCHANGED <<card, era, pc, phase, job, calls, faults, history>>

Ready(seq) == [st |-> "ready", seq |-> seq, bank |-> 0, targets |-> <<>>, cache |-> Empty]

\* fv_fido_journal_open finishes what it finds begun.
Open ==
    /\ era = "journal" /\ store.st = "closed" /\ pc = "idle"
    /\ Found(card.now) # {}
    /\ LET r == Newest(card.now)
       IN /\ store' = Ready(r.seq)
          /\ \/ r.state = "CLEAN" /\ view' = Content(card.now) /\ allowed' = {view'}
                /\ UNCHANGED <<pc, phase, job>>
             \/ r.state = "READY" /\ Replayable(card.now, r) /\ Starts("replay", "write")
                /\ UNCHANGED <<job, history>>
             \/ r.state = "RESET" /\ Starts("blank", "write")
                /\ job' = [job EXCEPT !.policy = r.policy] /\ UNCHANGED history
             \/ r.state = "MIGRATE" /\ card.now[Source] = r.image /\ Starts("move", "write")
                /\ job' = [job EXCEPT !.image = r.image] /\ UNCHANGED history
    /\ UNCHANGED <<card, era, calls, faults>>

\* No control sector yet: the older firmware's image is copied first.
MigrateStart ==
    /\ era = "journal" /\ store.st = "closed" /\ pc = "idle"
    /\ Found(card.now) = {} /\ Snapshot(card.now) # None
    /\ store' = Ready(0)
    /\ job' = [job EXCEPT !.image = Snapshot(card.now)]
    /\ Starts("copy", "write")
    /\ UNCHANGED <<card, era, calls, faults, history>>

\* fv_fido_journal_initialize, _prepare_new.
Initialize ==
    /\ era = "journal" /\ store.st = "closed" /\ pc = "idle" /\ calls < MaxCalls
    /\ store' = Ready(IF Found(card.now) = {} THEN 0 ELSE Newest(card.now).seq)
    /\ allowed' = allowed \cup {Erased(Blank)}
    /\ Starts("reset", "write")
    /\ calls' = calls + 1
    /\ UNCHANGED <<card, era, job, faults, view>>

Reset(policy) ==
    /\ store.st = "ready" /\ pc = "idle" /\ calls < MaxCalls
    /\ IF Current
       THEN /\ store' = [store EXCEPT !.targets = <<>>, !.cache = Empty]
            /\ job' = [job EXCEPT !.policy = policy]
            /\ allowed' = allowed \cup {Erased(policy)}
            /\ Starts("reset", "write")
       ELSE store' = Closed /\ UNCHANGED <<pc, phase, job, allowed>>
    /\ calls' = calls + 1
    /\ UNCHANGED <<card, era, faults, view>>

Commit ==
    /\ store.st = "ready" /\ pc = "idle" /\ store.targets # <<>>
    /\ IF Current /\ Cardinality(Staged) = Len(store.targets)
       THEN Starts("records", "sync") /\ allowed' = allowed \cup {view} /\ UNCHANGED store
       ELSE store' = Closed /\ UNCHANGED <<pc, phase, allowed>>
    /\ UNCHANGED <<card, era, job, calls, faults, view>>

-----------------------------------------------------------------------------
(* The calls of the older image store *)

\* Both manifests are cleared under one sync: until then either bank may be left.
ImageInitialize ==
    /\ era = "images" /\ pc = "idle" /\ calls < MaxCalls
    /\ store' = Closed
    /\ job' = [NoJob EXCEPT !.gen = 1]
    /\ allowed' = allowed \cup {None, Erased(Blank)} \cup {card.now[Manifest(b)].image : b \in Manifests(card.now)}
    /\ Starts("clear", "write")
    /\ calls' = calls + 1
    /\ UNCHANGED <<card, era, faults, view>>

ImageOpen ==
    /\ era = "images" /\ store.st = "closed" /\ pc = "idle" /\ Snapshot(card.now) # None
    /\ store' = [Closed EXCEPT !.st = "image", !.bank = LatestBank(card.now),
                               !.seq = card.now[Manifest(LatestBank(card.now))].gen]
    /\ view' = Snapshot(card.now) /\ allowed' = {view'}
    /\ UNCHANGED <<card, era, pc, phase, job, calls, faults>>

\* An image commit goes to the bank that is not in use.
Inactive(b) == 1 - b

ImageCommit(image) ==
    /\ store.st = "image" /\ pc = "idle" /\ calls < MaxCalls /\ store.seq < MaxSequence
    /\ Snapshot(card.now) # None /\ LatestBank(card.now) = store.bank
    /\ card.now[Manifest(store.bank)].gen = store.seq
    /\ job' = [NoJob EXCEPT !.gen = store.seq + 1, !.bank = Inactive(store.bank), !.image = image]
    /\ allowed' = allowed \cup {image}
    /\ Starts("void", "write")
    /\ calls' = calls + 1
    /\ UNCHANGED <<card, era, store, faults, view>>

\* The device is flashed with the firmware that has the journal.
Upgrade ==
    /\ era = "images" /\ store.st = "closed" /\ pc = "idle"
    /\ era' = "journal"
    /\ UNCHANGED <<card, store, pc, phase, job, calls, faults, history>>

-----------------------------------------------------------------------------
StoreInit ==
    /\ card = [now |-> [a \in Address |-> None], may |-> [a \in Address |-> {None}]]
    /\ era \in {"images", "journal"}
    /\ store = Closed
    /\ pc = "idle" /\ phase = "write" /\ job = NoJob
    /\ calls = 0 /\ faults = 0
    /\ view = Erased(Blank) /\ allowed = {None}

StoreNext ==
    \/ \E x \in Data : Read(x) \/ \E v \in Values : Write(x, v)
    \/ StepWrite \/ StepSync \/ StepDone \/ Interrupt
    \/ Open \/ Close \/ MigrateStart \/ Initialize \/ Commit
    \/ \E policy \in {Blank, Policy} : Reset(policy)
    \/ ImageInitialize \/ ImageOpen \/ Upgrade
    \/ \E v \in Values : ImageCommit([x \in Data |-> v])

StoreSpec == StoreInit /\ [][StoreNext]_svars

-----------------------------------------------------------------------------
(* Properties *)

\* A commit, a reset, a migration and an image commit take effect as a whole or
\* not at all: wherever they are cut off, and however often the recovery is cut
\* off again, a restart finds the image before the call or the one after it,
\* and what was acknowledged or once read stays.
Atomic == \A c \in Outcomes : Recovered(c) \in allowed

\* Inside a transaction every sector reads as last written, through the sector
\* cache, the staged records and the home sectors.
ReadsOwnWrites == store.st = "ready" /\ pc = "idle" => \A x \in Data : Sector(x) = view[x]
=============================================================================
