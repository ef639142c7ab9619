----------------------------- MODULE AuthStore -----------------------------
(***************************************************************************)
(* The authenticated block store (auth_store.c) as the vault's io() drives *)
(* it: ciphertext sectors, blocks of authentication tags and a bitmap of   *)
(* the blocks initialised so far, on a card that keeps what was written    *)
(* only after a sync.  Until then a sector of any of the three may come    *)
(* back old, new or torn; neither the written/unset flags nor the bitmap   *)
(* are authenticated, so a torn one can say anything.  A tag is identified *)
(* with the ciphertext it authenticates.                                   *)
(***************************************************************************)
EXTENDS Integers, FiniteSets

CONSTANTS Blocks,         \* metadata blocks
          TagsPerBlock,   \* 15
          BitsPerSector,  \* 4096
          Values,         \* ciphertexts a caller writes
          Unset,          \* state byte 0: reads as zeros
          Stale,          \* the tag of a sector of an earlier volume
          Junk,           \* anything else: fails its check
          MaxBatch,       \* FV_AUTH_MAX_BATCH_SECTORS
          MaxEvents       \* bound on writes, failures and power cuts together

ASSUME StoreGeometry ==
    Blocks \in Nat \ {0} /\ TagsPerBlock \in Nat \ {0} /\ BitsPerSector \in Nat \ {0}
ASSUME StoreValues == Cardinality({Unset, Stale, Junk}) = 3 /\ Values \cap {Unset, Stale, Junk} = {}
ASSUME StoreBounds == MaxBatch \in Nat \ {0} /\ MaxEvents \in Nat

VARIABLES lazy,     \* layout_version 2: the bitmap decides which blocks exist
          data,     \* [now, may, wet]: each data sector, what a whole write left or
                    \* can leave in it, and the sectors written since the last sync
          tags,     \* [now, may, wet]: each metadata block
          bits,     \* [now, kept, wet]: the blocks the bitmap declares, now and at the
                    \* last sync, and the blocks of the sectors written since
          store,    \* "raw", "closed" or "ready"
          cache,    \* the window of metadata blocks held in RAM
          bcache,   \* the bitmap sector held in RAM
          pc, job,  \* the running fv_vault_write
          events,
          may,      \* history: values a sector may rightly read as
          hurt      \* history: sectors whose last write was not acknowledged, or whose
                    \* flag, tag or bitmap bit a torn sector took away

card == <<data, tags, bits>>
history == <<may, hurt>>
vars == <<lazy, card, store, cache, bcache, pc, job, events, history>>

Block == 0 .. Blocks - 1
Lba == 0 .. Blocks * TagsPerBlock - 1
BlockOf(x) == x \div TagsPerBlock
SectorOf(b) == b \div BitsPerSector
Entry == 0 .. TagsPerBlock - 1
Blank == [e \in Entry |-> Unset]
Earlier == [e \in Entry |-> Stale]

Span(l, n) == l .. l + n - 1
Window(l, n) == BlockOf(l) .. BlockOf(l + n - 1)
Batch == {r \in Lba \X (1 .. MaxBatch) : r[1] + r[2] - 1 \in Lba}

NoCache == [blocks |-> {}, tag |-> [b \in Block |-> Blank], init |-> {}]
NoBitmap == [sector |-> -1, bits |-> {}]
NoJob == [l |-> 0, n |-> 1, v |-> Unset, at |-> 0]

-----------------------------------------------------------------------------
(* The card *)

\* Sectors written and not yet synced.
Written(s, new, W) ==
    [now |-> [x \in DOMAIN s.now |-> IF x \in W THEN new[x] ELSE s.now[x]],
     may |-> [x \in DOMAIN s.may |-> IF x \in W THEN s.may[x] \cup {new[x]} ELSE s.may[x]],
     wet |-> s.wet \cup W]

\* Mutant of Synced: the sync is not waited for.
SyncedLater == UNCHANGED card

Synced ==
    /\ data' = [data EXCEPT !.may = [x \in Lba |-> {data.now[x]}], !.wet = {}]
    /\ tags' = [tags EXCEPT !.may = [b \in Block |-> {tags.now[b]}], !.wet = {}]
    /\ bits' = [bits EXCEPT !.kept = bits.now, !.wet = {}]

\* One member of each C[x].
Choices(C) == {f \in [DOMAIN C -> UNION {C[x] : x \in DOMAIN C}] : \A x \in DOMAIN C : f[x] \in C[x]}

\* A metadata block that was one of those in C, or is torn: each of its entries
\* is that of one of them, reads as unset, or fails its check.
EntriesOf(C, e) == {c[e] : c \in C}
TornFrom(C) ==
    {t \in [Entry -> {Unset, Junk} \cup UNION {EntriesOf(C, e) : e \in Entry}] :
        \A e \in Entry : t[e] \in EntriesOf(C, e) \cup {Unset, Junk}}

\* The sectors whose entry in t is none of those that were in C.
Damaged(t, C) ==
    {x \in Lba : BlockOf(x) \in DOMAIN t /\ t[BlockOf(x)][x % TagsPerBlock]
                    \notin EntriesOf(C[BlockOf(x)], x % TagsPerBlock)}

\* The sectors of the blocks whose bit in k is as in neither old nor new.
Flipped(k, old, new) == {x \in Lba : BlockOf(x) \in ((old \cap new) \ k) \cup (k \ (old \cup new))}

\* A torn sector hurts the sectors it describes: they may read as zeros.
Lose(X) ==
    /\ hurt' = hurt \cup X
    /\ may' = [x \in Lba |-> IF x \in X THEN may[x] \cup {Unset} ELSE may[x]]

\* What power that is lost leaves of each sector that was not synced.
Restarted(s, f) ==
    LET now == [x \in DOMAIN s.now |-> IF x \in DOMAIN f THEN f[x] ELSE s.now[x]]
    IN [now |-> now, may |-> [x \in DOMAIN now |-> {now[x]}], wet |-> {}]

Survive ==
    \E d \in Choices([x \in data.wet |-> data.may[x] \cup {Junk}]),
       t \in Choices([b \in tags.wet |-> TornFrom(tags.may[b])]), w \in SUBSET bits.wet :
        LET k == (bits.now \ bits.wet) \cup w
        IN /\ data' = Restarted(data, d)
           /\ tags' = Restarted(tags, t)
           /\ bits' = [now |-> k, kept |-> k, wet |-> {}]
           /\ Lose(Damaged(t, tags.may) \cup Flipped(k, bits.kept, bits.now))

-----------------------------------------------------------------------------
(* Reading metadata *)

\* bitmap_load, for the bitmap sector of block b.
BitmapLoaded(b) ==
    IF bcache.sector = SectorOf(b) THEN bcache
    ELSE [sector |-> SectorOf(b), bits |-> {c \in bits.now : SectorOf(c) = SectorOf(b)}]

\* The blocks of window W that the bitmap declares initialised: only its first
\* sector can already be in RAM.
Initialised(W) ==
    {b \in W : IF \A c \in W : b <= c \/ SectorOf(c) = SectorOf(b)
               THEN b \in BitmapLoaded(b).bits ELSE b \in bits.now}

Hit(W) == W \subseteq cache.blocks

\* load: stale metadata of uninitialised blocks is never looked at.
Loaded(W) ==
    IF Hit(W) THEN cache
    ELSE LET init == IF lazy THEN Initialised(W) ELSE {}
         IN [blocks |-> W, init |-> init,
             tag |-> [b \in Block |-> IF b \in W /\ (lazy => b \in init) THEN tags.now[b] ELSE Blank]]

BitmapAfter(W) ==
    IF Hit(W) \/ ~lazy THEN bcache
    ELSE LET last == CHOOSE b \in W : \A c \in W : c <= b
         IN IF \A c \in W : SectorOf(c) = SectorOf(last) THEN BitmapLoaded(last)
            ELSE [sector |-> SectorOf(last), bits |-> {c \in bits.now : SectorOf(c) = SectorOf(last)}]

TagIn(c, x) == c.tag[BlockOf(x)][x % TagsPerBlock]

\* What fv_auth_read_batch returns for one sector.
ReadOf(x) ==
    LET t == TagIn(Loaded({BlockOf(x)}), x)
    IN IF t = Unset THEN Unset ELSE IF t = data.now[x] THEN t ELSE Junk

-----------------------------------------------------------------------------
(* Formatting, opening and closing *)

\* Only the bitmap (layout 2) or the metadata (layout 1) is cleared.
Format ==
    /\ store = "raw"
    /\ IF lazy THEN bits' = [now |-> {}, kept |-> {}, wet |-> {}] /\ UNCHANGED <<data, tags>>
       ELSE /\ tags' = Restarted(tags, [b \in Block |-> Blank])
            /\ UNCHANGED <<data, bits>>
    /\ store' = "closed"
    /\ may' = [x \in Lba |-> {Unset}]
    /\ hurt' = {}
    /\ UNCHANGED <<lazy, cache, bcache, pc, job, events>>

\* A format that fails or is cut off: the volume is never anchored.
FormatFails ==
    /\ store = "raw" /\ events < MaxEvents
    /\ IF lazy
       THEN /\ \E W \in SUBSET Block : bits' = [now |-> W, kept |-> W, wet |-> {}]
            /\ UNCHANGED tags
       ELSE /\ \E t \in Choices([b \in Block |-> TornFrom({tags.now[b], Blank})]) : tags' = Restarted(tags, t)
            /\ UNCHANGED bits
    /\ events' = events + 1
    /\ UNCHANGED <<lazy, data, store, cache, bcache, pc, job, history>>

Open ==
    /\ store = "closed"
    /\ store' = "ready"
    /\ UNCHANGED <<lazy, card, cache, bcache, pc, job, events, history>>

\* fv_auth_close under fv_vault_lock.
Closed == store' = "closed" /\ cache' = NoCache /\ bcache' = NoBitmap /\ pc' = "idle" /\ job' = NoJob

Close ==
    /\ store = "ready" /\ pc = "idle"
    /\ Closed
    /\ UNCHANGED <<lazy, card, events, history>>

PowerCut ==
    /\ store # "raw" /\ events < MaxEvents
    /\ Survive
    /\ Closed
    /\ events' = events + 1
    /\ UNCHANGED lazy

-----------------------------------------------------------------------------
(* Reading *)

\* An integrity error drops the window and leaves the store open.
Read ==
    /\ store = "ready" /\ pc = "idle"
    /\ \E r \in Batch :
        LET W == Window(r[1], r[2])
            bad == \E x \in Span(r[1], r[2]) : ReadOf(x) = Junk
        IN /\ cache' = IF bad THEN NoCache ELSE Loaded(W)
           /\ bcache' = BitmapAfter(W)
    /\ UNCHANGED <<lazy, card, store, pc, job, events, history>>

\* A read the card refuses, for a command that reads or one that is about to
\* write: fault(), then fv_vault_lock.  It may happen at any time and to any
\* sector, again and again to one that a cut left unreadable.
ReadFails ==
    /\ store = "ready" /\ pc = "idle"
    /\ Closed
    /\ UNCHANGED <<lazy, card, events, history>>

-----------------------------------------------------------------------------
(* Writing *)

JobRange == Span(job.l, job.n)
JobWindow == Window(job.l, job.n)

\* The tags go into the cached window before anything is on the card.
Write ==
    /\ store = "ready" /\ pc = "idle" /\ events < MaxEvents
    /\ \E r \in Batch, v \in Values :
        LET W == Window(r[1], r[2])
            c == Loaded(W)
        IN /\ cache' = [c EXCEPT !.tag = [b \in Block |-> [e \in Entry |->
                            IF b * TagsPerBlock + e \in Span(r[1], r[2]) THEN v ELSE c.tag[b][e]]]]
           /\ bcache' = BitmapAfter(W)
           /\ job' = [l |-> r[1], n |-> r[2], v |-> v, at |-> BlockOf(r[1])]
           /\ may' = [x \in Lba |-> IF x \in Span(r[1], r[2]) THEN may[x] \cup {v} ELSE may[x]]
           /\ hurt' = hurt \cup Span(r[1], r[2])
    /\ pc' = "data"
    /\ events' = events + 1
    /\ UNCHANGED <<lazy, card, store>>

WriteData ==
    /\ pc = "data"
    /\ data' = Written(data, [x \in JobRange |-> job.v], JobRange)
    /\ pc' = "meta"
    /\ UNCHANGED <<lazy, tags, bits, store, cache, bcache, job, events, history>>

\* Mutant of AfterMeta: the bitmap is updated without a sync before it.
AfterMetaUnsynced == IF lazy /\ ~(JobWindow \subseteq cache.init) THEN "bits" ELSE "sync"

\* publish() has work only for blocks the bitmap does not declare yet.
AfterMeta == IF lazy /\ ~(JobWindow \subseteq cache.init) THEN "publish" ELSE "sync"

WriteMeta ==
    /\ pc = "meta"
    /\ tags' = Written(tags, cache.tag, JobWindow)
    /\ pc' = AfterMeta
    /\ UNCHANGED <<lazy, data, bits, store, cache, bcache, job, events, history>>

PublishSync ==
    /\ pc = "publish"
    /\ Synced
    /\ pc' = "bits"
    /\ UNCHANGED <<lazy, store, cache, bcache, job, events, history>>

\* The blocks of the window in the bitmap sector at hand.
Here == {b \in JobWindow : SectorOf(b) = SectorOf(job.at)}

\* A bitmap sector is read, changed and written back.
Marked == [sector |-> SectorOf(job.at), bits |-> BitmapLoaded(job.at).bits \cup (Here \ cache.init)]

\* The bitmap sector at hand, replaced by k.
InSector == {b \in Block : SectorOf(b) = SectorOf(job.at)}
BitmapWritten(k) ==
    [now |-> (bits.now \ InSector) \cup k, kept |-> bits.kept, wet |-> bits.wet \cup InSector]

\* On to the window's next bitmap sector, or to the end.
Advance ==
    LET rest == {b \in JobWindow : SectorOf(b) > SectorOf(job.at)}
    IN IF rest = {}
       THEN cache' = [cache EXCEPT !.init = @ \cup JobWindow] /\ pc' = "sync" /\ UNCHANGED job
       ELSE /\ job' = [job EXCEPT !.at = CHOOSE b \in rest : \A c \in rest : b <= c]
            /\ pc' = "bits"
            /\ UNCHANGED cache

PublishBits ==
    /\ pc = "bits"
    /\ bcache' = Marked
    /\ IF Here \subseteq cache.init THEN Advance /\ UNCHANGED bits
       ELSE /\ bits' = BitmapWritten(Marked.bits)
            /\ pc' = "bitsync"
            /\ UNCHANGED <<cache, job>>
    /\ UNCHANGED <<lazy, data, tags, store, events, history>>

PublishDone ==
    /\ pc = "bitsync"
    /\ Synced
    /\ Advance
    /\ UNCHANGED <<lazy, store, bcache, events, history>>

\* io() syncs once more and acknowledges.
Acknowledge ==
    /\ pc = "sync"
    /\ Synced
    /\ may' = [x \in Lba |-> IF x \in JobRange THEN {job.v} ELSE may[x]]
    /\ hurt' = hurt \ JobRange
    /\ pc' = "idle"
    /\ job' = NoJob
    /\ UNCHANGED <<lazy, store, cache, bcache, events>>

\* fault(), then fv_vault_lock in io().
Faulted == Closed

\* A card operation fails, each of its sectors left as it was, written or torn.
WriteFails ==
    /\ pc # "idle" /\ events < MaxEvents
    /\ \/ /\ pc = "data"
          /\ \E d \in Choices([x \in JobRange |-> {data.now[x], job.v, Junk}]) :
                data' = Written(Written(data, [x \in JobRange |-> job.v], JobRange), d, JobRange)
          /\ UNCHANGED <<tags, bits, history>>
       \/ /\ pc = "meta"
          /\ LET C == [b \in JobWindow |-> {tags.now[b], cache.tag[b]}]
             IN \E t \in Choices([b \in JobWindow |-> TornFrom(C[b])]) :
                   /\ tags' = Written(Written(tags, cache.tag, JobWindow), t, JobWindow)
                   /\ Lose(Damaged(t, C))
          /\ UNCHANGED <<data, bits>>
       \/ /\ pc = "bits"
          /\ \E k \in SUBSET InSector :
                /\ bits' = BitmapWritten(k)
                /\ Lose(Flipped(bits'.now, bits.now, BitmapWritten(Marked.bits).now))
          /\ UNCHANGED <<data, tags>>
       \/ pc \in {"publish", "bits", "bitsync", "sync"} /\ UNCHANGED <<card, history>>
    /\ Faulted
    /\ events' = events + 1
    /\ UNCHANGED lazy

-----------------------------------------------------------------------------
\* A card with another volume's contents on it.
Init ==
    /\ lazy \in BOOLEAN
    /\ data = [now |-> [x \in Lba |-> Junk], may |-> [x \in Lba |-> {Junk}], wet |-> {}]
    /\ tags = [now |-> [b \in Block |-> Earlier], may |-> [b \in Block |-> {Earlier}], wet |-> {}]
    /\ bits = [now |-> IF lazy THEN Block ELSE {}, kept |-> IF lazy THEN Block ELSE {}, wet |-> {}]
    /\ store = "raw"
    /\ cache = NoCache /\ bcache = NoBitmap
    /\ pc = "idle" /\ job = NoJob
    /\ events = 0
    /\ may = [x \in Lba |-> {Junk}] /\ hurt = {}

Next ==
    \/ Format \/ FormatFails \/ Open \/ Close \/ PowerCut
    \/ Read \/ ReadFails
    \/ Write \/ WriteData \/ WriteMeta \/ PublishSync \/ PublishBits \/ PublishDone \/ Acknowledge
    \/ WriteFails

Spec == Init /\ [][Next]_vars

-----------------------------------------------------------------------------
(* Properties *)

Quiet == store # "raw" /\ pc = "idle"

\* What a store with empty caches would read.
ReadAfresh(x) ==
    LET t == IF lazy /\ BlockOf(x) \notin bits.now THEN Unset ELSE tags.now[BlockOf(x)][x % TagsPerBlock]
    IN IF t = Unset THEN Unset ELSE IF t = data.now[x] THEN t ELSE Junk

\* A read never lies: it returns the last acknowledged value, one a later
\* write that failed was about, or an integrity error, whatever was cut off,
\* torn or left on the card by an earlier volume.  (Zeros are allowed only
\* where nothing was acknowledged, or where the sector's flag or bitmap bit was
\* itself lost to a torn sector: nothing authenticates those.)  And it says
\* what the card says: no failing path leaves tags or bitmap bits in the caches
\* that make a sector read otherwise than once the store is opened again.
ReadsHonest ==
    Quiet => \A x \in Lba : /\ ReadOf(x) \in may[x] \cup {Junk}
                            /\ ReadOf(x) = ReadAfresh(x)

\* A write that is cut off hurts only its own sectors and those a torn metadata
\* or bitmap sector took the entry or the bit from: whatever else came back,
\* old or new, of the sectors that were not synced, every other sector reads as
\* it should if the card answers, zeros of a never-written one included.
NeighboursReadable == Quiet => \A x \in Lba \ hurt : ReadOf(x) \in may[x]
=============================================================================
