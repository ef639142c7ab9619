-------------------------- MODULE AuthStoreProofs --------------------------
(***************************************************************************)
(* Proofs about the authenticated block store, for every geometry, batch   *)
(* size and number of writes and failures: a read never lies, caches and     *)
(* card agree, and a write that fails hurts only its own sectors.          *)
(***************************************************************************)
EXTENDS AuthStore, FiniteSetTheorems, WellFoundedInduction, TLAPS

-----------------------------------------------------------------------------
(* The inductive invariant *)

Text == Values \cup {Unset, Stale, Junk}
TagBlock == [Entry -> Text]
Phase == {"idle", "data", "meta", "publish", "bits", "bitsync", "sync"}

\* Sector e of block b.
At(b, e) == b * TagsPerBlock + e

DataType ==
    /\ data = [now |-> data.now, may |-> data.may, wet |-> data.wet] /\ data.wet \subseteq Lba
    /\ data.now \in [Lba -> Text]
    /\ data.may \in [Lba -> SUBSET Text]
    /\ \A x \in Lba : data.now[x] \in data.may[x]

TagsType ==
    /\ tags = [now |-> tags.now, may |-> tags.may, wet |-> tags.wet] /\ tags.wet \subseteq Block
    /\ tags.now \in [Block -> TagBlock]
    /\ tags.may \in [Block -> SUBSET TagBlock]
    /\ \A k \in Block : tags.now[k] \in tags.may[k]

BitsType ==
    /\ bits = [now |-> bits.now, kept |-> bits.kept, wet |-> bits.wet]
    /\ bits.now \subseteq Block /\ bits.kept \subseteq Block /\ bits.wet \subseteq Block

CacheType ==
    /\ cache \in [blocks : SUBSET Block, tag : [Block -> TagBlock], init : SUBSET Block]
    /\ bcache \in [sector : Int, bits : SUBSET Block]

JobType ==
    /\ job \in [l : Lba, n : Nat, v : Text, at : Block]
    /\ pc \in Phase

HistoryType ==
    /\ may \in [Lba -> SUBSET Text]
    /\ hurt \subseteq Lba

StoreType ==
    /\ lazy \in BOOLEAN
    /\ store \in {"raw", "closed", "ready"}
    /\ events \in 0 .. MaxEvents
    /\ DataType /\ TagsType /\ BitsType /\ CacheType /\ JobType /\ HistoryType

\* The bitmap declares block b; a power cut that tears nothing leaves it so.
Exists(b) == lazy => b \in bits.now
Kept(b) == lazy => b \in bits.kept

\* A power cut that tears nothing may leave block b declared.
Shown(b) == lazy => b \in bits.now \cup bits.kept

\* A tag v of sector x that no cut can separate from its data.
Fits(x, v) == v = Unset \/ (v # Junk /\ data.may[x] = {v} /\ x \notin data.wet)

\* What any later restart can find in the block of x is allowed.
SafeAt(b, e) ==
    LET x == At(b, e)
    IN /\ data.may[x] \subseteq may[x] \cup {Junk}
       /\ ~Kept(b) \/ ~Exists(b) => Unset \in may[x]
       /\ Shown(b) => \A t \in tags.may[b] : t[e] = Unset => Unset \in may[x]
       /\ Shown(b) /\ x \notin hurt => \A t \in tags.may[b] : Fits(x, t[e])
       /\ Kept(b) /\ ~Exists(b) => x \in hurt
SafeInv == store # "raw" => \A b \in Block, e \in Entry : SafeAt(b, e)

\* The bitmap sector in RAM is the one on the card.
BitmapInv == bcache.sector # -1 => bcache.bits = {c \in bits.now : SectorOf(c) = bcache.sector}

\* The metadata a fresh load of block b would see.
Fetched(b) == IF Exists(b) THEN tags.now[b] ELSE Blank

\* Blocks of the window that is being written differ from the card, no others.
CacheInv ==
    /\ lazy => cache.init \subseteq bits.now
    /\ \A b \in cache.blocks : pc = "idle" \/ b \notin JobWindow => cache.tag[b] = Fetched(b)

\* A store that is not open holds nothing in RAM, and before the format the
\* data are those of an earlier volume.
ClosedInv ==
    /\ store # "ready" => pc = "idle" /\ cache = NoCache /\ bcache = NoBitmap
    /\ store = "raw" => \A x \in Lba : data.may[x] = {Junk}

\* Metadata of the running write, in RAM and on the card.
WindowInv(b, e) ==
    /\ At(b, e) \in JobRange => cache.tag[b][e] = job.v
    /\ At(b, e) \notin JobRange /\ pc \in {"data", "meta"} => cache.tag[b][e] = Fetched(b)[e]
    /\ At(b, e) \notin JobRange /\ ~Exists(b) => cache.tag[b][e] = Unset
WriteInv ==
    pc # "idle" =>
        /\ <<job.l, job.n>> \in Batch /\ job.v \in Values
        /\ job.at \in JobWindow /\ JobWindow \subseteq cache.blocks
        /\ JobRange \subseteq hurt /\ \A x \in JobRange : job.v \in may[x]
        /\ \A b \in JobWindow, e \in Entry : WindowInv(b, e)
        /\ pc # "data" => \A x \in JobRange : data.now[x] = job.v
        /\ pc \notin {"data", "meta"} => \A b \in JobWindow : tags.now[b] = cache.tag[b]
        /\ pc \in {"bits", "bitsync"} => \A b \in JobWindow : tags.may[b] = {tags.now[b]}
        /\ pc \in {"publish", "bits", "bitsync"} => lazy
        /\ pc \in {"data", "meta", "publish"} => job.at = BlockOf(job.l)
        /\ pc = "bits" => \A b \in JobWindow : SectorOf(b) < SectorOf(job.at) => b \in bits.now
        /\ pc = "bitsync" => \A b \in JobWindow : SectorOf(b) <= SectorOf(job.at) => b \in bits.now
        /\ pc = "sync" /\ lazy => JobWindow \subseteq bits.now

StoreInv == StoreType /\ SafeInv /\ BitmapInv /\ CacheInv /\ ClosedInv /\ WriteInv

-----------------------------------------------------------------------------
(* Geometry: sectors, their blocks and the bitmap sectors of the blocks *)

\* Quotient and remainder.
LEMMA DivFacts ==
    ASSUME NEW n \in Nat \ {0}, NEW x \in Nat
    PROVE  x \div n \in Nat /\ x % n \in 0 .. n - 1 /\ x = n * (x \div n) + (x % n)
BY SMT

\* Division by a block size respects the order.
LEMMA DivMonotone ==
    ASSUME NEW n \in Nat \ {0}, NEW x \in Nat, NEW y \in Nat, x <= y
    PROVE  x \div n <= y \div n /\ x \div n \in Nat
<1> DEFINE p == x \div n
           q == y \div n
           r == x % n
           m == y % n
<1>1. /\ p \in Nat /\ q \in Nat /\ r \in 0 .. n - 1 /\ m \in 0 .. n - 1
      /\ x = n * p + r /\ y = n * q + m
  <2>1. p \in Nat /\ r \in 0 .. n - 1 /\ x = n * p + r
      BY DivFacts
  <2>2. q \in Nat /\ m \in 0 .. n - 1 /\ y = n * q + m
      BY DivFacts
  <2>3. QED
      BY <2>1, <2>2, Zenon
<1> HIDE DEF p, q, r, m
<1>2. CASE q < p
  <2>1. p = (q + 1) + (p - (q + 1)) /\ p - (q + 1) \in Nat
      BY <1>1, <1>2
  <2>2. n * (p - (q + 1)) \in Nat /\ n * p = n * q + n + n * (p - (q + 1))
      BY <1>1, <2>1, SMT
  <2>3. n * q \in Nat
      BY <1>1
  <2>4. n * p > y
      BY <1>1, <2>2, <2>3
  <2>5. n * p <= x
      BY <1>1, <2>2, <2>3
  <2>6. QED
      BY <1>1, <2>2, <2>3, <2>4, <2>5
<1>3. QED
    BY <1>1, <1>2 DEF p, q

\* A sector is one entry of one block.
LEMMA EntryOfSector ==
    ASSUME NEW x \in Lba
    PROVE  BlockOf(x) \in Block /\ x % TagsPerBlock \in Entry /\ At(BlockOf(x), x % TagsPerBlock) = x
<1> DEFINE q == x \div TagsPerBlock
           r == x % TagsPerBlock
<1>1. /\ x \in Nat /\ x < Blocks * TagsPerBlock
      /\ q \in Nat /\ r \in 0 .. TagsPerBlock - 1 /\ x = TagsPerBlock * q + r
  <2>1. Blocks * TagsPerBlock \in Nat
      BY StoreGeometry
  <2>2. x \in Nat /\ x < Blocks * TagsPerBlock
      BY <2>1 DEF Lba
  <2>3. QED
      BY <2>2, StoreGeometry, SMT
<1> HIDE DEF q, r
<1>2. q < Blocks
  <2>1. SUFFICES ASSUME q >= Blocks PROVE FALSE
      BY <1>1, StoreGeometry
  <2>2. q = Blocks + (q - Blocks) /\ q - Blocks \in Nat
      BY <1>1, <2>1, StoreGeometry
  <2>3. TagsPerBlock * q = Blocks * TagsPerBlock + TagsPerBlock * (q - Blocks)
      BY <2>2, StoreGeometry, SMT
  <2>4. TagsPerBlock * (q - Blocks) \in Nat /\ Blocks * TagsPerBlock \in Nat
      BY <2>2, StoreGeometry
  <2>5. QED
      BY <1>1, <2>3, <2>4, StoreGeometry
<1>3. q \in Block /\ r \in Entry
    BY <1>1, <1>2, StoreGeometry DEF Block, Entry
<1>4. q * TagsPerBlock + r = x
    BY <1>1, StoreGeometry
<1>5. QED
    BY <1>3, <1>4 DEF q, r, At, BlockOf

\* An entry of a block is one sector.
LEMMA SectorOfEntry ==
    ASSUME NEW b \in Block, NEW e \in Entry
    PROVE  At(b, e) \in Lba /\ BlockOf(At(b, e)) = b /\ At(b, e) % TagsPerBlock = e
<1> DEFINE x == b * TagsPerBlock + e
<1>1. /\ TagsPerBlock \in Nat \ {0} /\ Blocks \in Nat \ {0}
      /\ b \in Nat /\ b < Blocks /\ e \in Nat /\ e < TagsPerBlock
    BY StoreGeometry DEF Block, Entry
<1>2. x \in Nat /\ b * TagsPerBlock \in Nat
    BY <1>1
<1>3. x < Blocks * TagsPerBlock
  <2>1. Blocks = b + 1 + (Blocks - (b + 1)) /\ Blocks - (b + 1) \in Nat
      BY <1>1
  <2>2. Blocks * TagsPerBlock = b * TagsPerBlock + TagsPerBlock + (Blocks - (b + 1)) * TagsPerBlock
      BY <1>1, <2>1, SMT
  <2>3. (Blocks - (b + 1)) * TagsPerBlock \in Nat
      BY <1>1, <2>1
  <2>4. QED
      BY <1>1, <1>2, <2>2, <2>3
<1>4. x \in Lba
    BY <1>1, <1>2, <1>3 DEF Lba
<1> DEFINE q == x \div TagsPerBlock
           r == x % TagsPerBlock
<1>5. q \in Nat /\ r \in Nat /\ r < TagsPerBlock /\ x = TagsPerBlock * q + r
    BY <1>1, <1>2, SMT
<1>6. q = b /\ r = e
  <2> HIDE DEF q, r
  <2>0. TagsPerBlock * q + r = TagsPerBlock * b + e
      BY <1>1, <1>5
  <2>1. CASE q < b
    <3>1. b = q + 1 + (b - (q + 1)) /\ b - (q + 1) \in Nat
        BY <1>1, <1>5, <2>1
    <3>2. TagsPerBlock * b = TagsPerBlock * q + TagsPerBlock + TagsPerBlock * (b - (q + 1))
        BY <1>1, <1>5, <3>1, SMT
    <3>3. TagsPerBlock * (b - (q + 1)) \in Nat /\ TagsPerBlock * q \in Nat
        BY <1>1, <1>5, <3>1
    <3>4. QED
        BY <1>1, <1>5, <2>0, <3>2, <3>3
  <2>2. CASE b < q
    <3>1. q = b + 1 + (q - (b + 1)) /\ q - (b + 1) \in Nat
        BY <1>1, <1>5, <2>2
    <3>2. TagsPerBlock * q = TagsPerBlock * b + TagsPerBlock + TagsPerBlock * (q - (b + 1))
        BY <1>1, <1>5, <3>1, SMT
    <3>3. TagsPerBlock * (q - (b + 1)) \in Nat /\ TagsPerBlock * b \in Nat
        BY <1>1, <1>5, <3>1
    <3>4. QED
        BY <1>1, <1>5, <2>0, <3>2, <3>3
  <2>3. CASE q = b
    <3>1. TagsPerBlock * q \in Nat
        BY <1>1, <1>5
    <3>2. QED
        BY <1>1, <1>5, <2>0, <2>3, <3>1
  <2>4. QED
      BY <1>1, <1>5, <2>1, <2>2, <2>3
<1>7. QED
    BY <1>4, <1>6 DEF At, BlockOf

\* A batch lies in its window, and no block outside it holds one of its sectors.
LEMMA BatchFacts ==
    ASSUME NEW l, NEW n, <<l, n>> \in Batch
    PROVE  /\ l \in Lba /\ n \in Nat /\ Span(l, n) \subseteq Lba
           /\ Window(l, n) \subseteq Block /\ BlockOf(l) \in Window(l, n)
           /\ BlockOf(l + n - 1) \in Window(l, n)
           /\ \A b \in Block, e \in Entry : At(b, e) \in Span(l, n) => b \in Window(l, n)
<1>1. /\ l \in Lba /\ n \in 1 .. MaxBatch /\ l + n - 1 \in Lba
    BY DEF Batch
<1>2. /\ n \in Nat /\ n >= 1 /\ Blocks * TagsPerBlock \in Nat
    BY <1>1, StoreBounds, StoreGeometry
<1>3. Lba \subseteq Nat
    BY <1>2 DEF Lba
<1>4. Span(l, n) \subseteq Lba
    BY <1>1, <1>2 DEF Span, Lba
<1>5. ASSUME NEW x \in Span(l, n)
      PROVE  BlockOf(x) \in Window(l, n)
  <2>1. x \in Nat /\ l \in Nat /\ l + n - 1 \in Nat /\ l <= x /\ x <= l + n - 1
      BY <1>1, <1>2, <1>3 DEF Span
  <2>2. BlockOf(l) <= BlockOf(x) /\ BlockOf(x) <= BlockOf(l + n - 1)
        /\ BlockOf(l) \in Nat /\ BlockOf(x) \in Nat
      BY <2>1, DivMonotone, StoreGeometry DEF BlockOf
  <2>3. BlockOf(l + n - 1) \in Nat
      BY <2>1, DivMonotone, StoreGeometry DEF BlockOf
  <2>4. QED
      BY <2>2, <2>3 DEF Window
<1>6. l \in Span(l, n) /\ l + n - 1 \in Span(l, n)
    BY <1>1, <1>2, <1>3 DEF Span
<1>7. BlockOf(l) \in Block /\ BlockOf(l + n - 1) \in Block
    BY <1>1, EntryOfSector
<1>8. Window(l, n) \subseteq Block
    BY <1>7, StoreGeometry DEF Window, Block
<1>9. ASSUME NEW b \in Block, NEW e \in Entry, At(b, e) \in Span(l, n)
      PROVE  b \in Window(l, n)
    BY <1>5, <1>9, SectorOfEntry
<1>10. QED
    BY <1>1, <1>2, <1>4, <1>5, <1>6, <1>8, <1>9

\* The bitmap sector of a block.
LEMMA SectorFacts ==
    ASSUME NEW b \in Block, NEW c \in Block
    PROVE  SectorOf(b) \in Nat /\ (b <= c => SectorOf(b) <= SectorOf(c))
<1>1. b \in Nat /\ c \in Nat
    BY StoreGeometry DEF Block
<1>2. QED
    BY <1>1, DivMonotone, StoreGeometry DEF SectorOf

\* The values a tag may have are told apart.
LEMMA ValueFacts ==
    /\ Unset # Junk
    /\ \A v \in Values : v # Junk /\ v # Unset
    /\ {Unset, Stale, Junk} \subseteq Text /\ Values \subseteq Text
    /\ Blank \in TagBlock /\ Earlier \in TagBlock
<1>1. Unset # Junk
  <2>1. SUFFICES ASSUME Unset = Junk PROVE FALSE
      OBVIOUS
  <2>2. {Unset, Stale, Junk} = {Unset} \cup {Stale}
      BY <2>1
  <2>3. IsFiniteSet({Unset}) /\ Cardinality({Unset}) = 1
      BY FS_Singleton
  <2>4. Cardinality({Unset} \cup {Stale}) \in {1, 2}
      BY <2>3, FS_AddElement
  <2>5. QED
      BY <2>2, <2>4, StoreValues
<1>2. QED
    BY <1>1, StoreValues DEF Text, TagBlock, Blank, Earlier

-----------------------------------------------------------------------------
(* The card *)

\* A record of what the sectors in D hold and may hold, some not yet synced.
Medium(s, D, V) ==
    /\ s = [now |-> s.now, may |-> s.may, wet |-> s.wet] /\ s.wet \subseteq D
    /\ s.now \in [D -> V] /\ s.may \in [D -> SUBSET V]
    /\ \A x \in D : s.now[x] \in s.may[x]

\* r is s with the sectors in W written.
WrittenAs(s, r, D, V, new, W) ==
    /\ Medium(r, D, V) /\ r.wet = s.wet \cup W
    /\ \A x \in W : r.now[x] = new[x] /\ r.may[x] = s.may[x] \cup {new[x]}
    /\ \A x \in D \ W : r.now[x] = s.now[x] /\ r.may[x] = s.may[x]

\* A write that is not synced adds to what its sectors may hold.
LEMMA WrittenFacts ==
    ASSUME NEW s, NEW D, NEW V, Medium(s, D, V), NEW W \in SUBSET D,
           NEW new, \A x \in W : new[x] \in V
    PROVE  WrittenAs(s, Written(s, new, W), D, V, new, W)
<1> DEFINE now == [x \in D |-> IF x \in W THEN new[x] ELSE s.now[x]]
           later == [x \in D |-> IF x \in W THEN s.may[x] \cup {new[x]} ELSE s.may[x]]
<1>1. Written(s, new, W) = [now |-> now, may |-> later, wet |-> s.wet \cup W]
    BY DEF Written, Medium
<1>2. now \in [D -> V] /\ later \in [D -> SUBSET V]
    BY DEF Medium
<1>3. \A x \in W : now[x] = new[x] /\ later[x] = s.may[x] \cup {new[x]}
    OBVIOUS
<1>4. \A x \in D \ W : now[x] = s.now[x] /\ later[x] = s.may[x]
    OBVIOUS
<1>5. \A x \in D : now[x] \in later[x]
    BY <1>3, <1>4 DEF Medium
<1>6. s.wet \cup W \subseteq D
    BY DEF Medium
<1> HIDE DEF now, later
<1>7. QED
    BY <1>1, <1>2, <1>3, <1>4, <1>5, <1>6 DEF Medium, WrittenAs

\* r is s with the sectors in W written, and then left with f.
LeftAs(s, r, D, V, new, f, W) ==
    /\ Medium(r, D, V) /\ r.wet = s.wet \cup W
    /\ \A x \in W : r.may[x] = s.may[x] \cup {new[x], f[x]}
    /\ \A x \in D \ W : r.may[x] = s.may[x]

\* A write that fails leaves its sectors with what was written, or something else.
LEMMA LeftFacts ==
    ASSUME NEW s, NEW D, NEW V, Medium(s, D, V), NEW W \in SUBSET D,
           NEW new, \A x \in W : new[x] \in V, NEW f, \A x \in W : f[x] \in V
    PROVE  LeftAs(s, Written(Written(s, new, W), f, W), D, V, new, f, W)
<1> DEFINE q == Written(s, new, W)
<1>1. WrittenAs(s, q, D, V, new, W)
    BY WrittenFacts, Zenon
<1> HIDE DEF q
<1>2. Medium(q, D, V)
    BY <1>1 DEF WrittenAs
<1> DEFINE r == Written(q, f, W)
<1>3. WrittenAs(q, r, D, V, f, W)
    BY <1>2, WrittenFacts, Zenon
<1> HIDE DEF r
<1>4. LeftAs(s, r, D, V, new, f, W)
    BY <1>1, <1>3 DEF WrittenAs, LeftAs
<1>5. QED
    BY <1>4 DEF q, r

\* After a restart every sector is settled: some hold what f says.
LEMMA RestartedFacts ==
    ASSUME NEW s, NEW D, NEW V, Medium(s, D, V), NEW f,
           DOMAIN f \subseteq D, \A x \in DOMAIN f : f[x] \in V
    PROVE  LET r == Restarted(s, f)
           IN /\ Medium(r, D, V) /\ r.wet = {}
              /\ \A x \in D : r.may[x] = {r.now[x]}
              /\ \A x \in DOMAIN f : r.now[x] = f[x]
              /\ \A x \in D \ DOMAIN f : r.now[x] = s.now[x]
<1> DEFINE now == [x \in D |-> IF x \in DOMAIN f THEN f[x] ELSE s.now[x]]
           later == [x \in D |-> {now[x]}]
<1>1. Restarted(s, f) = [now |-> now, may |-> later, wet |-> {}]
    BY DEF Restarted, Medium
<1>2. \A x \in DOMAIN f : now[x] = f[x]
    OBVIOUS
<1>3. \A x \in D \ DOMAIN f : now[x] = s.now[x]
    OBVIOUS
<1>4. \A x \in D : now[x] \in V
    BY DEF Medium
<1>5. now \in [D -> V] /\ later \in [D -> SUBSET V]
    BY <1>4
<1>6. \A x \in D : later[x] = {now[x]}
    OBVIOUS
<1> HIDE DEF now, later
<1>7. QED
    BY <1>1, <1>2, <1>3, <1>5, <1>6 DEF Medium

\* A choice chooses.
LEMMA ChoicesFacts ==
    ASSUME NEW C, NEW f \in Choices(C)
    PROVE  DOMAIN f = DOMAIN C /\ \A x \in DOMAIN C : f[x] \in C[x]
BY DEF Choices

\* An entry of a torn block is that of one it may have been, unset or junk.
LEMMA TornFacts ==
    ASSUME NEW C \in SUBSET TagBlock, NEW t \in TornFrom(C)
    PROVE  t \in TagBlock /\ \A e \in Entry : t[e] \in EntriesOf(C, e) \cup {Unset, Junk}
<1>1. \A e \in Entry : t[e] \in EntriesOf(C, e) \cup {Unset, Junk}
    BY DEF TornFrom
<1>2. \A e \in Entry : EntriesOf(C, e) \subseteq Text
    BY DEF EntriesOf, TagBlock
<1>3. \A e \in Entry : t[e] \in Text
    BY <1>1, <1>2, ValueFacts
<1>4. \E X : t \in [Entry -> X]
    BY DEF TornFrom
<1>5. QED
    BY <1>1, <1>3, <1>4 DEF TagBlock

\* A sector in t that is not damaged has the entry of one of those in C.
LEMMA DamagedFacts ==
    ASSUME NEW C, NEW t, NEW b \in Block, b \in DOMAIN t, NEW e \in Entry, At(b, e) \notin Damaged(t, C)
    PROVE  t[b][e] \in EntriesOf(C[b], e)
BY SectorOfEntry DEF Damaged

\* A block whose bit is as in neither old nor new is flipped with all its sectors.
LEMMA FlippedFacts ==
    ASSUME NEW k, NEW old, NEW new, NEW b \in Block, NEW e \in Entry, At(b, e) \notin Flipped(k, old, new)
    PROVE  (b \in k /\ (b \in old \/ b \in new)) \/ (b \notin k /\ (b \notin old \/ b \notin new))
BY SectorOfEntry DEF Flipped

\* What is lost counts as hurt and may read as zeros; nothing else changes.
LEMMA LoseFacts ==
    ASSUME HistoryType, NEW X, Lose(X), X \subseteq Lba
    PROVE  /\ HistoryType' /\ hurt \subseteq hurt'
           /\ \A x \in X : x \in hurt' /\ Unset \in may'[x]
           /\ \A x \in Lba : may[x] \subseteq may'[x]
<1>1. hurt' = hurt \cup X
    BY DEF Lose
<1>2. may' = [x \in Lba |-> IF x \in X THEN may[x] \cup {Unset} ELSE may[x]]
    BY DEF Lose
<1>3. QED
    BY <1>1, <1>2, ValueFacts DEF HistoryType

\* A sync settles every sector.
LEMMA SyncedFacts ==
    ASSUME StoreType, Synced
    PROVE  /\ DataType' /\ TagsType' /\ BitsType'
           /\ data'.now = data.now /\ data'.wet = {} /\ \A x \in Lba : data'.may[x] = {data.now[x]}
           /\ tags'.now = tags.now /\ \A b \in Block : tags'.may[b] = {tags.now[b]}
           /\ bits'.now = bits.now /\ bits'.kept = bits.now
<1>1. /\ data' = [data EXCEPT !.may = [x \in Lba |-> {data.now[x]}], !.wet = {}]
      /\ tags' = [tags EXCEPT !.may = [b \in Block |-> {tags.now[b]}], !.wet = {}]
      /\ bits' = [bits EXCEPT !.kept = bits.now, !.wet = {}]
    BY DEF Synced
<1>2. /\ data' = [now |-> data.now, may |-> [x \in Lba |-> {data.now[x]}], wet |-> {}]
      /\ data.now \in [Lba -> Text]
  <2>1. data = [now |-> data.now, may |-> data.may, wet |-> data.wet] /\ data.now \in [Lba -> Text]
      BY DEF StoreType, DataType
  <2>2. QED
      BY <1>1, <2>1
<1>3. /\ tags' = [now |-> tags.now, may |-> [b \in Block |-> {tags.now[b]}], wet |-> {}]
      /\ tags.now \in [Block -> TagBlock]
  <2>1. tags = [now |-> tags.now, may |-> tags.may, wet |-> tags.wet] /\ tags.now \in [Block -> TagBlock]
      BY DEF StoreType, TagsType
  <2>2. QED
      BY <1>1, <2>1
<1>4. bits' = [now |-> bits.now, kept |-> bits.now, wet |-> {}] /\ bits.now \subseteq Block
    BY <1>1 DEF StoreType, BitsType
<1>5. /\ DataType'
      /\ data'.now = data.now /\ data'.wet = {} /\ \A x \in Lba : data'.may[x] = {data.now[x]}
    BY <1>2 DEF DataType
<1>6. /\ TagsType'
      /\ tags'.now = tags.now /\ \A b \in Block : tags'.may[b] = {tags.now[b]}
    BY <1>3 DEF TagsType
<1>7. BitsType' /\ bits'.now = bits.now /\ bits'.kept = bits.now
    BY <1>4 DEF BitsType
<1>8. QED
    BY <1>5, <1>6, <1>7

-----------------------------------------------------------------------------
(* The caches *)

\* bitmap_load gives what the card holds, from RAM or not.
LEMMA BitmapLoadedFacts ==
    ASSUME StoreType, BitmapInv, NEW b \in Block
    PROVE  BitmapLoaded(b) = [sector |-> SectorOf(b), bits |-> {c \in bits.now : SectorOf(c) = SectorOf(b)}]
<1>1. SectorOf(b) # -1
    BY SectorFacts
<1>2. CASE bcache.sector = SectorOf(b)
  <2>1. bcache = [sector |-> bcache.sector, bits |-> bcache.bits]
      BY DEF StoreType, CacheType
  <2>2. QED
      BY <1>1, <1>2, <2>1 DEF BitmapLoaded, BitmapInv
<1>3. CASE bcache.sector # SectorOf(b)
    BY <1>3 DEF BitmapLoaded
<1>4. QED
    BY <1>2, <1>3

\* The initialised blocks of a window are the ones the bitmap declares.
LEMMA InitialisedFacts ==
    ASSUME StoreType, BitmapInv, NEW W \in SUBSET Block
    PROVE  Initialised(W) = W \cap bits.now
<1>1. \A b \in W : b \in BitmapLoaded(b).bits <=> b \in bits.now
    BY BitmapLoadedFacts
<1>2. QED
    BY <1>1, Zenon DEF Initialised

\* A loaded window agrees with the card.
LEMMA LoadedFacts ==
    ASSUME StoreInv, pc = "idle", NEW W \in SUBSET Block
    PROVE  LET c == Loaded(W)
           IN /\ c \in [blocks : SUBSET Block, tag : [Block -> TagBlock], init : SUBSET Block]
              /\ W \subseteq c.blocks
              /\ lazy => c.init \subseteq bits.now
              /\ \A b \in c.blocks : c.tag[b] = Fetched(b)
<1>1. CASE Hit(W)
    BY <1>1 DEF Loaded, Hit, StoreInv, StoreType, CacheType, CacheInv
<1>2. CASE ~Hit(W)
  <2> DEFINE init == IF lazy THEN Initialised(W) ELSE {}
             tag == [b \in Block |-> IF b \in W /\ (lazy => b \in init) THEN tags.now[b] ELSE Blank]
  <2>1. Loaded(W) = [blocks |-> W, init |-> init, tag |-> tag]
      BY <1>2, Zenon DEF Loaded
  <2>2. init \in SUBSET Block /\ (lazy => init \subseteq bits.now /\ init = W \cap bits.now)
      BY InitialisedFacts DEF StoreInv
  <2>3. tag \in [Block -> TagBlock]
      BY ValueFacts DEF StoreInv, StoreType, TagsType
  <2>4. \A b \in W : tag[b] = Fetched(b)
    <3>1. \A b \in W : (lazy => b \in init) <=> Exists(b)
        BY <2>2 DEF Exists
    <3> HIDE DEF init
    <3>2. QED
        BY <3>1 DEF Fetched
  <2> HIDE DEF init, tag
  <2>5. QED
      BY <2>1, <2>2, <2>3, <2>4
<1>3. QED
    BY <1>1, <1>2

\* The bitmap sector a load leaves in RAM is the one on the card.
LEMMA BitmapAfterFacts ==
    ASSUME StoreInv, NEW l, NEW n, <<l, n>> \in Batch
    PROVE  LET k == BitmapAfter(Window(l, n))
           IN /\ k \in [sector : Int, bits : SUBSET Block]
              /\ k.sector # -1 => k.bits = {c \in bits.now : SectorOf(c) = k.sector}
<1> DEFINE W == Window(l, n)
           last == CHOOSE b \in W : \A c \in W : c <= b
           held == {c \in bits.now : SectorOf(c) = SectorOf(last)}
<1>1. last \in W /\ W \subseteq Block
  <2>1. BlockOf(l + n - 1) \in W /\ W \subseteq Block
      BY BatchFacts
  <2>2. \A c \in W : c <= BlockOf(l + n - 1)
      BY <2>1, StoreGeometry DEF Window, Block
  <2>3. QED
      BY <2>1, <2>2
<1>2. CASE Hit(W) \/ ~lazy
    BY <1>2 DEF BitmapAfter, StoreInv, StoreType, CacheType, BitmapInv
<1>3. CASE ~(Hit(W) \/ ~lazy)
  <2>1. BitmapLoaded(last) = [sector |-> SectorOf(last), bits |-> held]
      BY <1>1, BitmapLoadedFacts DEF StoreInv
  <2>2. BitmapAfter(W) = [sector |-> SectorOf(last), bits |-> held]
      BY <1>3, <2>1, Zenon DEF BitmapAfter
  <2>3. SectorOf(last) \in Int /\ held \in SUBSET Block
      BY <1>1, SectorFacts DEF StoreInv, StoreType, BitsType
  <2> HIDE DEF last
  <2>4. QED
      BY <2>2, <2>3
<1>4. QED
    BY <1>2, <1>3

\* The bitmap sector publish writes back: what it held, and the blocks at hand.
LEMMA MarkedFacts ==
    ASSUME StoreInv, pc = "bits"
    PROVE  /\ Marked.sector = SectorOf(job.at) /\ Marked \in [sector : Int, bits : SUBSET Block]
           /\ Marked.bits = {c \in bits.now : SectorOf(c) = SectorOf(job.at)} \cup Here
           /\ \A b \in Here : b \in JobWindow /\ SectorOf(b) = SectorOf(job.at) /\ b \in Block
<1>1. job.at \in Block /\ lazy
    BY DEF StoreInv, StoreType, JobType, WriteInv
<1>2. JobWindow \subseteq Block
    BY BatchFacts DEF StoreInv, WriteInv, JobWindow
<1>3. Marked = [sector |-> SectorOf(job.at),
                bits |-> {c \in bits.now : SectorOf(c) = SectorOf(job.at)} \cup (Here \ cache.init)]
  <2>1. BitmapLoaded(job.at).bits = {c \in bits.now : SectorOf(c) = SectorOf(job.at)}
      BY <1>1, BitmapLoadedFacts DEF StoreInv
  <2>2. QED
      BY <2>1, Zenon DEF Marked
<1>4. \A b \in Here : b \in JobWindow /\ SectorOf(b) = SectorOf(job.at) /\ b \in Block
    BY <1>2 DEF Here
<1>5. \A b \in Here \cap cache.init : b \in bits.now
    BY <1>1 DEF StoreInv, CacheInv
<1>6. SectorOf(job.at) \in Int /\ bits.now \subseteq Block
    BY <1>1, SectorFacts DEF StoreInv, StoreType, BitsType
<1>7. QED
    BY <1>3, <1>4, <1>5, <1>6

\* A write of the bitmap sector at hand: the whole of it, with the blocks at
\* hand added, or anything else in that sector and nothing outside it.
LEMMA BitmapWrittenFacts ==
    ASSUME StoreInv, pc = "bits"
    PROVE  /\ bits' = BitmapWritten(Marked.bits) => BitsType'
           /\ BitmapWritten(Marked.bits).now = bits.now \cup Here
           /\ BitmapWritten(Marked.bits).kept = bits.kept
           /\ \A k \in SUBSET InSector :
                 /\ bits' = BitmapWritten(k) => BitsType'
                 /\ BitmapWritten(k).kept = bits.kept
<1>1. /\ Marked.bits = {c \in bits.now : SectorOf(c) = SectorOf(job.at)} \cup Here
      /\ Here \subseteq InSector /\ InSector \subseteq Block
      /\ \A c \in Block : c \in InSector <=> SectorOf(c) = SectorOf(job.at)
    BY MarkedFacts DEF InSector
<1>2. bits.now \subseteq Block /\ bits.kept \subseteq Block /\ bits.wet \subseteq Block
    BY DEF StoreInv, StoreType, BitsType
<1>3. BitmapWritten(Marked.bits) =
          [now |-> bits.now \cup Here, kept |-> bits.kept, wet |-> bits.wet \cup InSector]
  <2>1. (bits.now \ InSector) \cup Marked.bits = bits.now \cup Here
      BY <1>1, <1>2
  <2>2. QED
      BY <2>1 DEF BitmapWritten
<1>4. ASSUME NEW k \in SUBSET InSector
      PROVE  /\ bits' = BitmapWritten(k) => BitsType'
             /\ BitmapWritten(k).kept = bits.kept
    BY <1>1, <1>2 DEF BitmapWritten, BitsType
<1>5. bits' = BitmapWritten(Marked.bits) => BitsType'
    BY <1>1, <1>2, <1>3 DEF BitsType
<1>6. QED
    BY <1>3, <1>4, <1>5

\* A set of numbers that is not empty has a least one.
LEMMA LeastNat ==
    ASSUME NEW S, S \subseteq Nat, S # {}
    PROVE  \E x \in S : \A y \in S : x <= y
<1> DEFINE R == OpToRel(<, Nat)
<1>1. PICK x \in S : \A y \in S : ~(<<y, x>> \in R)
    BY NatLessThanWellFounded, WFMin
<1>2. ASSUME NEW y \in S
      PROVE  x <= y
  <2>1. x \in Nat /\ y \in Nat
      OBVIOUS
  <2>2. y < x => <<y, x>> \in R
      BY <2>1 DEF OpToRel
  <2>3. ~(y < x)
      BY <1>1, <2>2, Zenon
  <2>4. QED
      BY <2>1, <2>3
<1>3. QED
    BY <1>2

\* publish goes on to the window's next bitmap sector and skips none.
LEMMA AdvanceFacts ==
    ASSUME StoreInv, pc \in {"bits", "bitsync"}, Advance
    PROVE  \/ /\ pc' = "sync" /\ job' = job
              /\ cache' = [cache EXCEPT !.init = cache.init \cup JobWindow]
              /\ \A b \in JobWindow : SectorOf(b) <= SectorOf(job.at)
           \/ /\ pc' = "bits" /\ cache' = cache
              /\ job' = [job EXCEPT !.at = job'.at] /\ job'.at \in JobWindow
              /\ \A b \in JobWindow : SectorOf(b) < SectorOf(job'.at) => SectorOf(b) <= SectorOf(job.at)
<1> DEFINE rest == {b \in JobWindow : SectorOf(b) > SectorOf(job.at)}
           next == CHOOSE b \in rest : \A c \in rest : b <= c
<1>0. /\ JobWindow \subseteq Block /\ job.at \in Block
      /\ job = [l |-> job.l, n |-> job.n, v |-> job.v, at |-> job.at]
    BY BatchFacts DEF StoreInv, StoreType, WriteInv, JobType, JobWindow
<1>1. \A b \in Block : SectorOf(b) \in Nat
    BY SectorFacts
<1>2. CASE rest = {}
  <2>1. /\ pc' = "sync" /\ job' = job
        /\ cache' = [cache EXCEPT !.init = cache.init \cup JobWindow]
      BY <1>2 DEF Advance
  <2>2. \A b \in JobWindow : SectorOf(b) <= SectorOf(job.at)
      BY <1>0, <1>1, <1>2
  <2>3. QED
      BY <2>1, <2>2
<1>3. CASE rest # {}
  <2>1. pc' = "bits" /\ cache' = cache /\ job' = [job EXCEPT !.at = next]
      BY <1>3 DEF Advance
  <2>2. next \in rest /\ \A c \in rest : next <= c
    <3>1. rest \subseteq Nat
        BY <1>0, StoreGeometry DEF Block
    <3>2. \E b \in rest : \A c \in rest : b <= c
        BY <1>3, <3>1, LeastNat
    <3> HIDE DEF rest
    <3>3. QED
        BY <3>2
  <2>3. job'.at = next
      BY <1>0, <2>1
  <2> HIDE DEF next
  <2>4. ASSUME NEW b \in JobWindow, SectorOf(b) < SectorOf(next)
        PROVE  SectorOf(b) <= SectorOf(job.at)
    <3>1. b \in Block /\ next \in Block
        BY <1>0, <2>2
    <3>2. b \notin rest
        BY <2>2, <2>4, <3>1, <1>1, SectorFacts
    <3>3. QED
        BY <1>0, <1>1, <3>1, <3>2
  <2>5. QED
      BY <2>1, <2>2, <2>3, <2>4
<1>4. QED
    BY <1>2, <1>3

-----------------------------------------------------------------------------
(* The steps *)

\* The running write's sectors and blocks exist.
LEMMA JobFacts ==
    ASSUME StoreInv, pc # "idle"
    PROVE  /\ JobRange \subseteq Lba /\ JobWindow \subseteq Block /\ store = "ready"
           /\ \A b \in Block, e \in Entry : At(b, e) \in JobRange => b \in JobWindow
           /\ job.v \in Values /\ job.v \in Text
<1>1. <<job.l, job.n>> \in Batch /\ job.v \in Values
    BY DEF StoreInv, WriteInv
<1>2. store = "ready"
    BY DEF StoreInv, ClosedInv
<1>3. QED
    BY <1>1, <1>2, BatchFacts, ValueFacts DEF JobRange, JobWindow

\* A closed store satisfies whatever is about the caches and the running write.
LEMMA ClosedStep ==
    ASSUME Closed
    PROVE  CacheType' /\ JobType' /\ BitmapInv' /\ CacheInv' /\ ClosedInv' /\ WriteInv'
<1>1. store' = "closed" /\ cache' = NoCache /\ bcache' = NoBitmap /\ pc' = "idle" /\ job' = NoJob
    BY DEF Closed
<1>2. /\ NoCache.blocks = {} /\ NoCache.init = {}
      /\ NoCache \in [blocks : SUBSET Block, tag : [Block -> TagBlock], init : SUBSET Block]
    BY ValueFacts DEF NoCache
<1>3. NoBitmap.sector = -1 /\ NoBitmap \in [sector : Int, bits : SUBSET Block]
    BY DEF NoBitmap
<1>4. NoJob \in [l : Lba, n : Nat, v : Text, at : Block]
  <2>1. 0 \in Block /\ 0 \in Entry
      BY StoreGeometry DEF Block, Entry
  <2>2. At(0, 0) = 0
      BY StoreGeometry DEF At
  <2>3. 0 \in Lba
      BY <2>1, <2>2, SectorOfEntry
  <2>4. QED
      BY <2>1, <2>3, ValueFacts DEF NoJob
<1>5. CacheType' /\ JobType'
    BY <1>1, <1>2, <1>3, <1>4 DEF CacheType, JobType, Phase
<1>6. BitmapInv' /\ CacheInv'
    BY <1>1, <1>2, <1>3 DEF BitmapInv, CacheInv
<1>7. ClosedInv' /\ WriteInv'
    BY <1>1 DEF ClosedInv, WriteInv
<1>8. QED
    BY <1>5, <1>6, <1>7

\* Nothing on the card and nothing promised changes.
LEMMA SafeSame ==
    ASSUME SafeInv, UNCHANGED <<lazy, data, tags, bits, may, hurt>>, store # "raw"
    PROVE  SafeInv'
BY DEF SafeInv, SafeAt, Fits, Exists, Kept, Shown

\* A sync only narrows what a restart can find.
LEMMA SafeSynced ==
    ASSUME StoreInv, Synced, UNCHANGED lazy, store # "raw", NEW b \in Block, NEW e \in Entry,
           may'[At(b, e)] = may[At(b, e)], At(b, e) \in hurt => At(b, e) \in hurt'
    PROVE  SafeAt(b, e)'
<1>1. /\ data'.now = data.now /\ data'.wet = {} /\ \A x \in Lba : data'.may[x] = {data.now[x]}
      /\ tags'.now = tags.now /\ \A k \in Block : tags'.may[k] = {tags.now[k]}
      /\ bits'.now = bits.now /\ bits'.kept = bits.now
    BY SyncedFacts DEF StoreInv
<1>2. /\ \A x \in Lba : data.now[x] \in data.may[x]
      /\ \A k \in Block : tags.now[k] \in tags.may[k]
    BY DEF StoreInv, StoreType, DataType, TagsType
<1> DEFINE x == At(b, e)
<1>4. x \in Lba /\ SafeAt(b, e)
    BY SectorOfEntry DEF StoreInv, SafeInv
<1>5. /\ Exists(b)' <=> Exists(b)
      /\ Kept(b)' <=> Exists(b)
      /\ Shown(b)' <=> Exists(b)
      /\ Exists(b) => Shown(b)
    BY <1>1 DEF Exists, Kept, Shown
<1>6. \A v : Fits(x, v) => Fits(x, v)'
    BY <1>1, <1>2, <1>4 DEF Fits
<1> HIDE DEF x
<1>7. data'.may[x] \subseteq may'[x] \cup {Junk}
    BY <1>1, <1>2, <1>4 DEF SafeAt, x
<1>8. /\ ~Kept(b)' \/ ~Exists(b)' => Unset \in may'[x]
      /\ Kept(b)' /\ ~Exists(b)' => x \in hurt'
    BY <1>4, <1>5 DEF SafeAt, x
<1>9. Shown(b)' => \A t \in tags'.may[b] : t[e] = Unset => Unset \in may'[x]
    BY <1>1, <1>2, <1>4, <1>5 DEF SafeAt, x
<1>10. ASSUME Shown(b)', x \notin hurt', NEW t \in tags'.may[b]
       PROVE  Fits(x, t[e])'
  <2>1. t = tags.now[b] /\ t \in tags.may[b]
      BY <1>1, <1>2
  <2>2. Fits(x, t[e])
      BY <1>4, <1>5, <1>10, <2>1 DEF SafeAt, x
  <2>3. QED
      BY <1>6, <2>2 DEF Fits
<1>11. QED
    BY <1>7, <1>8, <1>9, <1>10 DEF SafeAt, Fits, x

\* Opening, closing and a failing read.
LEMMA SessionStep ==
    ASSUME StoreInv, Open \/ Close \/ ReadFails
    PROVE  StoreInv'
<1>1. CASE Open
  <2> USE <1>1 DEF Open, card, history
  <2>1. StoreType'
      BY DEF StoreInv, StoreType, DataType, TagsType, BitsType, CacheType, JobType, HistoryType
  <2>2. SafeInv'
      BY SafeSame DEF StoreInv
  <2>3. BitmapInv' /\ CacheInv'
      BY DEF StoreInv, BitmapInv, CacheInv, Fetched, Exists, JobWindow
  <2>4. ClosedInv' /\ WriteInv'
      BY DEF StoreInv, ClosedInv, WriteInv
  <2>5. QED
      BY <2>1, <2>2, <2>3, <2>4 DEF StoreInv
<1>2. CASE Close \/ ReadFails
  <2>1. /\ Closed /\ UNCHANGED <<lazy, data, tags, bits, may, hurt>>
        /\ events' = events
        /\ store = "ready"
      BY <1>2 DEF Close, ReadFails, card, history
  <2>2. CacheType' /\ JobType' /\ BitmapInv' /\ CacheInv' /\ ClosedInv' /\ WriteInv'
      BY <2>1, ClosedStep
  <2>3. SafeInv'
      BY <2>1, SafeSame DEF StoreInv
  <2>5. StoreType'
      BY <2>1, <2>2 DEF StoreInv, StoreType, DataType, TagsType, BitsType, HistoryType, Closed
  <2>6. QED
      BY <2>2, <2>3, <2>5 DEF StoreInv
<1>3. QED
    BY <1>1, <1>2

\* A format starts the volume with what the bitmap or the tags now say.
LEMMA FormatStep ==
    ASSUME StoreInv, Format \/ FormatFails
    PROVE  StoreInv'
<1>0. /\ store = "raw" /\ pc = "idle" /\ cache = NoCache /\ bcache = NoBitmap
      /\ UNCHANGED <<lazy, data, cache, bcache, pc, job>>
      /\ store' # "ready"
    BY DEF Format, FormatFails, StoreInv, ClosedInv
<1>1. CacheType' /\ JobType' /\ DataType'
    BY <1>0 DEF StoreInv, StoreType, CacheType, JobType, DataType
<1>2. BitmapInv' /\ CacheInv' /\ ClosedInv' /\ WriteInv'
  <2>1. cache.blocks = {} /\ cache.init = {} /\ bcache.sector = -1
      BY <1>0 DEF NoCache, NoBitmap
  <2>2. ClosedInv'
      BY <1>0 DEF StoreInv, ClosedInv
  <2>3. QED
      BY <1>0, <2>1, <2>2 DEF BitmapInv, CacheInv, WriteInv
<1>3. CASE Format
  <2>1. HistoryType' /\ store' = "closed" /\ events' = events /\ hurt' = {}
        /\ may' = [x \in Lba |-> {Unset}]
      BY <1>3, ValueFacts DEF Format, HistoryType
  <2>2. \A x \in Lba : data'.may[x] \subseteq may'[x] \cup {Junk}
      BY <1>0, <2>1 DEF StoreInv, ClosedInv
  <2>3. CASE lazy
    <3>1. bits' = [now |-> {}, kept |-> {}, wet |-> {}] /\ tags' = tags
        BY <1>3, <2>3 DEF Format
    <3>2. StoreType'
        BY <1>0, <1>1, <2>1, <3>1 DEF StoreInv, StoreType, TagsType, BitsType
    <3>3. ASSUME NEW b \in Block, NEW e \in Entry
          PROVE  SafeAt(b, e)'
      <4>1. /\ At(b, e) \in Lba /\ may'[At(b, e)] = {Unset}
            /\ ~Exists(b)' /\ ~Kept(b)' /\ ~Shown(b)'
          BY <1>0, <2>1, <2>3, <3>1, SectorOfEntry DEF Exists, Kept, Shown
      <4>2. QED
          BY <2>2, <4>1 DEF SafeAt
    <3>4. QED
        BY <1>2, <3>2, <3>3 DEF StoreInv, SafeInv
  <2>4. CASE ~lazy
    <3>1. bits' = bits /\ tags' = Restarted(tags, [b \in Block |-> Blank])
        BY <1>3, <2>4 DEF Format
    <3>2. TagsType' /\ \A b \in Block : tags'.now[b] = Blank /\ tags'.may[b] = {Blank}
      <4> DEFINE f == [b \in Block |-> Blank]
      <4>1. DOMAIN f = Block /\ \A b \in DOMAIN f : f[b] \in TagBlock
          BY ValueFacts
      <4>2. \A b \in Block : f[b] = Blank
          OBVIOUS
      <4>3. tags' = Restarted(tags, f)
          BY <3>1
      <4> HIDE DEF f
      <4>4. Medium(tags, Block, TagBlock)
          BY DEF StoreInv, StoreType, TagsType, Medium
      <4>5. /\ Medium(tags', Block, TagBlock)
            /\ \A b \in Block : tags'.may[b] = {tags'.now[b]} /\ tags'.now[b] = f[b]
          BY <4>1, <4>3, <4>4, RestartedFacts
      <4>6. QED
          BY <4>2, <4>5 DEF Medium, TagsType
    <3>3. StoreType'
        BY <1>0, <1>1, <2>1, <3>1, <3>2 DEF StoreInv, StoreType, BitsType
    <3>4. ASSUME NEW b \in Block, NEW e \in Entry
          PROVE  SafeAt(b, e)'
      <4>1. /\ At(b, e) \in Lba /\ tags'.may[b] = {Blank} /\ Blank[e] = Unset
            /\ may'[At(b, e)] = {Unset} /\ Exists(b)' /\ Kept(b)'
          BY <1>0, <2>1, <2>4, <3>1, <3>2, SectorOfEntry DEF Blank, Exists, Kept
      <4>2. QED
          BY <2>2, <4>1 DEF SafeAt, Fits
    <3>5. QED
        BY <1>2, <3>3, <3>4 DEF StoreInv, SafeInv
  <2>5. QED
      BY <2>3, <2>4
<1>4. CASE FormatFails
  <2>1. /\ store' = "raw" /\ UNCHANGED <<may, hurt>>
        /\ events' \in 0 .. MaxEvents
      BY <1>4, StoreBounds DEF FormatFails, history, StoreInv, StoreType
  <2>2. TagsType' /\ BitsType'
    <3>1. CASE lazy
      <4>1. PICK W \in SUBSET Block : bits' = [now |-> W, kept |-> W, wet |-> {}] /\ tags' = tags
          BY <1>4, <3>1 DEF FormatFails
      <4>2. QED
          BY <4>1 DEF StoreInv, StoreType, TagsType, BitsType
    <3>2. CASE ~lazy
      <4> DEFINE C == [b \in Block |-> TornFrom({tags.now[b], Blank})]
      <4>1. PICK t \in Choices(C) : tags' = Restarted(tags, t) /\ bits' = bits
          BY <1>4, <3>2 DEF FormatFails
      <4>2. DOMAIN t = Block /\ \A b \in Block : t[b] \in TornFrom({tags.now[b], Blank})
        <5>1. DOMAIN C = Block /\ \A b \in Block : C[b] = TornFrom({tags.now[b], Blank})
            OBVIOUS
        <5> HIDE DEF C
        <5>2. QED
            BY <4>1, <5>1, ChoicesFacts
      <4>3. \A b \in Block : t[b] \in TagBlock
        <5>1. \A b \in Block : {tags.now[b], Blank} \in SUBSET TagBlock
            BY ValueFacts DEF StoreInv, StoreType, TagsType
        <5>2. QED
            BY <4>2, <5>1, TornFacts
      <4>4. Medium(tags, Block, TagBlock)
          BY DEF StoreInv, StoreType, TagsType, Medium
      <4>5. Medium(tags', Block, TagBlock)
          BY <4>1, <4>2, <4>3, <4>4, RestartedFacts
      <4>6. QED
          BY <4>1, <4>5 DEF Medium, StoreInv, StoreType, TagsType, BitsType
    <3>3. QED
        BY <3>1, <3>2
  <2>3. StoreType'
      BY <1>0, <1>1, <2>1, <2>2 DEF StoreInv, StoreType, HistoryType
  <2>4. QED
      BY <1>2, <2>1, <2>3 DEF StoreInv, SafeInv
<1>5. QED
    BY <1>3, <1>4

\* A power cut leaves each sector with something a whole write left there, or
\* counts it as torn.
LEMMA PowerCutStep ==
    ASSUME StoreInv, PowerCut
    PROVE  StoreInv'
<1>0. /\ store # "raw" /\ store' = "closed" /\ Closed /\ UNCHANGED lazy
      /\ events' \in 0 .. MaxEvents
    BY StoreBounds DEF PowerCut, Closed, StoreInv, StoreType
<1>1. CacheType' /\ JobType' /\ BitmapInv' /\ CacheInv' /\ ClosedInv' /\ WriteInv'
    BY <1>0, ClosedStep
<1> DEFINE CD == [x \in data.wet |-> data.may[x] \cup {Junk}]
           CT == [b \in tags.wet |-> TornFrom(tags.may[b])]
           K(w) == (bits.now \ bits.wet) \cup w
           X(t, w) == Damaged(t, tags.may) \cup Flipped(K(w), bits.kept, bits.now)
<1>2. PICK d \in Choices(CD), t \in Choices(CT), w \in SUBSET bits.wet :
        /\ data' = Restarted(data, d)
        /\ tags' = Restarted(tags, t)
        /\ bits' = [now |-> K(w), kept |-> K(w), wet |-> {}]
        /\ Lose(X(t, w))
    BY DEF PowerCut, Survive
<1>3. Medium(data, Lba, Text) /\ Medium(tags, Block, TagBlock)
    BY DEF StoreInv, StoreType, DataType, TagsType, Medium
<1>4. /\ Medium(data', Lba, Text) /\ data'.wet = {}
      /\ \A x \in Lba : /\ data'.may[x] = {data'.now[x]}
                        /\ data'.now[x] \in data.may[x] \cup {Junk}
                        /\ x \notin data.wet => data'.now[x] \in data.may[x]
  <2>1. DOMAIN d = data.wet /\ \A x \in data.wet : d[x] \in data.may[x] \cup {Junk}
    <3>1. DOMAIN CD = data.wet /\ \A x \in data.wet : CD[x] = data.may[x] \cup {Junk}
        OBVIOUS
    <3> HIDE DEF CD
    <3>2. QED
        BY <1>2, <3>1, ChoicesFacts
  <2>2. DOMAIN d \subseteq Lba /\ \A x \in DOMAIN d : d[x] \in Text
      BY <1>3, <2>1, ValueFacts DEF Medium
  <2>3. /\ Medium(data', Lba, Text) /\ data'.wet = {}
        /\ \A x \in Lba : data'.may[x] = {data'.now[x]}
        /\ \A x \in DOMAIN d : data'.now[x] = d[x]
        /\ \A x \in Lba \ DOMAIN d : data'.now[x] = data.now[x]
      BY <1>2, <1>3, <2>2, RestartedFacts
  <2>4. QED
      BY <1>3, <2>1, <2>3 DEF Medium
<1>5. /\ Medium(tags', Block, TagBlock)
      /\ \A b \in Block : tags'.may[b] = {tags'.now[b]}
      /\ \A b \in Block, e \in Entry :
            At(b, e) \notin Damaged(t, tags.may) => tags'.now[b][e] \in EntriesOf(tags.may[b], e)
  <2>1. DOMAIN t = tags.wet /\ \A b \in tags.wet : t[b] \in TornFrom(tags.may[b])
    <3>1. DOMAIN CT = tags.wet /\ \A b \in tags.wet : CT[b] = TornFrom(tags.may[b])
        OBVIOUS
    <3> HIDE DEF CT
    <3>2. QED
        BY <1>2, <3>1, ChoicesFacts
  <2>2. DOMAIN t \subseteq Block /\ \A b \in DOMAIN t : t[b] \in TagBlock
    <3>1. \A b \in Block : tags.may[b] \in SUBSET TagBlock
        BY <1>3 DEF Medium
    <3>2. tags.wet \subseteq Block
        BY <1>3 DEF Medium
    <3>3. QED
        BY <2>1, <3>1, <3>2, TornFacts
  <2>3. /\ Medium(tags', Block, TagBlock)
        /\ \A b \in Block : tags'.may[b] = {tags'.now[b]}
        /\ \A b \in DOMAIN t : tags'.now[b] = t[b]
        /\ \A b \in Block \ DOMAIN t : tags'.now[b] = tags.now[b]
      BY <1>2, <1>3, <2>2, RestartedFacts
  <2>4. ASSUME NEW b \in Block, NEW e \in Entry, At(b, e) \notin Damaged(t, tags.may)
        PROVE  tags'.now[b][e] \in EntriesOf(tags.may[b], e)
    <3>1. CASE b \in DOMAIN t
        BY <2>3, <2>4, <3>1, DamagedFacts
    <3>2. CASE b \notin DOMAIN t
      <4>1. tags'.now[b] \in tags.may[b]
          BY <1>3, <2>3, <3>2 DEF Medium
      <4>2. QED
          BY <4>1 DEF EntriesOf
    <3>3. QED
        BY <3>1, <3>2
  <2>5. QED
      BY <2>3, <2>4
<1>6. /\ BitsType' /\ bits'.now = K(w) /\ bits'.kept = K(w)
      /\ \A b \in Block \ bits.wet : b \in K(w) <=> b \in bits.now
    BY <1>2 DEF StoreInv, StoreType, BitsType
<1>7. /\ HistoryType' /\ hurt \subseteq hurt'
      /\ \A x \in X(t, w) : x \in hurt' /\ Unset \in may'[x]
      /\ \A x \in Lba : may[x] \subseteq may'[x]
  <2>1. X(t, w) \subseteq Lba /\ Lose(X(t, w))
      BY <1>2 DEF Damaged, Flipped
  <2>2. HistoryType
      BY DEF StoreInv, StoreType
  <2> HIDE DEF X
  <2>3. QED
      BY <2>1, <2>2, LoseFacts
<1>8. StoreType'
    BY <1>0, <1>1, <1>4, <1>5, <1>6, <1>7 DEF StoreInv, StoreType, DataType, TagsType, Medium
<1> DEFINE dam == Damaged(t, tags.may)
           flip == Flipped(K(w), bits.kept, bits.now)
           k == K(w)
<1>9. X(t, w) = dam \cup flip
    OBVIOUS
<1>10. \A b \in Block, e \in Entry :
           At(b, e) \notin flip => \/ b \in k /\ (b \in bits.kept \/ b \in bits.now)
                                   \/ b \notin k /\ (b \notin bits.kept \/ b \notin bits.now)
    BY FlippedFacts
<1> HIDE DEF dam, flip, k, K, X
<1>11. ASSUME NEW b \in Block, NEW e \in Entry
       PROVE  SafeAt(b, e)'
  <2> DEFINE x == At(b, e)
             u == tags'.now[b]
  <2>1. x \in Lba /\ SafeAt(b, e)
      BY <1>0, SectorOfEntry DEF StoreInv, SafeInv
  <2>2. /\ may[x] \subseteq may'[x] /\ (x \in hurt => x \in hurt')
        /\ x \in dam \cup flip => x \in hurt' /\ Unset \in may'[x]
      BY <1>7, <1>9, <2>1
  <2>3. tags'.may[b] = {u} /\ (x \notin dam => u[e] \in EntriesOf(tags.may[b], e))
      BY <1>5 DEF dam
  <2>4. /\ Exists(b)' <=> (lazy => b \in k)
        /\ Kept(b)' <=> (lazy => b \in k)
        /\ Shown(b)' <=> (lazy => b \in k)
      BY <1>0, <1>6 DEF Exists, Kept, Shown, k
  <2>5. x \notin flip => \/ Exists(b)' /\ Shown(b)
                         \/ ~Exists(b)' /\ (~Exists(b) \/ ~Kept(b))
      BY <1>10, <2>4 DEF Exists, Kept, Shown
  <2>6. data'.may[x] \subseteq may'[x] \cup {Junk}
      BY <1>4, <2>1, <2>2 DEF SafeAt
  <2>7. ~Exists(b)' => Unset \in may'[x]
    <3>1. x \notin flip /\ ~Exists(b)' => Unset \in may[x]
        BY <2>1, <2>5 DEF SafeAt
    <3>2. QED
        BY <2>2, <3>1
  <2>8. Exists(b)' /\ u[e] = Unset => Unset \in may'[x]
    <3>1. CASE x \in dam \cup flip
        BY <2>2, <3>1
    <3>2. CASE x \notin dam \cup flip
      <4>1. Exists(b)' => Shown(b)
          BY <2>5, <3>2
      <4>2. PICK a \in tags.may[b] : u[e] = a[e]
          BY <2>3, <3>2 DEF EntriesOf
      <4>3. QED
          BY <2>1, <2>2, <4>1, <4>2 DEF SafeAt
    <3>3. QED
        BY <3>1, <3>2
  <2>9. ASSUME Exists(b)', x \notin hurt'
        PROVE  Fits(x, tags.now[b][e])'
    <3>1. x \notin hurt /\ x \notin dam /\ x \notin flip
        BY <2>2, <2>9
    <3>2. Shown(b)
        BY <2>5, <2>9, <3>1
    <3>3. PICK a \in tags.may[b] : u[e] = a[e]
        BY <2>3, <3>1 DEF EntriesOf
    <3>4. Fits(x, u[e])
        BY <2>1, <3>1, <3>2, <3>3 DEF SafeAt
    <3>5. QED
        BY <1>4, <2>1, <3>4 DEF Fits
  <2> HIDE DEF x
  <2>10. QED
      BY <2>3, <2>4, <2>6, <2>7, <2>8, <2>9 DEF SafeAt, x, Fits
<1>12. QED
    BY <1>1, <1>8, <1>11 DEF StoreInv, SafeInv

\* A read leaves in RAM what is on the card, or nothing.
LEMMA ReadStep ==
    ASSUME StoreInv, Read
    PROVE  StoreInv'
<1>0. /\ store = "ready" /\ pc = "idle"
      /\ UNCHANGED <<lazy, data, tags, bits, store, pc, job, events, may, hurt>>
    BY DEF Read, card, history
<1>1. PICK r \in Batch :
        /\ cache' = NoCache \/ cache' = Loaded(Window(r[1], r[2]))
        /\ bcache' = BitmapAfter(Window(r[1], r[2]))
    BY DEF Read
<1>2. <<r[1], r[2]>> \in Batch
    BY DEF Batch
<1>3. Window(r[1], r[2]) \in SUBSET Block
    BY <1>2, BatchFacts
<1>4. /\ cache' \in [blocks : SUBSET Block, tag : [Block -> TagBlock], init : SUBSET Block]
      /\ lazy => cache'.init \subseteq bits.now
      /\ \A b \in cache'.blocks : cache'.tag[b] = Fetched(b)
  <2>1. CASE cache' = NoCache
      BY <2>1, ValueFacts DEF NoCache
  <2>2. CASE cache' = Loaded(Window(r[1], r[2]))
      BY <1>0, <1>3, <2>2, LoadedFacts
  <2>3. QED
      BY <1>1, <2>1, <2>2
<1>5. /\ bcache' \in [sector : Int, bits : SUBSET Block]
      /\ bcache'.sector # -1 => bcache'.bits = {c \in bits.now : SectorOf(c) = bcache'.sector}
    BY <1>1, <1>2, BitmapAfterFacts
<1>6. StoreType'
    BY <1>0, <1>4, <1>5 DEF StoreInv, StoreType, DataType, TagsType, BitsType, CacheType, JobType,
                            HistoryType
<1>7. SafeInv'
    BY <1>0, SafeSame DEF StoreInv
<1>8. BitmapInv' /\ ClosedInv' /\ WriteInv'
    BY <1>0, <1>5 DEF BitmapInv, ClosedInv, WriteInv
<1>9. CacheInv'
    BY <1>0, <1>4 DEF CacheInv, Fetched, Exists
<1>10. QED
    BY <1>6, <1>7, <1>8, <1>9 DEF StoreInv

\* A write begins: its tags are in RAM, its sectors may read as either value.
LEMMA WriteStep ==
    ASSUME StoreInv, Write
    PROVE  StoreInv'
<1>0. /\ store = "ready" /\ pc = "idle" /\ pc' = "data"
      /\ UNCHANGED <<lazy, data, tags, bits, store>>
      /\ events' \in 0 .. MaxEvents
    BY StoreBounds DEF Write, card, StoreInv, StoreType
<1>1. PICK r \in Batch, v \in Values :
        LET W == Window(r[1], r[2])
            c == Loaded(W)
        IN /\ cache' = [c EXCEPT !.tag = [b \in Block |-> [e \in Entry |->
                            IF b * TagsPerBlock + e \in Span(r[1], r[2]) THEN v ELSE c.tag[b][e]]]]
           /\ bcache' = BitmapAfter(W)
           /\ job' = [l |-> r[1], n |-> r[2], v |-> v, at |-> BlockOf(r[1])]
           /\ may' = [x \in Lba |-> IF x \in Span(r[1], r[2]) THEN may[x] \cup {v} ELSE may[x]]
           /\ hurt' = hurt \cup Span(r[1], r[2])
    BY DEF Write
<1> DEFINE W == Window(r[1], r[2])
           R == Span(r[1], r[2])
           c == Loaded(W)
           tag == [b \in Block |-> [e \in Entry |-> IF At(b, e) \in R THEN v ELSE c.tag[b][e]]]
<1>2. <<r[1], r[2]>> \in Batch
    BY DEF Batch
<1>3. /\ r[1] \in Lba /\ r[2] \in Nat /\ R \subseteq Lba /\ W \subseteq Block /\ BlockOf(r[1]) \in W
      /\ \A b \in Block, e \in Entry : At(b, e) \in R => b \in W
    BY <1>2, BatchFacts
<1>4. /\ c \in [blocks : SUBSET Block, tag : [Block -> TagBlock], init : SUBSET Block]
      /\ W \subseteq c.blocks
      /\ lazy => c.init \subseteq bits.now
      /\ \A b \in c.blocks : c.tag[b] = Fetched(b)
    BY <1>0, <1>3, LoadedFacts
<1>5. /\ bcache' \in [sector : Int, bits : SUBSET Block]
      /\ bcache'.sector # -1 => bcache'.bits = {k \in bits.now : SectorOf(k) = bcache'.sector}
    BY <1>1, <1>2, BitmapAfterFacts
<1>6. cache' = [c EXCEPT !.tag = tag]
    BY <1>1, Zenon DEF At
<1>7. /\ job' = [l |-> r[1], n |-> r[2], v |-> v, at |-> BlockOf(r[1])]
      /\ may' = [x \in Lba |-> IF x \in R THEN may[x] \cup {v} ELSE may[x]]
      /\ hurt' = hurt \cup R
    BY <1>1
<1>8. v \in Text
    BY ValueFacts
<1> HIDE DEF c
<1>9. tag \in [Block -> TagBlock]
    BY <1>4, <1>8 DEF TagBlock
<1>10. ASSUME NEW b \in Block
       PROVE  /\ \A e \in Entry : tag[b][e] = IF At(b, e) \in R THEN v ELSE c.tag[b][e]
              /\ b \notin W => tag[b] = c.tag[b]
  <2>1. \A e \in Entry : tag[b][e] = IF At(b, e) \in R THEN v ELSE c.tag[b][e]
      OBVIOUS
  <2>2. ASSUME b \notin W
        PROVE  tag[b] = c.tag[b]
    <3>1. \A e \in Entry : tag[b][e] = c.tag[b][e]
        BY <1>3, <2>1, <2>2
    <3>2. tag[b] \in [Entry -> Text] /\ c.tag[b] \in [Entry -> Text]
        BY <1>4, <1>9 DEF TagBlock
    <3> HIDE DEF tag
    <3>3. QED
        BY <3>1, <3>2
  <2>3. QED
      BY <2>1, <2>2
<1> HIDE DEF tag, W, R
<1>11. /\ cache'.tag = tag /\ cache'.blocks = c.blocks /\ cache'.init = c.init
       /\ cache' \in [blocks : SUBSET Block, tag : [Block -> TagBlock], init : SUBSET Block]
    BY <1>4, <1>6, <1>9
<1>12. /\ job' \in [l : Lba, n : Nat, v : Text, at : Block]
       /\ job'.l = r[1] /\ job'.n = r[2] /\ job'.v = v /\ job'.at = BlockOf(r[1])
    BY <1>3, <1>7, <1>8
<1>13. JobRange' = R /\ JobWindow' = W
    BY <1>12 DEF JobRange, JobWindow, R, W
<1>14. /\ HistoryType'
       /\ \A x \in R : v \in may'[x] /\ x \in hurt'
       /\ \A x \in Lba : may[x] \subseteq may'[x]
    BY <1>3, <1>7, <1>8 DEF StoreInv, StoreType, HistoryType
<1>15. StoreType'
    BY <1>0, <1>5, <1>11, <1>12, <1>14
       DEF StoreInv, StoreType, DataType, TagsType, BitsType, CacheType, JobType, Phase
<1>16. ASSUME NEW b \in Block, NEW e \in Entry
       PROVE  SafeAt(b, e)'
  <2>1. At(b, e) \in Lba /\ SafeAt(b, e)
      BY <1>0, SectorOfEntry DEF StoreInv, SafeInv
  <2>2. may[At(b, e)] \subseteq may'[At(b, e)] /\ hurt \subseteq hurt'
      BY <1>7, <1>14, <2>1
  <2>3. QED
      BY <1>0, <2>1, <2>2 DEF SafeAt, Fits, Exists, Kept, Shown
<1>17. BitmapInv' /\ ClosedInv'
    BY <1>0, <1>5 DEF BitmapInv, ClosedInv
<1>18. CacheInv'
  <2>1. \A b \in c.blocks : b \notin W => tag[b] = Fetched(b)
      BY <1>4, <1>10
  <2>2. \A b \in Block : Fetched(b)' = Fetched(b)
      BY <1>0 DEF Fetched, Exists
  <2>3. QED
      BY <1>0, <1>4, <1>11, <1>13, <2>1, <2>2 DEF CacheInv
<1>19. ASSUME NEW b \in W, NEW e \in Entry
       PROVE  WindowInv(b, e)'
  <2>1. b \in Block /\ tag[b][e] = (IF At(b, e) \in R THEN v ELSE Fetched(b)[e])
      BY <1>3, <1>4, <1>10
  <2>2. Fetched(b)' = Fetched(b) /\ (~Exists(b)' => Fetched(b)[e] = Unset)
      BY <1>0 DEF Fetched, Exists, Blank
  <2>3. QED
      BY <1>11, <1>12, <1>13, <2>1, <2>2 DEF WindowInv
<1>20. WriteInv'
  <2>1. /\ <<job'.l, job'.n>> \in Batch /\ job'.v \in Values
        /\ job'.at \in JobWindow' /\ JobWindow' \subseteq cache'.blocks
        /\ JobRange' \subseteq hurt' /\ \A x \in JobRange' : job'.v \in may'[x]
        /\ job'.at = BlockOf(job'.l)
      BY <1>2, <1>3, <1>4, <1>11, <1>12, <1>13, <1>14
  <2>2. \A b \in JobWindow', e \in Entry : WindowInv(b, e)'
      BY <1>13, <1>19
  <2>3. QED
      BY <1>0, <2>1, <2>2 DEF WriteInv
<1>21. QED
    BY <1>15, <1>16, <1>17, <1>18, <1>20 DEF StoreInv, SafeInv

\* Data of the running write may be on the card, whole, in part or torn.
LEMMA DataWritten ==
    ASSUME StoreInv, pc = "data", Medium(data', Lba, Text), data'.wet = data.wet \cup JobRange,
           \A x \in JobRange : data'.may[x] \subseteq data.may[x] \cup {job.v, Junk},
           \A x \in Lba \ JobRange : data'.may[x] = data.may[x],
           UNCHANGED <<lazy, tags, bits, may, hurt>>
    PROVE  DataType' /\ SafeInv'
<1>1. /\ JobRange \subseteq Lba /\ JobRange \subseteq hurt /\ store # "raw"
      /\ \A x \in JobRange : job.v \in may[x]
    BY JobFacts DEF StoreInv, WriteInv
<1>2. DataType'
    BY DEF Medium, DataType
<1>3. ASSUME NEW b \in Block, NEW e \in Entry
      PROVE  SafeAt(b, e)'
  <2> DEFINE x == At(b, e)
  <2>1. x \in Lba /\ SafeAt(b, e)
      BY <1>1, SectorOfEntry DEF StoreInv, SafeInv
  <2>2. x \notin hurt => data'.may[x] = data.may[x] /\ (x \in data'.wet <=> x \in data.wet)
      BY <1>1, <2>1
  <2>3. data'.may[x] \subseteq may[x] \cup {Junk}
      BY <1>1, <2>1 DEF SafeAt
  <2> HIDE DEF x
  <2>4. x \notin hurt => \A v : Fits(x, v) => Fits(x, v)'
      BY <2>2 DEF Fits, x
  <2>5. /\ (Exists(b)' <=> Exists(b)) /\ (Kept(b)' <=> Kept(b)) /\ (Shown(b)' <=> Shown(b))
        /\ tags' = tags /\ may' = may /\ hurt' = hurt
      BY DEF Exists, Kept, Shown
  <2>6. ASSUME Shown(b), x \notin hurt, NEW t \in tags.may[b]
        PROVE  Fits(x, t[e])'
      BY <2>1, <2>4, <2>6 DEF SafeAt, x
  <2>7. QED
      BY <2>1, <2>3, <2>5, <2>6 DEF SafeAt, Fits, x
<1>4. QED
    BY <1>2, <1>3 DEF SafeInv

\* Tags of the running write may be on the card: entry by entry the cached
\* ones, those there before, or something torn whose sector counts as hurt.
LEMMA TagsWritten ==
    ASSUME StoreInv, pc = "meta", TagsType',
           \A b \in Block, e \in Entry : \A t \in tags'.may[b] :
               \/ t \in tags.may[b]
               \/ b \in JobWindow /\ t[e] \in {tags.now[b][e], cache.tag[b][e]}
               \/ At(b, e) \in hurt' /\ Unset \in may'[At(b, e)],
           hurt \subseteq hurt', \A x \in Lba : may[x] \subseteq may'[x],
           UNCHANGED <<lazy, data, bits>>
    PROVE  SafeInv'
<1>1. JobWindow \subseteq Block /\ JobRange \subseteq hurt /\ store # "raw"
    BY JobFacts DEF StoreInv, WriteInv
<1>2. ASSUME NEW b \in Block, NEW e \in Entry
      PROVE  SafeAt(b, e)'
  <2> DEFINE x == At(b, e)
  <2>1. x \in Lba /\ SafeAt(b, e) /\ may[x] \subseteq may'[x]
      BY <1>1, SectorOfEntry DEF StoreInv, SafeInv
  <2>2. /\ Exists(b)' <=> Exists(b)
        /\ Kept(b)' <=> Kept(b)
        /\ Shown(b)' <=> Shown(b)
        /\ \A w : Fits(x, w)' <=> Fits(x, w)
        /\ data' = data
      BY DEF Exists, Kept, Shown, Fits
  <2>3. ASSUME b \in JobWindow, Shown(b)
        PROVE  /\ cache.tag[b][e] = Unset => Unset \in may[x]
               /\ x \notin hurt => Fits(x, cache.tag[b][e])
    <3>1. x \in JobRange => x \in hurt /\ cache.tag[b][e] # Unset
      <4>1. x \in JobRange => cache.tag[b][e] = job.v /\ job.v \in Values
          BY <2>3 DEF StoreInv, WriteInv, WindowInv
      <4>2. QED
          BY <1>1, <4>1, ValueFacts
    <3>2. x \notin JobRange => cache.tag[b][e] = Fetched(b)[e]
        BY <2>3 DEF StoreInv, WriteInv, WindowInv
    <3>3. tags.now[b] \in tags.may[b]
        BY DEF StoreInv, StoreType, TagsType
    <3>4. CASE x \in JobRange
        BY <3>1, <3>4
    <3>5. CASE x \notin JobRange /\ Exists(b)
      <4>1. cache.tag[b][e] = tags.now[b][e]
          BY <3>2, <3>5 DEF Fetched
      <4>2. QED
          BY <2>1, <2>3, <3>3, <4>1 DEF SafeAt
    <3>6. CASE x \notin JobRange /\ ~Exists(b)
      <4>1. cache.tag[b][e] = Unset
          BY <3>2, <3>6 DEF Fetched, Blank
      <4>2. QED
          BY <2>1, <3>6, <4>1 DEF SafeAt, Fits
    <3>7. QED
        BY <3>4, <3>5, <3>6
  <2>4. ASSUME Shown(b), NEW t \in tags'.may[b]
        PROVE  /\ t[e] = Unset => Unset \in may'[x]
               /\ x \notin hurt' => Fits(x, t[e])
    <3>1. tags.now[b] \in tags.may[b]
        BY DEF StoreInv, StoreType, TagsType
    <3>2. CASE t \in tags.may[b]
        BY <2>1, <2>4, <3>2 DEF SafeAt
    <3>3. CASE b \in JobWindow /\ t[e] = tags.now[b][e]
        BY <2>1, <2>4, <3>1, <3>3 DEF SafeAt
    <3>4. CASE b \in JobWindow /\ t[e] = cache.tag[b][e]
        BY <2>1, <2>3, <2>4, <3>4
    <3>5. CASE x \in hurt' /\ Unset \in may'[x]
        BY <3>5
    <3>6. QED
        BY <3>2, <3>3, <3>4, <3>5
  <2>5. /\ data'.may[x] \subseteq may'[x] \cup {Junk}
        /\ ~Kept(b)' \/ ~Exists(b)' => Unset \in may'[x]
        /\ Kept(b)' /\ ~Exists(b)' => x \in hurt'
      BY <2>1, <2>2 DEF SafeAt
  <2>6. ASSUME Shown(b)', x \notin hurt', NEW t \in tags'.may[b]
        PROVE  Fits(x, t[e])'
      BY <2>2, <2>4, <2>6 DEF Fits
  <2>7. Shown(b)' => \A t \in tags'.may[b] : t[e] = Unset => Unset \in may'[x]
      BY <2>2, <2>4
  <2> HIDE DEF x
  <2>8. QED
      BY <2>5, <2>6, <2>7 DEF SafeAt, Fits, x
<1>3. QED
    BY <1>1, <1>2 DEF SafeInv

\* A bit is set only for a block whose tags are safely on the card; whatever
\* else a torn bitmap sector changes counts as hurt.
LEMMA BitsWritten ==
    ASSUME StoreInv, pc = "bits", BitsType', bits'.kept = bits.kept,
           \A b \in Block, e \in Entry :
               \/ b \in bits'.now <=> b \in bits.now
               \/ b \in bits'.now /\ b \in Here
               \/ At(b, e) \in hurt' /\ Unset \in may'[At(b, e)],
           hurt \subseteq hurt', \A x \in Lba : may[x] \subseteq may'[x],
           UNCHANGED <<lazy, data, tags>>
    PROVE  SafeInv'
<1>1. JobWindow \subseteq Block /\ JobRange \subseteq hurt /\ store # "raw" /\ lazy
    BY JobFacts DEF StoreInv, WriteInv
<1>2. \A b \in Here : b \in JobWindow
    BY DEF Here
<1>3. ASSUME NEW b \in Block, NEW e \in Entry
      PROVE  SafeAt(b, e)'
  <2> DEFINE x == At(b, e)
  <2>1. x \in Lba /\ SafeAt(b, e) /\ may[x] \subseteq may'[x]
      BY <1>1, SectorOfEntry DEF StoreInv, SafeInv
  <2>2. (Kept(b)' <=> Kept(b)) /\ (\A w : Fits(x, w)' <=> Fits(x, w)) /\ tags' = tags /\ data' = data
      BY DEF Kept, Fits
  <2>3. data'.may[x] \subseteq may'[x] \cup {Junk}
      BY <2>1 DEF SafeAt
  <2>4. CASE b \in bits'.now <=> b \in bits.now
    <3>1. (Exists(b)' <=> Exists(b)) /\ (Shown(b)' <=> Shown(b))
        BY <2>4 DEF Exists, Shown
    <3>2. QED
        BY <2>1, <2>2, <2>3, <3>1 DEF SafeAt, Fits
  <2>5. CASE b \in bits'.now /\ b \in Here /\ b \notin bits.now
    <3>1. b \in JobWindow /\ ~Exists(b) /\ Exists(b)'
        BY <1>1, <1>2, <2>5 DEF Exists
    <3>2. tags.may[b] = {tags.now[b]} /\ tags.now[b] = cache.tag[b] /\ WindowInv(b, e)
        BY <3>1 DEF StoreInv, WriteInv
    <3>3. Unset \in may'[x]
        BY <2>1, <3>1 DEF SafeAt
    <3>4. x \notin hurt' => cache.tag[b][e] = Unset
        BY <1>1, <3>1, <3>2 DEF WindowInv
    <3>5. x \notin hurt' => Fits(x, tags.now[b][e])'
        BY <3>2, <3>4 DEF Fits
    <3>6. QED
        BY <2>2, <2>3, <3>1, <3>2, <3>3, <3>5 DEF SafeAt, Fits
  <2>6. CASE x \in hurt' /\ Unset \in may'[x]
      BY <2>3, <2>6 DEF SafeAt
  <2>7. QED
      BY <2>4, <2>5, <2>6
<1>4. QED
    BY <1>1, <1>3 DEF SafeInv

\* The data of the batch goes to the card.
LEMMA WriteDataStep ==
    ASSUME StoreInv, WriteData
    PROVE  StoreInv'
<1>0. /\ pc = "data" /\ pc' = "meta" /\ data' = Written(data, [x \in JobRange |-> job.v], JobRange)
      /\ UNCHANGED <<lazy, tags, bits, store, cache, bcache, job, events, may, hurt>>
    BY DEF WriteData, history
<1>1. DataType' /\ SafeInv' /\ \A x \in JobRange : data'.now[x] = job.v
  <2> DEFINE new == [x \in JobRange |-> job.v]
  <2>1. JobRange \in SUBSET Lba /\ job.v \in Text /\ \A x \in JobRange : new[x] = job.v
      BY <1>0, JobFacts
  <2>2. Medium(data, Lba, Text) /\ data' = Written(data, new, JobRange)
      BY <1>0 DEF StoreInv, StoreType, DataType, Medium
  <2> HIDE DEF new
  <2>3. WrittenAs(data, data', Lba, Text, new, JobRange)
      BY <2>1, <2>2, WrittenFacts
  <2>4. /\ Medium(data', Lba, Text) /\ data'.wet = data.wet \cup JobRange
        /\ \A x \in JobRange : data'.now[x] = job.v /\ data'.may[x] \subseteq data.may[x] \cup {job.v, Junk}
        /\ \A x \in Lba \ JobRange : data'.may[x] = data.may[x]
      BY <2>1, <2>3 DEF WrittenAs
  <2>5. QED
      BY <1>0, <2>4, DataWritten
<1>2. StoreType'
    BY <1>0, <1>1 DEF StoreInv, StoreType, TagsType, BitsType, CacheType, JobType, HistoryType, Phase
<1>3. JobRange' = JobRange /\ JobWindow' = JobWindow
    BY <1>0 DEF JobRange, JobWindow
<1>4. \A b : Fetched(b)' = Fetched(b) /\ (Exists(b)' <=> Exists(b))
    BY <1>0 DEF Fetched, Exists
<1>5. BitmapInv' /\ ClosedInv' /\ CacheInv'
    BY <1>0, <1>3, <1>4, JobFacts DEF StoreInv, BitmapInv, ClosedInv, CacheInv
<1>6. \A b \in JobWindow, e \in Entry : WindowInv(b, e)'
    BY <1>0, <1>3, <1>4 DEF StoreInv, WriteInv, WindowInv
<1>7. WriteInv'
    BY <1>0, <1>1, <1>3, <1>6 DEF StoreInv, WriteInv
<1>8. QED
    BY <1>1, <1>2, <1>5, <1>7 DEF StoreInv

\* The tags of the window go to the card.
LEMMA WriteMetaStep ==
    ASSUME StoreInv, WriteMeta
    PROVE  StoreInv'
<1>0. /\ pc = "meta" /\ pc' = AfterMeta /\ tags' = Written(tags, cache.tag, JobWindow)
      /\ UNCHANGED <<lazy, data, bits, store, cache, bcache, job, events, may, hurt>>
    BY DEF WriteMeta, history
<1>1. /\ TagsType' /\ SafeInv'
      /\ \A b \in JobWindow : tags'.now[b] = cache.tag[b]
      /\ \A b \in Block \ JobWindow : tags'.now[b] = tags.now[b]
  <2>1. JobWindow \in SUBSET Block /\ \A b \in JobWindow : cache.tag[b] \in TagBlock
      BY <1>0, JobFacts DEF StoreInv, StoreType, CacheType
  <2>2. Medium(tags, Block, TagBlock)
      BY DEF StoreInv, StoreType, TagsType, Medium
  <2>3. WrittenAs(tags, tags', Block, TagBlock, cache.tag, JobWindow)
      BY <1>0, <2>1, <2>2, WrittenFacts
  <2>4. TagsType'
      BY <2>3 DEF WrittenAs, Medium, TagsType
  <2>5. \A b \in Block : \A t \in tags'.may[b] : t \in tags.may[b] \/ (b \in JobWindow /\ t = cache.tag[b])
      BY <2>3 DEF WrittenAs
  <2>6. SafeInv'
      BY <1>0, <2>4, <2>5, TagsWritten
  <2>7. QED
      BY <2>3, <2>4, <2>6 DEF WrittenAs
<1>2. /\ pc' \in {"publish", "sync"} /\ (pc' = "publish" => lazy)
      /\ pc' = "sync" /\ lazy => JobWindow \subseteq bits.now
    BY <1>0 DEF AfterMeta, StoreInv, CacheInv
<1>3. StoreType'
    BY <1>0, <1>1, <1>2 DEF StoreInv, StoreType, DataType, BitsType, CacheType, JobType, HistoryType,
                            Phase
<1>4. JobRange' = JobRange /\ JobWindow' = JobWindow
    BY <1>0 DEF JobRange, JobWindow
<1>5. \A b \in Block \ JobWindow : tags'.now[b] = tags.now[b]
    BY <1>1
<1>6. \A b : Exists(b)' <=> Exists(b)
    BY <1>0 DEF Exists
<1>7. \A b \in Block \ JobWindow : Fetched(b)' = Fetched(b)
    BY <1>5, <1>6 DEF Fetched
<1>8. BitmapInv' /\ ClosedInv'
    BY <1>0, JobFacts DEF StoreInv, BitmapInv, ClosedInv
<1>9. CacheInv'
    BY <1>0, <1>2, <1>4, <1>7 DEF StoreInv, CacheInv, StoreType, CacheType
<1>10. \A b \in JobWindow, e \in Entry : WindowInv(b, e)'
    BY <1>0, <1>2, <1>4, <1>6 DEF StoreInv, WriteInv, WindowInv
<1>11. WriteInv'
    BY <1>0, <1>1, <1>2, <1>4, <1>10 DEF StoreInv, WriteInv
<1>12. QED
    BY <1>1, <1>3, <1>8, <1>9, <1>11 DEF StoreInv

\* The tags are on the card for good before any bit is set.
LEMMA PublishSyncStep ==
    ASSUME StoreInv, PublishSync
    PROVE  StoreInv'
<1>0. /\ pc = "publish" /\ pc' = "bits" /\ Synced
      /\ UNCHANGED <<lazy, store, cache, bcache, job, events, may, hurt>>
    BY DEF PublishSync, history
<1>1. /\ DataType' /\ TagsType' /\ BitsType'
      /\ data'.now = data.now
      /\ tags'.now = tags.now /\ \A b \in Block : tags'.may[b] = {tags.now[b]}
      /\ bits'.now = bits.now
    BY <1>0, SyncedFacts DEF StoreInv
<1>2. StoreType'
    BY <1>0, <1>1 DEF StoreInv, StoreType, CacheType, JobType, HistoryType, Phase
<1>3. SafeInv'
    BY <1>0, JobFacts, SafeSynced DEF SafeInv
<1>4. JobRange' = JobRange /\ JobWindow' = JobWindow /\ JobWindow \subseteq Block
    BY <1>0, JobFacts DEF JobRange, JobWindow
<1>5. \A b : Fetched(b)' = Fetched(b) /\ (Exists(b)' <=> Exists(b))
    BY <1>0, <1>1 DEF Fetched, Exists
<1>6. BitmapInv' /\ ClosedInv' /\ CacheInv'
    BY <1>0, <1>1, <1>4, <1>5, JobFacts DEF StoreInv, BitmapInv, ClosedInv, CacheInv
<1>7. \A b \in JobWindow, e \in Entry : WindowInv(b, e)'
    BY <1>0, <1>4, <1>5 DEF StoreInv, WriteInv, WindowInv
<1>8. pc' = "bits" => \A b \in JobWindow : SectorOf(b) < SectorOf(job.at) => b \in bits.now
  <2>1. \A b \in JobWindow : SectorOf(b) >= SectorOf(job.at)
    <3>1. job.at = BlockOf(job.l)
        BY <1>0 DEF StoreInv, WriteInv
    <3>2. \A b \in JobWindow : BlockOf(job.l) <= b
        BY <1>4, StoreGeometry DEF JobWindow, Window, Block
    <3>3. job.at \in Block
        BY DEF StoreInv, StoreType, JobType
    <3>4. QED
        BY <1>4, <3>1, <3>2, <3>3, SectorFacts
  <2>2. QED
      BY <1>4, <2>1, SectorFacts DEF StoreInv, StoreType, JobType
<1>9. WriteInv'
    BY <1>0, <1>1, <1>4, <1>7, <1>8 DEF StoreInv, WriteInv
<1>10. QED
    BY <1>2, <1>3, <1>6, <1>9 DEF StoreInv

\* publish moves on, or is done: then every block of the window is declared.
LEMMA AdvanceStep ==
    ASSUME StoreInv, pc \in {"bits", "bitsync"}, Advance,
           \A b \in JobWindow : SectorOf(b) <= SectorOf(job.at) => b \in bits.now,
           \A b \in JobWindow : tags'.may[b] = {tags.now[b]},
           data'.now = data.now, tags'.now = tags.now, bits'.now = bits.now,
           UNCHANGED <<lazy, store, may, hurt>>
    PROVE  /\ cache' \in [blocks : SUBSET Block, tag : [Block -> TagBlock], init : SUBSET Block]
           /\ JobType' /\ CacheInv' /\ ClosedInv' /\ WriteInv'
<1>0. /\ JobWindow \subseteq Block /\ store = "ready" /\ lazy
      /\ job \in [l : Lba, n : Nat, v : Text, at : Block]
      /\ cache \in [blocks : SUBSET Block, tag : [Block -> TagBlock], init : SUBSET Block]
    BY JobFacts DEF StoreInv, StoreType, JobType, CacheType, WriteInv
<1>1. \A b : Fetched(b)' = Fetched(b) /\ (Exists(b)' <=> Exists(b))
    BY DEF Fetched, Exists
<1>2. ClosedInv'
    BY <1>0 DEF ClosedInv
<1>3. CASE /\ pc' = "sync" /\ job' = job
           /\ cache' = [cache EXCEPT !.init = cache.init \cup JobWindow]
           /\ \A b \in JobWindow : SectorOf(b) <= SectorOf(job.at)
  <2>1. /\ cache' \in [blocks : SUBSET Block, tag : [Block -> TagBlock], init : SUBSET Block]
        /\ cache'.blocks = cache.blocks /\ cache'.tag = cache.tag
        /\ cache'.init = cache.init \cup JobWindow
      BY <1>0, <1>3
  <2>2. JobRange' = JobRange /\ JobWindow' = JobWindow
      BY <1>3 DEF JobRange, JobWindow
  <2>3. JobWindow \subseteq bits.now
      BY <1>3
  <2>4. CacheInv'
      BY <1>0, <1>1, <1>3, <2>1, <2>2, <2>3 DEF CacheInv, StoreInv
  <2>5. \A b \in JobWindow, e \in Entry : WindowInv(b, e)'
      BY <1>1, <1>3, <2>1, <2>2 DEF StoreInv, WriteInv, WindowInv
  <2>6. JobType'
      BY <1>0, <1>3 DEF JobType, Phase
  <2>7. WriteInv'
      BY <1>3, <2>1, <2>2, <2>3, <2>5 DEF StoreInv, WriteInv
  <2>8. QED
      BY <1>2, <2>1, <2>4, <2>6, <2>7
<1>4. CASE /\ pc' = "bits" /\ cache' = cache
           /\ job' = [job EXCEPT !.at = job'.at] /\ job'.at \in JobWindow
           /\ \A b \in JobWindow : SectorOf(b) < SectorOf(job'.at) => SectorOf(b) <= SectorOf(job.at)
  <2>1. /\ job' \in [l : Lba, n : Nat, v : Text, at : Block]
        /\ job'.l = job.l /\ job'.n = job.n /\ job'.v = job.v
      BY <1>0, <1>4
  <2>2. JobRange' = JobRange /\ JobWindow' = JobWindow
      BY <2>1 DEF JobRange, JobWindow
  <2>3. CacheInv'
      BY <1>0, <1>1, <1>4, <2>2 DEF CacheInv, StoreInv
  <2>4. \A b \in JobWindow, e \in Entry : WindowInv(b, e)'
      BY <1>1, <1>4, <2>1, <2>2 DEF StoreInv, WriteInv, WindowInv
  <2>5. JobType'
      BY <1>4, <2>1 DEF JobType, Phase
  <2>6. WriteInv'
      BY <1>0, <1>4, <2>1, <2>2, <2>4 DEF StoreInv, WriteInv
  <2>7. QED
      BY <1>0, <1>2, <1>4, <2>3, <2>5, <2>6
<1>5. QED
    BY <1>3, <1>4, AdvanceFacts

\* A bitmap sector is read, and written back where a block is missing in it.
LEMMA PublishBitsStep ==
    ASSUME StoreInv, PublishBits
    PROVE  StoreInv'
<1>0. /\ pc = "bits" /\ bcache' = Marked
      /\ UNCHANGED <<lazy, data, tags, store, events, may, hurt>>
    BY DEF PublishBits, history
<1>1. /\ Marked.sector = SectorOf(job.at) /\ Marked \in [sector : Int, bits : SUBSET Block]
      /\ Marked.bits = {c \in bits.now : SectorOf(c) = SectorOf(job.at)} \cup Here
      /\ \A b \in Here : b \in JobWindow /\ SectorOf(b) = SectorOf(job.at) /\ b \in Block
    BY <1>0, MarkedFacts
<1>2. /\ JobWindow \subseteq Block /\ store = "ready" /\ lazy /\ job.at \in Block
      /\ cache.init \subseteq bits.now
      /\ \A b \in JobWindow : SectorOf(b) < SectorOf(job.at) => b \in bits.now
      /\ \A b \in JobWindow : tags.may[b] = {tags.now[b]}
    BY <1>0, JobFacts DEF StoreInv, StoreType, JobType, CacheInv, WriteInv
<1>3. \A b \in JobWindow : SectorOf(b) = SectorOf(job.at) => b \in Here
    BY DEF Here
<1>4. \A b \in JobWindow : SectorOf(b) \in Nat /\ SectorOf(job.at) \in Nat
    BY <1>2, SectorFacts
<1>5. CASE Here \subseteq cache.init
  <2>1. Advance /\ bits' = bits
      BY <1>5 DEF PublishBits
  <2>2. \A b \in JobWindow : SectorOf(b) <= SectorOf(job.at) => b \in bits.now
      BY <1>2, <1>3, <1>4, <1>5
  <2>3. /\ cache' \in [blocks : SUBSET Block, tag : [Block -> TagBlock], init : SUBSET Block]
        /\ JobType' /\ CacheInv' /\ ClosedInv' /\ WriteInv'
      BY <1>0, <1>2, <2>1, <2>2, AdvanceStep
  <2>4. BitmapInv'
      BY <1>0, <1>1, <1>2, <1>5, <2>1 DEF BitmapInv
  <2>5. SafeInv'
      BY <1>0, <1>2, <2>1, SafeSame DEF StoreInv
  <2>6. StoreType'
      BY <1>0, <1>1, <2>1, <2>3
         DEF StoreInv, StoreType, DataType, TagsType, BitsType, CacheType, HistoryType
  <2>7. QED
      BY <2>3, <2>4, <2>5, <2>6 DEF StoreInv
<1>6. CASE ~(Here \subseteq cache.init)
  <2>1. bits' = BitmapWritten(Marked.bits) /\ pc' = "bitsync" /\ UNCHANGED <<cache, job>>
      BY <1>6 DEF PublishBits
  <2>2. bits'.now = bits.now \cup Here /\ bits'.kept = bits.kept /\ BitsType'
      BY <1>0, <2>1, BitmapWrittenFacts
  <2>4. bits'.now = bits.now \cup Here
      BY <2>2
  <2>5. BitsType' /\ SafeInv'
    <3>1. \A b \in Block : (b \in bits'.now <=> b \in bits.now) \/ (b \in bits'.now /\ b \in Here)
        BY <2>2
    <3>2. QED
        BY <1>0, <2>2, <3>1, BitsWritten
  <2>6. StoreType'
      BY <1>0, <1>1, <2>1, <2>5
         DEF StoreInv, StoreType, DataType, TagsType, CacheType, HistoryType, JobType, Phase
  <2>7. BitmapInv'
      BY <1>0, <1>1, <2>4 DEF BitmapInv
  <2>8. JobRange' = JobRange /\ JobWindow' = JobWindow
      BY <2>1 DEF JobRange, JobWindow
  <2>9. /\ \A b : Exists(b) => Exists(b)'
        /\ \A b \in Block \ JobWindow : Fetched(b)' = Fetched(b)
      BY <1>0, <1>1, <2>4 DEF Exists, Fetched
  <2>10. CacheInv' /\ ClosedInv'
      BY <1>0, <1>2, <2>1, <2>4, <2>8, <2>9
         DEF StoreInv, StoreType, CacheType, CacheInv, ClosedInv
  <2>11. \A b \in JobWindow, e \in Entry : WindowInv(b, e)'
      BY <1>0, <2>1, <2>8, <2>9 DEF StoreInv, WriteInv, WindowInv
  <2>12. \A b \in JobWindow : SectorOf(b) <= SectorOf(job.at) => b \in bits'.now
      BY <1>2, <1>3, <1>4, <2>4
  <2>13. WriteInv'
      BY <1>0, <1>2, <2>1, <2>8, <2>11, <2>12 DEF StoreInv, WriteInv
  <2>14. QED
      BY <2>5, <2>6, <2>7, <2>10, <2>13 DEF StoreInv
<1>7. QED
    BY <1>5, <1>6

\* The bits are on the card for good.
LEMMA PublishDoneStep ==
    ASSUME StoreInv, PublishDone
    PROVE  StoreInv'
<1>0. /\ pc = "bitsync" /\ Synced /\ Advance
      /\ UNCHANGED <<lazy, store, bcache, events, may, hurt>>
    BY DEF PublishDone, history
<1>1. /\ DataType' /\ TagsType' /\ BitsType'
      /\ data'.now = data.now
      /\ tags'.now = tags.now /\ \A b \in Block : tags'.may[b] = {tags.now[b]}
      /\ bits'.now = bits.now
    BY <1>0, SyncedFacts DEF StoreInv
<1>2. /\ JobWindow \subseteq Block
      /\ \A b \in JobWindow : SectorOf(b) <= SectorOf(job.at) => b \in bits.now
    BY <1>0, JobFacts DEF StoreInv, WriteInv
<1>3. /\ cache' \in [blocks : SUBSET Block, tag : [Block -> TagBlock], init : SUBSET Block]
      /\ JobType' /\ CacheInv' /\ ClosedInv' /\ WriteInv'
    BY <1>0, <1>1, <1>2, AdvanceStep
<1>4. SafeInv'
    BY <1>0, JobFacts, SafeSynced DEF SafeInv
<1>5. BitmapInv'
    BY <1>0, <1>1 DEF StoreInv, BitmapInv
<1>6. StoreType'
    BY <1>0, <1>1, <1>3 DEF StoreInv, StoreType, CacheType, HistoryType
<1>7. QED
    BY <1>3, <1>4, <1>5, <1>6 DEF StoreInv

\* The last sync: card and caches agree and the batch is acknowledged.
LEMMA AcknowledgeStep ==
    ASSUME StoreInv, Acknowledge
    PROVE  StoreInv'
<1>0. /\ pc = "sync" /\ pc' = "idle" /\ Synced /\ job' = NoJob
      /\ may' = [x \in Lba |-> IF x \in JobRange THEN {job.v} ELSE may[x]]
      /\ hurt' = hurt \ JobRange
      /\ UNCHANGED <<lazy, store, cache, bcache, events>>
    BY DEF Acknowledge
<1>1. /\ DataType' /\ TagsType' /\ BitsType'
      /\ data'.now = data.now /\ data'.wet = {} /\ \A x \in Lba : data'.may[x] = {data.now[x]}
      /\ tags'.now = tags.now /\ \A b \in Block : tags'.may[b] = {tags.now[b]}
      /\ bits'.now = bits.now /\ bits'.kept = bits.now
    BY <1>0, SyncedFacts DEF StoreInv
<1>2. /\ JobRange \subseteq Lba /\ JobWindow \subseteq Block /\ store = "ready"
      /\ \A b \in Block, e \in Entry : At(b, e) \in JobRange => b \in JobWindow
      /\ job.v \in Values /\ job.v \in Text
    BY <1>0, JobFacts
<1>3. /\ lazy => JobWindow \subseteq bits.now
      /\ \A x \in JobRange : data.now[x] = job.v
      /\ \A b \in JobWindow : tags.now[b] = cache.tag[b]
      /\ \A b \in JobWindow, e \in Entry : At(b, e) \in JobRange => cache.tag[b][e] = job.v
    BY <1>0 DEF StoreInv, WriteInv, WindowInv
<1>4. HistoryType'
    BY <1>0, <1>2 DEF StoreInv, StoreType, HistoryType
<1>5. JobType'
  <2>1. NoJob \in [l : Lba, n : Nat, v : Text, at : Block]
    <3>1. 0 \in Block /\ 0 \in Entry /\ At(0, 0) = 0
        BY StoreGeometry DEF Block, Entry, At
    <3>2. QED
        BY <3>1, SectorOfEntry, ValueFacts DEF NoJob
  <2>2. QED
      BY <1>0, <2>1 DEF JobType, Phase
<1>6. StoreType'
    BY <1>0, <1>1, <1>4, <1>5 DEF StoreInv, StoreType, CacheType
<1>7. ASSUME NEW b \in Block, NEW e \in Entry
      PROVE  SafeAt(b, e)'
  <2>1. At(b, e) \in Lba
      BY SectorOfEntry
  <2>2. CASE At(b, e) \notin JobRange
    <3>1. may'[At(b, e)] = may[At(b, e)] /\ (At(b, e) \in hurt => At(b, e) \in hurt')
        BY <1>0, <2>1, <2>2
    <3>2. QED
        BY <1>0, <1>2, <3>1, SafeSynced
  <2>3. CASE At(b, e) \in JobRange
    <3>1. b \in JobWindow /\ tags.now[b][e] = job.v /\ data.now[At(b, e)] = job.v
        BY <1>2, <1>3, <2>3
    <3>2. /\ may'[At(b, e)] = {job.v} /\ tags'.may[b] = {tags.now[b]}
          /\ data'.may[At(b, e)] = {job.v} /\ At(b, e) \notin data'.wet
          /\ Kept(b)' /\ Exists(b)'
        BY <1>0, <1>1, <1>3, <2>1, <2>3, <3>1 DEF Kept, Exists
    <3>3. job.v # Junk /\ job.v # Unset
        BY <1>2, ValueFacts
    <3>4. QED
        BY <3>1, <3>2, <3>3 DEF SafeAt, Fits
  <2>4. QED
      BY <2>2, <2>3
<1>8. BitmapInv' /\ ClosedInv' /\ WriteInv'
    BY <1>0, <1>1, <1>2 DEF StoreInv, BitmapInv, ClosedInv, WriteInv
<1>9. CacheInv'
  <2>1. \A b \in cache.blocks : cache.tag[b] = Fetched(b)
    <3>1. \A b \in cache.blocks : b \notin JobWindow => cache.tag[b] = Fetched(b)
        BY DEF StoreInv, CacheInv
    <3>2. \A b \in JobWindow : cache.tag[b] = Fetched(b)
        BY <1>3 DEF Fetched, Exists
    <3>3. QED
        BY <3>1, <3>2
  <2>2. \A b : Fetched(b)' = Fetched(b)
      BY <1>0, <1>1 DEF Fetched, Exists
  <2>3. QED
      BY <1>0, <1>1, <2>1, <2>2 DEF StoreInv, CacheInv
<1>10. QED
    BY <1>6, <1>7, <1>8, <1>9 DEF StoreInv, SafeInv

\* A write that fails at any of its steps.
LEMMA WriteFailsStep ==
    ASSUME StoreInv, WriteFails
    PROVE  StoreInv'
<1>0. /\ pc # "idle" /\ Closed /\ UNCHANGED lazy
      /\ events' \in 0 .. MaxEvents /\ store' = "closed" /\ store # "raw"
    BY StoreBounds, JobFacts DEF WriteFails, Faulted, Closed, StoreInv, StoreType
<1>1. CacheType' /\ JobType' /\ BitmapInv' /\ CacheInv' /\ ClosedInv' /\ WriteInv'
    BY <1>0, ClosedStep
<1>2. /\ JobRange \in SUBSET Lba /\ JobWindow \in SUBSET Block /\ job.v \in Text
      /\ HistoryType
    BY <1>0, JobFacts DEF StoreInv, StoreType
<1>3. DataType' /\ TagsType' /\ BitsType' /\ HistoryType' /\ SafeInv'
  <2>1. CASE /\ pc = "data"
             /\ \E d \in Choices([x \in JobRange |-> {data.now[x], job.v, Junk}]) :
                   data' = Written(Written(data, [x \in JobRange |-> job.v], JobRange), d, JobRange)
             /\ UNCHANGED <<tags, bits, history>>
    <3> DEFINE C == [x \in JobRange |-> {data.now[x], job.v, Junk}]
               new == [x \in JobRange |-> job.v]
    <3>1. PICK d \in Choices(C) : data' = Written(Written(data, new, JobRange), d, JobRange)
        BY <2>1
    <3>2. /\ DOMAIN C = JobRange /\ \A x \in JobRange : C[x] = {data.now[x], job.v, Junk}
          /\ \A x \in JobRange : new[x] = job.v
        OBVIOUS
    <3> HIDE DEF C, new
    <3>3. \A x \in JobRange : d[x] \in {data.now[x], job.v, Junk}
        BY <3>2, ChoicesFacts
    <3>4. Medium(data, Lba, Text)
        BY DEF StoreInv, StoreType, DataType, Medium
    <3>5. \A x \in JobRange : new[x] \in Text /\ d[x] \in Text
        BY <1>2, <3>2, <3>3, <3>4, ValueFacts DEF Medium
    <3>6. /\ Medium(data', Lba, Text) /\ data'.wet = data.wet \cup JobRange
          /\ \A x \in JobRange : data'.may[x] = data.may[x] \cup {new[x], d[x]}
          /\ \A x \in Lba \ JobRange : data'.may[x] = data.may[x]
      <4>1. LeftAs(data, Written(Written(data, new, JobRange), d, JobRange), Lba, Text, new, d, JobRange)
          BY <1>2, <3>4, <3>5, LeftFacts, Zenon
      <4>2. QED
          BY <3>1, <4>1 DEF LeftAs
    <3>7. \A x \in JobRange : data'.may[x] \subseteq data.may[x] \cup {job.v, Junk}
        BY <1>2, <3>2, <3>3, <3>4, <3>6 DEF Medium
    <3>8. DataType' /\ SafeInv'
        BY <1>0, <2>1, <3>6, <3>7, DataWritten DEF history
    <3>9. QED
        BY <1>0, <2>1, <3>8 DEF StoreInv, StoreType, TagsType, BitsType, HistoryType, history
  <2>2. CASE /\ pc = "meta"
             /\ LET C == [b \in JobWindow |-> {tags.now[b], cache.tag[b]}]
                IN \E t \in Choices([b \in JobWindow |-> TornFrom(C[b])]) :
                      /\ tags' = Written(Written(tags, cache.tag, JobWindow), t, JobWindow)
                      /\ Lose(Damaged(t, C))
             /\ UNCHANGED <<data, bits>>
    <3> DEFINE C == [b \in JobWindow |-> {tags.now[b], cache.tag[b]}]
               T == [b \in JobWindow |-> TornFrom(C[b])]
    <3>1. PICK t \in Choices(T) :
              /\ tags' = Written(Written(tags, cache.tag, JobWindow), t, JobWindow)
              /\ Lose(Damaged(t, C))
        BY <2>2
    <3>2. /\ DOMAIN T = JobWindow
          /\ \A b \in JobWindow : T[b] = TornFrom(C[b]) /\ C[b] = {tags.now[b], cache.tag[b]}
        OBVIOUS
    <3> HIDE DEF C, T
    <3>3. DOMAIN t = JobWindow /\ \A b \in JobWindow : t[b] \in TornFrom(C[b])
        BY <3>2, ChoicesFacts
    <3>4. Medium(tags, Block, TagBlock)
        BY DEF StoreInv, StoreType, TagsType, Medium
    <3>5. \A b \in JobWindow : cache.tag[b] \in TagBlock /\ t[b] \in TagBlock
      <4>1. \A b \in JobWindow : cache.tag[b] \in TagBlock /\ C[b] \in SUBSET TagBlock
          BY <1>2, <3>2, <3>4 DEF Medium, StoreInv, StoreType, CacheType
      <4>2. QED
          BY <3>3, <4>1, TornFacts
    <3>6. /\ Medium(tags', Block, TagBlock)
          /\ \A b \in JobWindow : tags'.may[b] = tags.may[b] \cup {cache.tag[b], t[b]}
          /\ \A b \in Block \ JobWindow : tags'.may[b] = tags.may[b]
      <4>1. LeftAs(tags, Written(Written(tags, cache.tag, JobWindow), t, JobWindow), Block, TagBlock,
                   cache.tag, t, JobWindow)
          BY <1>2, <3>4, <3>5, LeftFacts, Zenon
      <4>2. QED
          BY <3>1, <4>1 DEF LeftAs
    <3>7. /\ HistoryType' /\ hurt \subseteq hurt'
          /\ \A x \in Damaged(t, C) : x \in hurt' /\ Unset \in may'[x]
          /\ \A x \in Lba : may[x] \subseteq may'[x]
      <4>1. Damaged(t, C) \subseteq Lba
          BY DEF Damaged
      <4>2. QED
          BY <1>2, <3>1, <4>1, LoseFacts
    <3>8. TagsType'
        BY <3>6 DEF Medium, TagsType
    <3>9. ASSUME NEW b \in Block, NEW e \in Entry, NEW a \in tags'.may[b]
          PROVE  \/ a \in tags.may[b]
                 \/ b \in JobWindow /\ a[e] \in {tags.now[b][e], cache.tag[b][e]}
                 \/ At(b, e) \in hurt' /\ Unset \in may'[At(b, e)]
      <4>1. CASE b \in JobWindow /\ a = t[b]
        <5>1. CASE At(b, e) \in Damaged(t, C)
            BY <3>7, <5>1
        <5>2. CASE At(b, e) \notin Damaged(t, C)
          <6>1. t[b][e] \in EntriesOf(C[b], e)
              BY <3>3, <4>1, <5>2, DamagedFacts
          <6>2. EntriesOf(C[b], e) = {tags.now[b][e], cache.tag[b][e]}
              BY <3>2, <4>1 DEF EntriesOf
          <6>3. QED
              BY <4>1, <6>1, <6>2
        <5>3. QED
            BY <5>1, <5>2
      <4>2. CASE ~(b \in JobWindow /\ a = t[b])
          BY <3>6, <3>9, <4>2
      <4>3. QED
          BY <4>1, <4>2
    <3>10. SafeInv'
        BY <1>0, <2>2, <3>7, <3>8, <3>9, TagsWritten
    <3>11. QED
        BY <2>2, <3>7, <3>8, <3>10 DEF StoreInv, StoreType, DataType, BitsType
  <2>3. CASE /\ pc = "bits"
             /\ \E k \in SUBSET InSector :
                   /\ bits' = BitmapWritten(k)
                   /\ Lose(Flipped(bits'.now, bits.now, BitmapWritten(Marked.bits).now))
             /\ UNCHANGED <<data, tags>>
    <3> DEFINE X == Flipped(bits'.now, bits.now, bits.now \cup Here)
    <3>1. BitsType' /\ bits'.kept = bits.kept /\ Lose(X)
        BY <2>3, BitmapWrittenFacts
    <3>2. /\ HistoryType' /\ hurt \subseteq hurt'
          /\ \A x \in X : x \in hurt' /\ Unset \in may'[x]
          /\ \A x \in Lba : may[x] \subseteq may'[x]
      <4>1. X \subseteq Lba
          BY DEF Flipped
      <4> HIDE DEF X
      <4>2. QED
          BY <1>2, <3>1, <4>1, LoseFacts
    <3>3. ASSUME NEW b \in Block, NEW e \in Entry
          PROVE  \/ b \in bits'.now <=> b \in bits.now
                 \/ b \in bits'.now /\ b \in Here
                 \/ At(b, e) \in hurt' /\ Unset \in may'[At(b, e)]
      <4>1. CASE At(b, e) \in X
          BY <3>2, <4>1
      <4>2. CASE At(b, e) \notin X
          BY <4>2, FlippedFacts
      <4>3. QED
          BY <4>1, <4>2
    <3> HIDE DEF X
    <3>4. SafeInv'
        BY <1>0, <2>3, <3>1, <3>2, <3>3, BitsWritten
    <3>5. QED
        BY <2>3, <3>1, <3>2, <3>4 DEF StoreInv, StoreType, DataType, TagsType
  <2>4. CASE pc \in {"publish", "bits", "bitsync", "sync"} /\ UNCHANGED <<card, history>>
    <3>1. SafeInv'
        BY <1>0, <2>4, SafeSame DEF StoreInv, card, history
    <3>2. QED
        BY <1>0, <2>4, <3>1
           DEF StoreInv, StoreType, DataType, TagsType, BitsType, HistoryType, card, history
  <2>5. QED
      BY <2>1, <2>2, <2>3, <2>4 DEF WriteFails
<1>4. StoreType'
    BY <1>0, <1>1, <1>3 DEF StoreInv, StoreType
<1>5. QED
    BY <1>1, <1>3, <1>4 DEF StoreInv

\* A card with another volume's contents satisfies the invariant.
LEMMA StoreInit == Init => StoreInv
<1> SUFFICES ASSUME Init
             PROVE  StoreInv
    OBVIOUS
<1>1. /\ lazy \in BOOLEAN /\ store = "raw" /\ cache = NoCache /\ bcache = NoBitmap
      /\ pc = "idle" /\ job = NoJob /\ events = 0
      /\ may = [x \in Lba |-> {Junk}] /\ hurt = {}
    BY DEF Init
<1>2. DataType /\ TagsType /\ BitsType
    BY ValueFacts DEF Init, DataType, TagsType, BitsType
<1>3. /\ NoCache \in [blocks : SUBSET Block, tag : [Block -> TagBlock], init : SUBSET Block]
      /\ NoCache.blocks = {} /\ NoCache.init = {}
      /\ NoBitmap \in [sector : Int, bits : SUBSET Block] /\ NoBitmap.sector = -1
    BY ValueFacts DEF NoCache, NoBitmap
<1>4. NoJob \in [l : Lba, n : Nat, v : Text, at : Block]
  <2>1. 0 \in Block /\ 0 \in Entry /\ At(0, 0) = 0
      BY StoreGeometry DEF Block, Entry, At
  <2>2. QED
      BY <2>1, SectorOfEntry, ValueFacts DEF NoJob
<1>5. CacheType /\ JobType /\ HistoryType
    BY <1>1, <1>3, <1>4, ValueFacts DEF CacheType, JobType, HistoryType, Phase
<1>6. StoreType
    BY <1>1, <1>2, <1>5, StoreBounds DEF StoreType
<1>7. SafeInv /\ BitmapInv /\ CacheInv /\ ClosedInv /\ WriteInv
  <2>1. \A x \in Lba : data.may[x] = {Junk}
      BY DEF Init
  <2>2. QED
      BY <1>1, <1>3, <2>1 DEF SafeInv, BitmapInv, CacheInv, ClosedInv, WriteInv
<1>8. QED
    BY <1>6, <1>7 DEF StoreInv

\* Every step of the store keeps the invariant.
LEMMA StoreStep == StoreInv /\ [Next]_vars => StoreInv'
<1> SUFFICES ASSUME StoreInv, [Next]_vars
             PROVE  StoreInv'
    OBVIOUS
<1>1. CASE UNCHANGED vars
  <2>1. UNCHANGED <<lazy, data, tags, bits, store, cache, bcache, pc, job, events, may, hurt>>
      BY <1>1 DEF vars, card, history
  <2>2. StoreType' /\ SafeInv'
      BY <2>1 DEF StoreInv, StoreType, DataType, TagsType, BitsType, CacheType, JobType, HistoryType,
                  SafeInv, SafeAt, Fits, Exists, Kept, Shown
  <2>3. BitmapInv' /\ CacheInv' /\ ClosedInv'
      BY <2>1 DEF StoreInv, BitmapInv, CacheInv, ClosedInv, Fetched, Exists, JobWindow
  <2>4. WriteInv'
      BY <2>1 DEF StoreInv, WriteInv, WindowInv, Fetched, Exists, JobWindow, JobRange
  <2>5. QED
      BY <2>2, <2>3, <2>4 DEF StoreInv
<1>2. CASE Next
    BY <1>2, FormatStep, SessionStep, PowerCutStep, ReadStep, WriteStep, WriteDataStep, WriteMetaStep,
       PublishSyncStep, PublishBitsStep, PublishDoneStep, AcknowledgeStep, WriteFailsStep DEF Next
<1>3. QED
    BY <1>1, <1>2

-----------------------------------------------------------------------------
(* The theorems *)

\* auth_store.c, all of it: the card, the two caches and the running batch
\* stay in step through every write, failure and power cut.
THEOREM StoreInvariant == Spec => []StoreInv
<1>1. QED
    BY StoreInit, StoreStep, PTL DEF Spec

\* While no batch runs, a read sees what the card says, cached or not.
LEMMA ReadFacts ==
    ASSUME StoreInv, Quiet, NEW x \in Lba
    PROVE  /\ ReadOf(x) = ReadAfresh(x)
           /\ ReadOf(x) \in may[x] \cup {Junk}
           /\ x \notin hurt => ReadOf(x) \in may[x]
<1> DEFINE b == BlockOf(x)
           e == x % TagsPerBlock
           t == TagIn(Loaded({b}), x)
           u == IF lazy /\ b \notin bits.now THEN Unset ELSE tags.now[b][e]
<1>1. b \in Block /\ e \in Entry /\ At(b, e) = x /\ SafeAt(b, e)
    BY EntryOfSector DEF Quiet, StoreInv, SafeInv
<1>2. t = u
  <2>1. b \in Loaded({b}).blocks /\ \A k \in Loaded({b}).blocks : Loaded({b}).tag[k] = Fetched(k)
    <3>1. {b} \in SUBSET Block /\ pc = "idle"
        BY <1>1 DEF Quiet
    <3>2. QED
        BY <3>1, LoadedFacts
  <2>2. t = Fetched(b)[e]
      BY <2>1 DEF TagIn
  <2>3. Fetched(b)[e] = u
      BY <1>1 DEF Fetched, Exists, Blank
  <2>4. QED
      BY <2>2, <2>3
<1>3. ReadOf(x) = IF t = Unset THEN Unset ELSE IF t = data.now[x] THEN t ELSE Junk
    BY DEF ReadOf
<1>4. ReadAfresh(x) = IF u = Unset THEN Unset ELSE IF u = data.now[x] THEN u ELSE Junk
    BY DEF ReadAfresh
<1>5. Exists(b) => Shown(b) /\ tags.now[b] \in tags.may[b] /\ u = tags.now[b][e]
    BY <1>1 DEF StoreInv, StoreType, TagsType, Exists, Shown
<1>6. ~Exists(b) => u = Unset
    BY DEF Exists
<1>7. data.now[x] \in data.may[x]
    BY DEF StoreInv, StoreType, DataType
<1> HIDE DEF t, u, b, e
<1>8. u = Unset => Unset \in may[x]
    BY <1>1, <1>5, <1>6 DEF SafeAt
<1>9. data.now[x] \in may[x] \cup {Junk}
    BY <1>1, <1>7 DEF SafeAt
<1>10. x \notin hurt => u = Unset \/ (u # Junk /\ u = data.now[x])
    BY <1>1, <1>5, <1>6, <1>7 DEF SafeAt, Fits
<1>11. QED
    BY <1>2, <1>3, <1>4, <1>8, <1>9, <1>10

\* fv_auth_read_batch never returns anything but the acknowledged value, one
\* a later failed write was about, or an integrity error, and never something
\* a reopened store would not return.
THEOREM StoreReadsHonest == Spec => []ReadsHonest
<1>1. StoreInv => ReadsHonest
    BY ReadFacts DEF ReadsHonest
<1>2. QED
    BY <1>1, StoreInvariant, PTL

\* A failed or cut off fv_auth_write_batch makes only its own sectors, and
\* those of a metadata sector that was itself torn, unreadable.
THEOREM StoreNeighboursReadable == Spec => []NeighboursReadable
<1>1. StoreInv => NeighboursReadable
    BY ReadFacts DEF NeighboursReadable
<1>2. QED
    BY <1>1, StoreInvariant, PTL
=============================================================================
