----------------------------- MODULE LegacyBlock -----------------------------
(***************************************************************************)
(* The passkey store of the first-generation firmware (fido_store.c) over  *)
(* its encrypted sectors (encrypted_block.c).  A sector has two slots; a   *)
(* write goes to the slot of its generation's parity and leaves the other  *)
(* alone.  An image is written sector by sector to the bank that is not in *)
(* force, and its digest in the security journal puts it in force.         *)
(*                                                                         *)
(* A slot is Empty, Ruined, or a generation with what it holds.  An image  *)
(* is a function from sectors to contents and stands for its digest.       *)
(***************************************************************************)
EXTENDS Integers, FiniteSets

CONSTANTS Sector,      \* sectors of an image
          Image,       \* images the engine may commit
          MaxCommits,  \* bound: commits begun
          MaxCuts      \* bound: cuts and failed writes

ASSUME SectorAssumption == Sector \subseteq Nat
ASSUME ImageAssumption == \A image \in Image : image = [s \in Sector |-> image[s]]

VARIABLES slots,       \* slots[bank][sector][0..1]
          digest,      \* the journal's fido_digest, None until the first commit
          store,       \* fv_fido_store_t: [ready, active], or Closed
          commit,      \* the commit under way: [image, left], or NoCommit
          commits, cuts

bvars == <<slots, digest, store, commit, commits, cuts>>

Nothing == "nothing"
None == [s \in Sector |-> Nothing]
EmptySlot == [kind |-> "empty", gen |-> 0, data |-> Nothing]
RuinedSlot == [kind |-> "ruined", gen |-> 0, data |-> Nothing]
Closed == [ready |-> FALSE, active |-> 1]
NoCommit == [image |-> None, left |-> {}, on |-> FALSE]

\* select_impl: the newer of two consecutive slots, or the only valid one
Selected(pair) ==
  LET good == {pair[i] : i \in {j \in 0..1 : pair[j].kind = "valid"}}
      newest == CHOOSE g \in good : \A h \in good : h.gen <= g.gen
      apart == \E g, h \in good : g.gen - h.gen > 1
      ruined == \E i \in 0..1 : pair[i].kind = "ruined"
  IN [result |-> IF apart \/ (good = {} /\ ruined) THEN "INTEGRITY" ELSE "OK",
      gen |-> IF good = {} THEN 0 ELSE newest.gen,
      data |-> IF good = {} THEN Nothing ELSE newest.data]

\* read_blocks_impl over a whole bank; an unwritten sector reads as zeros
Readable(bank) == \A s \in Sector : Selected(slots[bank][s]).result = "OK"
Content(bank) == [s \in Sector |-> Selected(slots[bank][s]).data]

\* write_blocks_impl: the next generation, and the slot it goes to
NextSlot(pair, data) == [kind |-> "valid", gen |-> Selected(pair).gen + 1, data |-> data]
Target(pair) == Selected(pair).gen % 2

BInit ==
  /\ slots = [b \in 0..1 |-> [s \in Sector |-> [i \in 0..1 |-> EmptySlot]]]
  /\ digest = None /\ store = Closed /\ commit = NoCommit /\ commits = 0 /\ cuts = 0

\* fv_fido_store_open: without a digest the image is empty and the first
\* commit goes to bank zero; otherwise the first bank with that digest
InForce == {b \in 0..1 : Readable(b) /\ Content(b) = digest}
Open ==
  /\ ~store.ready /\ ~commit.on /\ (digest = None \/ InForce # {})
  /\ store' = [ready |-> TRUE,
               active |-> IF digest = None THEN 1 ELSE IF 0 \in InForce THEN 0 ELSE 1]
  /\ UNCHANGED <<slots, digest, commit, commits, cuts>>

\* fv_fido_store_commit, up to the first sector
CommitBegin(image) ==
  /\ store.ready /\ ~commit.on /\ commits < MaxCommits /\ commits' = commits + 1
  /\ commit' = [image |-> image, left |-> Sector, on |-> TRUE]
  /\ UNCHANGED <<slots, digest, store, cuts>>

Fails == commit' = NoCommit /\ store' = [store EXCEPT !.ready = FALSE]

\* Mutant: the bank in force is overwritten.
ActiveBank == store.active

\* The bank the next image goes to.
TargetBank == 1 - store.active

\* The sectors in order: each must be readable before it is written.
CommitSector ==
  /\ commit.left # {}
  /\ LET b == TargetBank
         s == CHOOSE x \in commit.left : \A y \in commit.left : x <= y
         pair == slots[b][s]
     IN \/ /\ Selected(pair).result = "OK"
           /\ slots' = [slots EXCEPT ![b][s][Target(pair)] = NextSlot(pair, commit.image[s])]
           /\ commit' = [commit EXCEPT !.left = @ \ {s}] /\ UNCHANGED <<store, cuts>>
        \/ Selected(pair).result # "OK" /\ Fails /\ UNCHANGED <<slots, cuts>>
        \/ /\ Selected(pair).result = "OK" /\ cuts < MaxCuts /\ cuts' = cuts + 1
           /\ \E w \in {RuinedSlot, NextSlot(pair, commit.image[s])} :
                slots' = [slots EXCEPT ![b][s][Target(pair)] = w]
           /\ Fails
  /\ UNCHANGED <<digest, commits>>

\* The journal record that puts the image in force.
CommitDigest ==
  /\ commit.on /\ commit.left = {}
  /\ \/ /\ digest' = commit.image /\ commit' = NoCommit
        /\ store' = [store EXCEPT !.active = 1 - @] /\ UNCHANGED cuts
     \/ cuts < MaxCuts /\ cuts' = cuts + 1 /\ Fails /\ digest' \in {digest, commit.image}
  /\ UNCHANGED <<slots, commits>>

\* Locked, or without power.
CloseStore ==
  /\ store.ready /\ store' = Closed /\ commit' = NoCommit
  /\ IF commit.on THEN cuts < MaxCuts /\ cuts' = cuts + 1 ELSE UNCHANGED cuts
  /\ UNCHANGED <<slots, digest, commits>>

BNext ==
  Open \/ (\E image \in Image : CommitBegin(image)) \/ CommitSector \/ CommitDigest \/ CloseStore
BSpec == BInit /\ [][BNext]_bvars

\* The image whose digest is in the journal is in one of the banks, whatever
\* a later commit had written when it was cut off; passkeys are never lost.
AnchoredImageKept == digest # None => InForce # {}
=============================================================================
