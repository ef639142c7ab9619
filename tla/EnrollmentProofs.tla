-------------------------- MODULE EnrollmentProofs --------------------------
(***************************************************************************)
(* Proofs about module Enrollment, for every number of slots, every set of *)
(* legacy slots and every bound on faults.  The argument: whatever call is *)
(* interrupted, a step changes the fuses of one slot and only forward      *)
(* (FuseStep); so slots are consumed in order (SlotOrder) and at most one  *)
(* is live, which ties the masks to the secrets and the journal.           *)
(***************************************************************************)
EXTENDS Enrollment, TLAPS

RamType == [opened : BOOLEAN, terminal : BOOLEAN, slot : Slot]

\* The device structures a call can leave behind are well typed.
LEMMA RamFacts ==
    ASSUME TypeOK
    PROVE  /\ Closed \in RamType
           /\ Unopened \in RamType
           /\ [ram EXCEPT !.opened = FALSE, !.terminal = FALSE] \in RamType
           /\ ram \in RamType
<1>1. Closed \in RamType
    BY SlotAssumption DEF RamType, Closed, Slot
<1>2. ram \in RamType
    BY DEF TypeOK, RamType
<1>3. [ram EXCEPT !.opened = FALSE] \in RamType
    BY <1>2, Zenon DEF RamType
<1>4. [ram EXCEPT !.opened = FALSE, !.terminal = FALSE] \in RamType
    BY <1>2, Zenon DEF RamType
<1>5. QED
    BY <1>1, <1>2, <1>3, <1>4 DEF Unopened

\* A call that ends with an error or a power cut leaves typed state.
LEMMA EndsType ==
    ASSUME TypeOK, NEW r \in RamType, Ends(r)
    PROVE  /\ ram' \in RamType
           /\ pc' = "idle"
           /\ cur' \in Slot
           /\ faults' \in 0 .. MaxFaults
BY RamFacts, SlotAssumption, FaultAssumption DEF TypeOK, Ends, Fault, Slot

\* Every step of every call keeps the state typed.
LEMMA TypeStep == TypeOK /\ [Next]_vars => TypeOK'
<1> SUFFICES ASSUME TypeOK, [Next]_vars
             PROVE  TypeOK'
    OBVIOUS
<1> USE SlotAssumption, FaultAssumption
   DEF TypeOK, RamType, Mask, Token, Status, FlashState, PC, Flash, RecordOf, Slot
<1>1. CASE Open
    BY <1>1 DEF Open, OpenedRam, Ready, Revoked
<1>2. CASE PowerCut
    BY <1>2, RamFacts DEF PowerCut, Fault
<1>3. CASE PrepareBegin
    BY <1>3, RamFacts DEF PrepareBegin
<1>4. CASE PrepareErase
    BY <1>4 DEF PrepareErase
<1>5. CASE PrepareFails
    BY <1>5, RamFacts, EndsType DEF PrepareFails
<1>6. CASE ProvisionExisting
    BY <1>6 DEF ProvisionExisting, Ready, Revoked
<1>7. CASE ProvisionBegin
    BY <1>7, RamFacts DEF ProvisionBegin
<1>8. CASE SweepRevoking
    BY <1>8 DEF SweepRevoking
<1>9. CASE SweepRevoked
    BY <1>9 DEF SweepRevoked
<1>10. CASE SweepBurn
    BY <1>10 DEF SweepBurn
<1>11. CASE SweepNext
    BY <1>11 DEF SweepNext
<1>12. CASE SweepFails
    BY <1>12, RamFacts, EndsType DEF SweepFails
<1>13. ASSUME NEW s \in Slot, Pick(s) PROVE TypeOK'
    BY <1>13 DEF Pick
<1>14. CASE PickFails
    BY <1>14, RamFacts, EndsType DEF PickFails
<1>15. CASE NoFreeSlot
    BY <1>15 DEF NoFreeSlot
<1>16. CASE WriteSecret
    BY <1>16 DEF WriteSecret
<1>17. CASE WriteSecretFails
    BY <1>17, RamFacts, EndsType DEF WriteSecretFails
<1>18. CASE EraseJournal
    BY <1>18 DEF EraseJournal
<1>19. CASE EraseJournalFails
    BY <1>19, RamFacts, EndsType DEF EraseJournalFails
<1>20. CASE CommitEmpty
    BY <1>20 DEF CommitEmpty
<1>21. CASE CommitEmptyFails
    BY <1>21, RamFacts, EndsType DEF CommitEmptyFails
<1>22. CASE SetReady
    BY <1>22 DEF SetReady
<1>23. CASE SetReadyFails
    BY <1>23, RamFacts, EndsType DEF SetReadyFails
<1>24. CASE Commit
    BY <1>24 DEF Commit, Successors
<1>25. CASE CommitFails
    BY <1>25, RamFacts, EndsType DEF CommitFails, Successors
<1>26. CASE RequestDestruction
    BY <1>26 DEF RequestDestruction
<1>27. CASE RequestDestructionFails
    BY <1>27, RamFacts, EndsType DEF RequestDestructionFails
<1>28. CASE RecoverDestruction
    BY <1>28 DEF RecoverDestruction
<1>29. CASE Revoke
    BY <1>29 DEF Revoke
<1>30. CASE RevokeFails
    BY <1>30, RamFacts, EndsType DEF RevokeFails
<1>31. CASE Burn
    BY <1>31 DEF Burn
<1>32. CASE BurnFails
    BY <1>32, RamFacts, EndsType DEF BurnFails
<1>33. CASE UNCHANGED vars
    BY <1>33 DEF vars
<1>34. QED
    BY <1>1, <1>2, <1>3, <1>4, <1>5, <1>6, <1>7, <1>8, <1>9, <1>10, <1>11, <1>12, <1>13,
       <1>14, <1>15, <1>16, <1>17, <1>18, <1>19, <1>20, <1>21, <1>22, <1>23, <1>24, <1>25,
       <1>26, <1>27, <1>28, <1>29, <1>30, <1>31, <1>32, <1>33
       DEF Next, Provision, Destruction

\* A fresh board satisfies the invariant.
LEMMA InitHolds == Init => TypeOK /\ EnrollInv
BY SlotAssumption, LegacyAssumption, FaultAssumption
   DEF Init, TypeOK, Slot, Mask, Token, Status, FlashState, PC, Flash, Closed, EnrollInv,
       SlotOrder, MaskTells, CallProgress, Live, Free, LastRevokedCoversAll, IsLastRevoked,
       Revoked, Ready, Started, ReadyOwnsJournal

-----------------------------------------------------------------------------
\* The one-way successors of a live slot's mask.
MaskAfter(m) ==
    CASE m = "started" -> {"revoking", "ready"}
      [] m \in {"revoking", "ready"} -> {"revoked"}
      [] OTHER -> {}

\* All that a step may do to the fuses: nothing, claim the first free slot
\* once every other is spent, advance the mask of a live slot, write the
\* secret of a started one, or fill the secret of a revoked one.
FuseStep ==
    \/ mask' = mask /\ token' = token
    \/ \E s \in Slot :
          /\ token' = token
          /\ IsFirstFree(s) /\ \A t \in Slot : SweepPasses(t)
          /\ mask' = [mask EXCEPT ![s] = "started"]
    \/ \E s \in Slot : \E m \in MaskAfter(mask[s]) :
          token' = token /\ mask' = [mask EXCEPT ![s] = m]
    \/ \E s \in Slot : \E v \in {"partial", "written"} :
          /\ mask' = mask /\ mask[s] = "started" /\ token[s] = "blank"
          /\ token' = [token EXCEPT ![s] = v]
    \/ \E s \in Slot : \E v \in {"filling", "burned"} :
          /\ mask' = mask /\ mask[s] = "revoked" /\ token[s] # "burned"
          /\ token' = [token EXCEPT ![s] = v]

\* Every step of every call, failures and power cuts included, is a FuseStep.
LEMMA StepIsFuseStep ==
    ASSUME TypeOK, EnrollInv, [Next]_vars
    PROVE  FuseStep
<1> USE DEF FuseStep, MaskAfter
<1>1. CASE UNCHANGED <<mask, token>>
    BY <1>1
<1>2. CASE SweepRevoking
    BY <1>2 DEF SweepRevoking, TypeOK, EnrollInv, CallProgress
<1>3. CASE SweepRevoked
    BY <1>3 DEF SweepRevoked, TypeOK, EnrollInv, CallProgress
<1>4. CASE SweepBurn
    BY <1>4 DEF SweepBurn, TypeOK, EnrollInv, CallProgress
<1>5. CASE SweepFails
    BY <1>5 DEF SweepFails, TypeOK, EnrollInv, CallProgress
<1>6. ASSUME NEW s \in Slot, Pick(s) PROVE FuseStep
    BY <1>6 DEF Pick, TypeOK, EnrollInv, CallProgress
<1>7. CASE PickFails
    BY <1>7 DEF PickFails, TypeOK, EnrollInv, CallProgress
<1>8. CASE WriteSecret
    BY <1>8 DEF WriteSecret, TypeOK, EnrollInv, CallProgress
<1>9. CASE WriteSecretFails
    BY <1>9 DEF WriteSecretFails, TypeOK, EnrollInv, CallProgress
<1>10. CASE SetReady
    BY <1>10 DEF SetReady, TypeOK, EnrollInv, CallProgress
<1>11. CASE SetReadyFails
    BY <1>11 DEF SetReadyFails, TypeOK, EnrollInv, CallProgress
<1>12. CASE Revoke
    <2>1. CASE ram.terminal
        BY <1>12, <2>1 DEF Revoke, LoadStatus, TypeOK
    <2>2. CASE ~ram.terminal
        BY <1>12, <2>2 DEF Revoke, LoadStatus, TypeOK, JournalLoads
    <2>3. QED
        BY <2>1, <2>2
<1>13. CASE RevokeFails
    <2>1. CASE mask' = mask
        BY <1>13, <2>1 DEF RevokeFails
    <2>2. CASE mask' = [mask EXCEPT ![ram.slot] = "revoked"]
        BY <1>13, <2>2
           DEF RevokeFails, EnrollInv, CallProgress, LoadStatus, TypeOK, JournalLoads
    <2>3. QED
        BY <1>13, <2>1, <2>2 DEF RevokeFails
<1>14. CASE Burn
    BY <1>14 DEF Burn, TypeOK, EnrollInv, CallProgress
<1>15. CASE BurnFails
    BY <1>15 DEF BurnFails, TypeOK, EnrollInv, CallProgress
<1>16. QED
    BY <1>1, <1>2, <1>3, <1>4, <1>5, <1>6, <1>7, <1>8, <1>9, <1>10, <1>11, <1>12, <1>13,
       <1>14, <1>15
         DEF Next, Provision, Destruction, vars, Open, PowerCut, PrepareBegin,
             PrepareErase, PrepareFails, ProvisionExisting, ProvisionBegin, SweepNext,
             NoFreeSlot, EraseJournal, EraseJournalFails, CommitEmpty, CommitEmptyFails,
             Commit, CommitFails, RequestDestruction, RequestDestructionFails,
             RecoverDestruction

\* The order in which slots are consumed survives every such change.
LEMMA FuseStepKeepsOrder ==
    ASSUME TypeOK, SlotOrder, FuseStep
    PROVE  SlotOrder'
<1> USE
   DEF TypeOK, Slot, SlotOrder, Live, Free, LastRevokedCoversAll, IsLastRevoked, Revoked,
            Ready, Started
<1>1. CASE mask' = mask /\ token' = token
    BY <1>1
<1>2. ASSUME NEW s \in Slot, token' = token, IsFirstFree(s), \A t \in Slot : SweepPasses(t),
             mask' = [mask EXCEPT ![s] = "started"]
      PROVE  SlotOrder'
    BY <1>2 DEF IsFirstFree, SweepPasses
<1>3. ASSUME NEW s \in Slot, NEW m \in MaskAfter(mask[s]), token' = token,
             mask' = [mask EXCEPT ![s] = m]
      PROVE  SlotOrder'
    <2>1. Live(s) /\ m \in {"revoking", "ready", "revoked"}
        BY <1>3 DEF MaskAfter
    <2>2. QED
        BY <1>3, <2>1
<1>4. ASSUME NEW s \in Slot, NEW v \in {"partial", "written"}, mask' = mask, mask[s] = "started",
             token' = [token EXCEPT ![s] = v]
      PROVE  SlotOrder'
    BY <1>4
<1>5. ASSUME NEW s \in Slot, NEW v \in {"filling", "burned"}, mask' = mask, mask[s] = "revoked",
             token[s] # "burned", token' = [token EXCEPT ![s] = v]
      PROVE  SlotOrder'
    BY <1>5
<1>6. QED
    BY <1>1, <1>2, <1>3, <1>4, <1>5 DEF FuseStep

\* Between calls nothing is owed.
LEMMA IdleProgress ==
    ASSUME pc' = "idle"
    PROVE  CallProgress'
BY DEF CallProgress

\* The fuses and the journal decide MaskTells.
LEMMA MaskTellsFrame ==
    ASSUME MaskTells, UNCHANGED <<mask, token, journal>>
    PROVE  MaskTells'
BY DEF MaskTells, ReadyOwnsJournal, Ready

\* Every step keeps the invariant.
LEMMA InvStep == TypeOK /\ EnrollInv /\ [Next]_vars => EnrollInv'
<1> SUFFICES ASSUME TypeOK, EnrollInv, [Next]_vars
             PROVE  EnrollInv'
    OBVIOUS
<1>a. TypeOK'
    BY TypeStep
<1>b. SlotOrder'
    BY StepIsFuseStep, FuseStepKeepsOrder DEF EnrollInv
<1>c. SUFFICES MaskTells' /\ CallProgress'
    BY <1>b DEF EnrollInv
<1> USE <1>a, <1>b, SlotAssumption DEF EnrollInv, TypeOK, Slot
<1>1. CASE Open
    BY <1>1, MaskTellsFrame, IdleProgress DEF Open
<1>2. CASE PowerCut
    BY <1>2, MaskTellsFrame, IdleProgress DEF PowerCut, Ends
<1>3. CASE PrepareBegin
    <2>1. MaskTells'
        BY <1>3, MaskTellsFrame DEF PrepareBegin
    <2>2. CallProgress'
        BY <1>3
           DEF PrepareBegin, CallProgress, Ready, SweepPasses, LoadStatus, JournalLoads,
               RecordOf, Flash
    <2>3. QED
        BY <2>1, <2>2
<1>4. CASE PrepareErase
    <2>1. MaskTells'
        BY <1>4
           DEF PrepareErase, MaskTells, ReadyOwnsJournal, Ready, SlotOrder, Live, Free,
               CallProgress, Flash, RecordOf, FlashState, LoadStatus, JournalLoads
    <2>2. CallProgress'
        BY <1>4, IdleProgress DEF PrepareErase
    <2>3. QED
        BY <2>1, <2>2
<1>5. CASE PrepareFails
    <2>1. MaskTells'
        BY <1>5
           DEF PrepareFails, Ends, MaskTells, ReadyOwnsJournal, Ready, SlotOrder, Live,
               Free, CallProgress, Flash, RecordOf, FlashState, LoadStatus, JournalLoads
    <2>2. CallProgress'
        BY <1>5, IdleProgress DEF PrepareFails, Ends
    <2>3. QED
        BY <2>1, <2>2
<1>6. CASE ProvisionExisting
    BY <1>6, MaskTellsFrame, IdleProgress DEF ProvisionExisting
<1>7. CASE ProvisionBegin
    <2>1. MaskTells'
        BY <1>7, MaskTellsFrame DEF ProvisionBegin
    <2>2. CallProgress'
        BY <1>7
           DEF ProvisionBegin, CallProgress, Ready, SweepPasses, LoadStatus, JournalLoads,
               RecordOf, Flash
    <2>3. QED
        BY <2>1, <2>2
<1>8. CASE SweepRevoking
    <2>1. MaskTells'
        BY <1>8
           DEF SweepRevoking, MaskTells, ReadyOwnsJournal, Ready, SlotOrder, Live, Free,
               CallProgress, Flash, RecordOf, FlashState, LoadStatus, JournalLoads
    <2>2. CallProgress'
        BY <1>8
           DEF SweepRevoking, CallProgress, Ready, SweepPasses, LoadStatus, JournalLoads,
               RecordOf, Flash
    <2>3. QED
        BY <2>1, <2>2
<1>9. CASE SweepRevoked
    <2>1. MaskTells'
        BY <1>9
           DEF SweepRevoked, MaskTells, ReadyOwnsJournal, Ready, SlotOrder, Live, Free,
               CallProgress, Flash, RecordOf, FlashState, LoadStatus, JournalLoads
    <2>2. CallProgress'
        BY <1>9
           DEF SweepRevoked, CallProgress, Ready, SweepPasses, LoadStatus, JournalLoads,
               RecordOf, Flash
    <2>3. QED
        BY <2>1, <2>2
<1>10. CASE SweepBurn
    <2>1. MaskTells'
        BY <1>10
           DEF SweepBurn, MaskTells, ReadyOwnsJournal, Ready, SlotOrder, Live, Free,
               CallProgress, Flash, RecordOf, FlashState, LoadStatus, JournalLoads
    <2>2. CallProgress'
        BY <1>10
           DEF SweepBurn, CallProgress, Ready, SweepPasses, LoadStatus, JournalLoads,
               RecordOf, Flash
    <2>3. QED
        BY <2>1, <2>2
<1>11. CASE SweepNext
    <2>1. MaskTells'
        BY <1>11, MaskTellsFrame DEF SweepNext
    <2>2. CallProgress'
        BY <1>11
           DEF SweepNext, CallProgress, Ready, SweepPasses, LoadStatus, JournalLoads,
               RecordOf, Flash
    <2>3. QED
        BY <2>1, <2>2
<1>12. CASE SweepFails
    <2>1. MaskTells'
        BY <1>12
           DEF SweepFails, Ends, MaskTells, ReadyOwnsJournal, Ready, SlotOrder, Live, Free,
               CallProgress, Flash, RecordOf, FlashState, LoadStatus, JournalLoads
    <2>2. CallProgress'
        BY <1>12, IdleProgress DEF SweepFails, Ends
    <2>3. QED
        BY <2>1, <2>2
<1>13. ASSUME NEW s \in Slot, Pick(s) PROVE MaskTells' /\ CallProgress'
    <2>1. MaskTells'
        BY <1>13
           DEF Pick, IsFirstFree, Free, MaskTells, ReadyOwnsJournal, Ready, SlotOrder,
               Live, CallProgress, Flash, RecordOf, FlashState, LoadStatus, JournalLoads
    <2>2. CallProgress'
        BY <1>13
           DEF Pick, IsFirstFree, Free, CallProgress, Ready, SweepPasses, LoadStatus,
               JournalLoads, RecordOf, Flash
    <2>3. QED
        BY <2>1, <2>2
<1>14. CASE PickFails
    <2>1. MaskTells'
        BY <1>14
           DEF PickFails, Ends, IsFirstFree, Free, MaskTells, ReadyOwnsJournal, Ready,
               SlotOrder, Live, CallProgress, Flash, RecordOf, FlashState, LoadStatus,
               JournalLoads
    <2>2. CallProgress'
        BY <1>14, IdleProgress DEF PickFails, Ends
    <2>3. QED
        BY <2>1, <2>2
<1>15. CASE NoFreeSlot
    BY <1>15, MaskTellsFrame, IdleProgress DEF NoFreeSlot
<1>16. CASE WriteSecret
    <2>1. MaskTells'
        BY <1>16
           DEF WriteSecret, MaskTells, ReadyOwnsJournal, Ready, SlotOrder, Live, Free,
               CallProgress, Flash, RecordOf, FlashState, LoadStatus, JournalLoads
    <2>2. CallProgress'
        BY <1>16
           DEF WriteSecret, CallProgress, Ready, SweepPasses, LoadStatus, JournalLoads,
               RecordOf, Flash
    <2>3. QED
        BY <2>1, <2>2
<1>17. CASE WriteSecretFails
    <2>1. MaskTells'
        BY <1>17
           DEF WriteSecretFails, Ends, MaskTells, ReadyOwnsJournal, Ready, SlotOrder, Live,
               Free, CallProgress, Flash, RecordOf, FlashState, LoadStatus, JournalLoads
    <2>2. CallProgress'
        BY <1>17, IdleProgress DEF WriteSecretFails, Ends
    <2>3. QED
        BY <2>1, <2>2
<1>18. CASE EraseJournal
    <2>1. MaskTells'
        BY <1>18
           DEF EraseJournal, MaskTells, ReadyOwnsJournal, Ready, SlotOrder, Live, Free,
               CallProgress, Flash, RecordOf, FlashState, LoadStatus, JournalLoads
    <2>2. CallProgress'
        BY <1>18
           DEF EraseJournal, CallProgress, Ready, SweepPasses, LoadStatus, JournalLoads,
               RecordOf, Flash
    <2>3. QED
        BY <2>1, <2>2
<1>19. CASE EraseJournalFails
    <2>1. MaskTells'
        BY <1>19
           DEF EraseJournalFails, Ends, MaskTells, ReadyOwnsJournal, Ready, SlotOrder,
               Live, Free, CallProgress, Flash, RecordOf, FlashState, LoadStatus,
               JournalLoads
    <2>2. CallProgress'
        BY <1>19, IdleProgress DEF EraseJournalFails, Ends
    <2>3. QED
        BY <2>1, <2>2
<1>20. CASE CommitEmpty
    <2>1. MaskTells'
        BY <1>20
           DEF CommitEmpty, MaskTells, ReadyOwnsJournal, Ready, SlotOrder, Live, Free,
               CallProgress, Flash, RecordOf, FlashState, LoadStatus, JournalLoads
    <2>2. CallProgress'
        BY <1>20
           DEF CommitEmpty, CallProgress, Ready, SweepPasses, LoadStatus, JournalLoads,
               RecordOf, Flash
    <2>3. QED
        BY <2>1, <2>2
<1>21. CASE CommitEmptyFails
    <2>1. MaskTells'
        BY <1>21
           DEF CommitEmptyFails, Ends, MaskTells, ReadyOwnsJournal, Ready, SlotOrder, Live,
               Free, CallProgress, Flash, RecordOf, FlashState, LoadStatus, JournalLoads
    <2>2. CallProgress'
        BY <1>21, IdleProgress DEF CommitEmptyFails, Ends
    <2>3. QED
        BY <2>1, <2>2
<1>22. CASE SetReady
    <2>1. MaskTells'
        BY <1>22
           DEF SetReady, MaskTells, ReadyOwnsJournal, Ready, SlotOrder, Live, Free,
               CallProgress, Flash, RecordOf, FlashState, LoadStatus, JournalLoads
    <2>2. CallProgress'
        BY <1>22, IdleProgress DEF SetReady
    <2>3. QED
        BY <2>1, <2>2
<1>23. CASE SetReadyFails
    <2>1. MaskTells'
        BY <1>23
           DEF SetReadyFails, Ends, MaskTells, ReadyOwnsJournal, Ready, SlotOrder, Live,
               Free, CallProgress, Flash, RecordOf, FlashState, LoadStatus, JournalLoads
    <2>2. CallProgress'
        BY <1>23, IdleProgress DEF SetReadyFails, Ends
    <2>3. QED
        BY <2>1, <2>2
<1>24. CASE Commit
    <2>1. MaskTells'
        BY <1>24
           DEF Commit, Successors, MaskTells, ReadyOwnsJournal, Ready, SlotOrder, Live,
               Free, CallProgress, Flash, RecordOf, FlashState, LoadStatus, JournalLoads
    <2>2. CallProgress'
        BY <1>24, IdleProgress DEF Commit
    <2>3. QED
        BY <2>1, <2>2
<1>25. CASE CommitFails
    <2>1. MaskTells'
        BY <1>25
           DEF CommitFails, Ends, Successors, MaskTells, ReadyOwnsJournal, Ready,
               SlotOrder, Live, Free, CallProgress, Flash, RecordOf, FlashState,
               LoadStatus, JournalLoads
    <2>2. CallProgress'
        BY <1>25, IdleProgress DEF CommitFails, Ends
    <2>3. QED
        BY <2>1, <2>2
<1>26. CASE RequestDestruction
    <2>1. MaskTells'
        BY <1>26
           DEF RequestDestruction, MaskTells, ReadyOwnsJournal, Ready, SlotOrder, Live,
               Free, CallProgress, Flash, RecordOf, FlashState, LoadStatus, JournalLoads
    <2>2. CallProgress'
        BY <1>26
           DEF RequestDestruction, CallProgress, Ready, SweepPasses, LoadStatus,
               JournalLoads, RecordOf, Flash
    <2>3. QED
        BY <2>1, <2>2
<1>27. CASE RequestDestructionFails
    <2>1. MaskTells'
        BY <1>27
           DEF RequestDestructionFails, Ends, MaskTells, ReadyOwnsJournal, Ready,
               SlotOrder, Live, Free, CallProgress, Flash, RecordOf, FlashState,
               LoadStatus, JournalLoads
    <2>2. CallProgress'
        BY <1>27, IdleProgress DEF RequestDestructionFails, Ends
    <2>3. QED
        BY <2>1, <2>2
<1>28. CASE RecoverDestruction
    <2>1. MaskTells'
        BY <1>28, MaskTellsFrame DEF RecoverDestruction
    <2>2. CallProgress'
        BY <1>28
           DEF RecoverDestruction, CallProgress, Ready, SweepPasses, LoadStatus,
               JournalLoads, RecordOf, Flash
    <2>3. QED
        BY <2>1, <2>2
<1>29. CASE Revoke
    <2>1. MaskTells'
        BY <1>29
           DEF Revoke, MaskTells, ReadyOwnsJournal, Ready, SlotOrder, Live, Free,
               CallProgress, Flash, RecordOf, FlashState, LoadStatus, JournalLoads
    <2>2. CallProgress'
        BY <1>29
           DEF Revoke, CallProgress, Ready, SweepPasses, LoadStatus, JournalLoads,
               RecordOf, Flash
    <2>3. QED
        BY <2>1, <2>2
<1>30. CASE RevokeFails
    <2>1. MaskTells'
        BY <1>30
           DEF RevokeFails, Ends, MaskTells, ReadyOwnsJournal, Ready, SlotOrder, Live,
               Free, CallProgress, Flash, RecordOf, FlashState, LoadStatus, JournalLoads
    <2>2. CallProgress'
        BY <1>30, IdleProgress DEF RevokeFails, Ends
    <2>3. QED
        BY <2>1, <2>2
<1>31. CASE Burn
    <2>1. MaskTells'
        BY <1>31
           DEF Burn, MaskTells, ReadyOwnsJournal, Ready, SlotOrder, Live, Free,
               CallProgress, Flash, RecordOf, FlashState, LoadStatus, JournalLoads
    <2>2. CallProgress'
        BY <1>31, IdleProgress DEF Burn
    <2>3. QED
        BY <2>1, <2>2
<1>32. CASE BurnFails
    <2>1. MaskTells'
        BY <1>32
           DEF BurnFails, Ends, MaskTells, ReadyOwnsJournal, Ready, SlotOrder, Live, Free,
               CallProgress, Flash, RecordOf, FlashState, LoadStatus, JournalLoads
    <2>2. CallProgress'
        BY <1>32, IdleProgress DEF BurnFails, Ends
    <2>3. QED
        BY <2>1, <2>2
<1>33. CASE UNCHANGED vars
    BY <1>33, MaskTellsFrame
       DEF vars, CallProgress, Ready, SweepPasses, LoadStatus, JournalLoads, RecordOf
<1>34. QED
    BY <1>1, <1>2, <1>3, <1>4, <1>5, <1>6, <1>7, <1>8, <1>9, <1>10, <1>11, <1>12, <1>13,
       <1>14, <1>15, <1>16, <1>17, <1>18, <1>19, <1>20, <1>21, <1>22, <1>23, <1>24, <1>25,
       <1>26, <1>27, <1>28, <1>29, <1>30, <1>31, <1>32, <1>33
       DEF Next, Provision, Destruction

-----------------------------------------------------------------------------
\* Types and the invariant hold in every reachable state, whatever calls were
\* interrupted.
THEOREM EnrollmentInvariant == Spec => [](TypeOK /\ EnrollInv)
<1>1. TypeOK /\ EnrollInv /\ [Next]_vars => (TypeOK /\ EnrollInv)'
    BY TypeStep, InvStep
<1>2. QED
    BY InitHolds, <1>1, PTL DEF Spec

\* The state of the enrollment layer stays well typed and every slot index
\* inside the allocation.
THEOREM EnrollmentType == Spec => []TypeOK
BY EnrollmentInvariant, PTL

\* inspect_mask never refuses the masks the code itself leaves.
THEOREM EnrollmentDecidable == Spec => []MaskDecidable
<1>1. TypeOK /\ EnrollInv => MaskDecidable
    BY DEF TypeOK, EnrollInv, SlotOrder, MaskDecidable, Decidable, Ready, Started, Live
<1>2. QED
    BY EnrollmentInvariant, <1>1, PTL

\* A READY slot owns its complete secret and its own journal.
THEOREM EnrollmentReadyOwnsJournal == Spec => []ReadyOwnsJournal
<1>1. EnrollInv => ReadyOwnsJournal
    BY DEF EnrollInv, MaskTells
<1>2. QED
    BY EnrollmentInvariant, <1>1, PTL

\* A secret still to be filled belongs to the slot open() reports.
THEOREM EnrollmentLastRevoked == Spec => []LastRevokedCoversAll
<1>1. EnrollInv => LastRevokedCoversAll
    BY DEF EnrollInv, SlotOrder
<1>2. QED
    BY EnrollmentInvariant, <1>1, PTL

\* No interruption makes fv_enrollment_open deny the board, but a torn
\* journal commit or flash that was never prepared.
THEOREM EnrollmentNeverBricked == Spec => []NeverBricked
<1>1. TypeOK /\ EnrollInv => NeverBricked
    <2> SUFFICES ASSUME TypeOK, EnrollInv, OpenResult = "denied"
                 PROVE  \/ Ready # {} /\ journal.kind = "corrupt"
                        \/ (\A s \in Slot : mask[s] = "unused") /\ journal.kind = "stale"
        BY DEF NeverBricked
    <2>1. Decidable
        BY DEF TypeOK, EnrollInv, SlotOrder, Decidable, Ready, Started, Live
    <2>2. CASE Ready # {}
        BY <2>1, <2>2 DEF OpenResult, JournalLoads, EnrollInv, MaskTells, ReadyOwnsJournal
    <2>3. CASE Ready = {}
        <3>1. Started = {} /\ Revoked = {} /\ journal.kind # "blank"
            BY <2>1, <2>3 DEF OpenResult
        <3>2. \A s \in Slot : mask[s] = "unused"
            BY <2>3, <3>1 DEF TypeOK, Mask, Ready, Started, Revoked
        <3>3. QED
            BY <3>1, <3>2 DEF EnrollInv, MaskTells
    <2>4. QED
        BY <2>2, <2>3
<1>2. QED
    BY EnrollmentInvariant, <1>1, PTL

\* Occupied legacy rows are never claimed nor written.
THEOREM EnrollmentLegacyUntouched == Spec => LegacyUntouched
<1>1. TypeOK /\ EnrollInv /\ [Next]_vars =>
        [\A s \in Slot : token[s] = "foreign" => token'[s] = "foreign" /\ mask'[s] = "unused"]_vars
    <2> SUFFICES ASSUME TypeOK, EnrollInv, [Next]_vars, NEW s \in Slot, token[s] = "foreign"
                 PROVE  token'[s] = "foreign" /\ mask'[s] = "unused"
        OBVIOUS
    <2>1. mask[s] = "unused"
        BY DEF EnrollInv, MaskTells
    <2>2. FuseStep
        BY StepIsFuseStep
    <2>3. QED
        BY <2>1, <2>2 DEF FuseStep, MaskAfter, IsFirstFree, Free, TypeOK
<1>2. QED
    BY EnrollmentInvariant, <1>1, PTL DEF Spec, LegacyUntouched

\* Rows change only when blank under STARTED, or once REVOKED.
THEOREM EnrollmentRevokeBeforeBurn == Spec => RevokeBeforeBurn
<1>1. TypeOK /\ EnrollInv /\ [Next]_vars =>
        [\A s \in Slot : token'[s] # token[s] =>
            \/ token[s] = "blank" /\ mask[s] = "started"
            \/ mask[s] = "revoked"]_vars
    <2> SUFFICES ASSUME TypeOK, EnrollInv, [Next]_vars, NEW s \in Slot, token'[s] # token[s]
                 PROVE  \/ token[s] = "blank" /\ mask[s] = "started"
                        \/ mask[s] = "revoked"
        OBVIOUS
    <2>1. FuseStep
        BY StepIsFuseStep
    <2>2. QED
        BY <2>1 DEF FuseStep, TypeOK
<1>2. QED
    BY EnrollmentInvariant, <1>1, PTL DEF Spec, RevokeBeforeBurn

\* A journal that records a pending destruction of the READY slot is never
\* written again.
LEMMA PendingStays ==
    ASSUME TypeOK, EnrollInv, [Next]_vars,
           NEW s \in Slot, mask[s] = "ready", journal = RecordOf(s, "DESTROY_PENDING")
    PROVE  journal' = journal
<1> USE DEF EnrollInv, TypeOK, RecordOf
<1>1. \A t \in Slot : mask[t] \in {"started", "revoking", "ready"} => t = s
    BY DEF SlotOrder, Live
<1>2. ~PrepareErase
    BY <1>1 DEF PrepareErase, CallProgress
<1>3. ~PrepareFails
    BY <1>1 DEF PrepareFails, CallProgress
<1>4. ~EraseJournal
    BY <1>1 DEF EraseJournal, CallProgress
<1>5. ~EraseJournalFails
    BY <1>1 DEF EraseJournalFails, CallProgress
<1>6. ~CommitEmpty
    BY <1>1 DEF CommitEmpty, CallProgress
<1>7. ~CommitEmptyFails
    BY <1>1 DEF CommitEmptyFails, CallProgress
<1>8. ~Commit
    BY <1>1 DEF Commit, LoadStatus, JournalLoads, Successors
<1>9. ~CommitFails
    BY <1>1 DEF CommitFails, LoadStatus, JournalLoads, Successors
<1>10. ~RequestDestruction
    BY <1>1 DEF RequestDestruction, LoadStatus, JournalLoads
<1>11. ~RequestDestructionFails
    BY <1>1 DEF RequestDestructionFails, LoadStatus, JournalLoads
<1>12. QED
    BY <1>2, <1>3, <1>4, <1>5, <1>6, <1>7, <1>8, <1>9, <1>10, <1>11
         DEF Next, Provision, Destruction, vars, Open, PowerCut, PrepareBegin,
             ProvisionExisting, ProvisionBegin, SweepRevoking, SweepRevoked, SweepBurn,
             SweepNext, SweepFails, Pick, PickFails, NoFreeSlot, WriteSecret,
             WriteSecretFails, SetReady, SetReadyFails, RecoverDestruction, Revoke,
             RevokeFails, Burn, BurnFails

\* Once durable, a destruction is never undone and the key never released.
THEOREM EnrollmentDestructionIsFinal == Spec => DestructionIsFinal
<1>1. TypeOK /\ EnrollInv /\ [Next]_vars =>
        [\A s \in Slot : Doomed(s) => Doomed(s)' /\ ~Bindable(s)']_vars
    <2> SUFFICES ASSUME TypeOK, EnrollInv, [Next]_vars, NEW s \in Slot, Doomed(s)
                 PROVE  Doomed(s)' /\ ~Bindable(s)'
        OBVIOUS
    <2>1. FuseStep
        BY StepIsFuseStep
    <2>2. Doomed(s)'
        <3>1. CASE mask[s] \in {"revoking", "revoked"}
            BY <2>1, <3>1 DEF FuseStep, MaskAfter, IsFirstFree, Free, Doomed, TypeOK
        <3>2. CASE mask[s] = "ready" /\ journal = RecordOf(s, "DESTROY_PENDING")
            <4>1. mask'[s] \in {"ready", "revoked"}
                BY <2>1, <3>2 DEF FuseStep, MaskAfter, IsFirstFree, Free, TypeOK
            <4>2. QED
                BY <3>2, <4>1, PendingStays DEF Doomed
        <3>3. QED
            BY <3>1, <3>2 DEF Doomed
    <2>3. ~Bindable(s)'
        BY <2>2 DEF Doomed, Bindable, LoadStatus, RecordOf
    <2>4. QED
        BY <2>2, <2>3
<1>2. QED
    BY EnrollmentInvariant, <1>1, PTL DEF Spec, DestructionIsFinal
=============================================================================
