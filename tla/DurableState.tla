---------------------------- MODULE DurableState ----------------------------
(***************************************************************************)
(* What the vault is promised by the store of its trusted state: one       *)
(* durable record that a commit replaces atomically.  A commit that is     *)
(* not acknowledged leaves either the old or the new record, and an        *)
(* interruption that makes the medium undecidable denies every later       *)
(* access; it never brings an older record back.  This is the contract     *)
(* fv_device_authority.load/commit is used under in vault.c, stated        *)
(* without flash pages, banks or markers.                                  *)
(***************************************************************************)
EXTENDS Naturals

CONSTANTS Values,       \* the trusted states a caller may persist
          NoValue,      \* what a store that was never written holds
          MaxSequence   \* UINT64_MAX: the last sequence number

VARIABLES stored,   \* the durable record [seq, val]
          pending,  \* the record a commit in progress is installing, or Nothing
          denied,   \* the medium became undecidable: no access any more
          view,     \* the record the caller last loaded, or Nothing
          result    \* what the last call returned to its caller

dvars == <<stored, pending, denied, view, result>>

Nothing == [seq |-> 0, val |-> NoValue]
Record == [seq : 1 .. MaxSequence, val : Values]

Init ==
    /\ stored = Nothing
    /\ pending = Nothing
    /\ denied = FALSE
    /\ view = Nothing
    /\ result = "none"

\* A load returns the durable record, or an error and nothing at all.
Load ==
    /\ pending = Nothing
    /\ \/ /\ ~denied
          /\ stored # Nothing
          /\ view' = stored
          /\ result' = "ok"
       \/ /\ view' = Nothing
          /\ result' \in {"io", "corrupt", "empty"}
          /\ result' = "empty" => stored = Nothing /\ ~denied
    /\ UNCHANGED <<stored, pending, denied>>

\* A commit is accepted only as the direct successor of the durable record.
Begin(v) ==
    /\ pending = Nothing
    /\ ~denied
    /\ stored.seq < MaxSequence
    /\ pending' = [seq |-> stored.seq + 1, val |-> v]
    /\ UNCHANGED <<stored, denied, view, result>>

Reject ==
    /\ pending = Nothing
    /\ result' = "corrupt"
    /\ UNCHANGED <<stored, pending, denied, view>>

\* Acknowledged ("ok"), or durable although the caller got an error or died.
Install ==
    /\ pending # Nothing
    /\ stored' = pending
    /\ pending' = Nothing
    /\ result' \in {"ok", "io", "lost"}
    /\ view' \in {view, Nothing}
    /\ UNCHANGED denied

\* Not installed: the old record stays, or nothing can be decided any more.
Abandon ==
    /\ pending # Nothing
    /\ pending' = Nothing
    /\ denied' \in BOOLEAN
    /\ result' \in {"io", "lost"}
    /\ view' \in {view, Nothing}
    /\ UNCHANGED stored

PowerCut ==
    /\ pending = Nothing
    /\ view' = Nothing
    /\ result' = "lost"
    /\ UNCHANGED <<stored, pending, denied>>

Next ==
    \/ Load
    \/ \E v \in Values : Begin(v)
    \/ Reject
    \/ Install
    \/ Abandon
    \/ PowerCut

Spec == Init /\ [][Next]_dvars
=============================================================================
