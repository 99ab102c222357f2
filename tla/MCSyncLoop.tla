------------------------------ MODULE MCSyncLoop ------------------------------
(***************************************************************************)
(* SyncLoop for TLC, in its two modes side by side: the default one, as the *)
(* constants of SyncLoop have it, and, as After, persistTokenAfterSync with *)
(* overlapping calls of start(). `mode` is chosen at the start, and the     *)
(* client of the other mode is never started.                              *)
(***************************************************************************)
EXTENDS SyncLoop

CONSTANTS AfterSlots, AfterFilters, AfterFaults

VARIABLES
    mode,
    afterHead, afterStored, afterStoredFilter, afterStop, afterFilterId, afterPc,
    afterWant, afterToken, afterAsked, afterCur, afterEmitted, afterSince

After == INSTANCE SyncLoop WITH
    Slots <- AfterSlots, Filters <- AfterFilters, Faults <- AfterFaults,
    PersistAfter <- TRUE,
    head <- afterHead, stored <- afterStored, storedFilter <- afterStoredFilter,
    stopSyncing <- afterStop, filterId <- afterFilterId, pc <- afterPc,
    want <- afterWant, token <- afterToken, asked <- afterAsked, cur <- afterCur,
    emitted <- afterEmitted, since <- afterSince

afterVars == <<afterHead, afterStored, afterStoredFilter, afterStop, afterFilterId,
               afterPc, afterWant, afterToken, afterAsked, afterCur, afterEmitted,
               afterSince>>

ModesInit == mode \in {"before", "after"} /\ Init /\ After!Init

ModesNext ==
    \/ mode = "before" /\ Next /\ UNCHANGED <<mode, afterVars>>
    \/ mode = "after" /\ After!Next /\ UNCHANGED <<mode, vars>>

ModesSpec == ModesInit /\ [][ModesNext]_<<mode, vars, afterVars>> /\ After!Fairness

-----------------------------------------------------------------------------
\* Nothing is acknowledged that was not delivered, in SyncLoop.
AckedIsDeliveredAfter == After!AckedIsDelivered
\* A loop that is told to stop ends, in SyncLoop.
StopEndsAfter == After!StopEnds
\* What happens on the homeserver is delivered in the end, in SyncLoop.
EventuallyDeliveredAfter == After!EventuallyDelivered
=============================================================================
