----------------------------- MODULE KeyValues ------------------------------
(***************************************************************************)
(* What a storage provider promises: cells that are written one at a time, *)
(* and that come back as they were last persisted when the process starts  *)
(* again.                                                                  *)
(***************************************************************************)
CONSTANTS Cells, Values, Null

VARIABLES
    value,    \* what a read returns
    durable   \* what a read returns after a restart

Init ==
    /\ value = [c \in Cells |-> Null]
    /\ durable = value

\* A cell is written; it, or anything written before, may be persisted. Of the
\* cells that are not persisted some may be forgotten.
Write(c, v) ==
    /\ value'[c] = v
    /\ \A d \in Cells \ {c} :
           value'[d] = value[d] \/ (value'[d] = Null /\ durable[d] = Null)
    /\ \A d \in Cells : durable'[d] \in {durable[d], value'[d]}

Restart == value' = durable /\ durable' = durable

Next == Restart \/ \E c \in Cells, v \in Values : Write(c, v)

Spec == Init /\ [][Next]_<<value, durable>>
=============================================================================
