---------------------------- MODULE MCAppservice ----------------------------
(***************************************************************************)
(* An appservice for TLC: the handling of its transactions, or one of its   *)
(* parts. What is not chosen stays as it started.                          *)
(***************************************************************************)
EXTENDS Transactions, AppserviceParts

VARIABLE receives  \* TRUE: transactions are handled, FALSE: a part takes steps

\* No part is chosen when transactions are handled; the others have one start.
AppserviceInit ==
    /\ receives \in BOOLEAN
    /\ Init /\ PartsInit
    /\ receives => part = "bridge"

AppserviceNext ==
    \/ receives /\ Next /\ UNCHANGED <<receives, partsVars>>
    \/ ~receives /\ PartsNext /\ UNCHANGED <<receives, vars>>

AppserviceSpec == AppserviceInit /\ [][AppserviceNext]_<<receives, vars, partsVars>>
=============================================================================
