----------------------------- MODULE EventStream -----------------------------
(***************************************************************************)
(* What a sync loop promises the bot that listens to it: the homeserver's   *)
(* events, numbered in stream order, are delivered one at a time, and the   *)
(* client acknowledges a prefix of the stream by persisting a sync token.   *)
(*                                                                         *)
(*  - AckFirst (the default of MatrixClient): the acknowledgement comes     *)
(*    first, so an event is delivered at most once between two resets.      *)
(*  - ~AckFirst (persistTokenAfterSync): only a prefix that was delivered   *)
(*    in full is acknowledged, so nothing is lost; it may be redelivered.   *)
(***************************************************************************)
EXTENDS Integers

CONSTANTS
    MaxPos,     \* length of the homeserver's event stream
    AckFirst    \* whether a prefix is acknowledged before it is delivered

VARIABLES
    delivered,  \* positions delivered (since the last reset, if AckFirst)
    acked       \* the acknowledged prefix is 1..acked

streamVars == <<delivered, acked>>

Init == delivered = {} /\ acked = 0

Deliver(p) ==
    /\ AckFirst => p <= acked /\ p \notin delivered
    /\ delivered' = delivered \cup {p}
    /\ UNCHANGED acked

Ack(n) ==
    /\ IF AckFirst THEN n >= acked ELSE 1..n \subseteq delivered
    /\ acked' = n
    /\ UNCHANGED delivered

\* A changed filter makes the client ask for the stream from its beginning.
Reset ==
    /\ acked' = 0
    /\ delivered' = IF AckFirst THEN {} ELSE delivered

Next ==
    \/ \E p \in 1..MaxPos : Deliver(p)
    \/ \E n \in 0..MaxPos : Ack(n)
    \/ Reset

Spec == Init /\ [][Next]_streamVars
=============================================================================
