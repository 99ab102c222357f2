------------------------------- MODULE Spaces -------------------------------
(***************************************************************************)
(* Spaces: creating a child space, which takes two requests, adding,       *)
(* removing and listing children of one space, by several calls at once.   *)
(* Requests fail before or after the homeserver acts on them.              *)
(***************************************************************************)
EXTENDS Naturals, FiniteSets

CONSTANTS
    Rooms,      \* room IDs
    Calls,
    None,
    MaxFailures \* bound: requests that fail

VARIABLES
    spaces,    \* homeserver: the rooms that were created as spaces
    child,     \* homeserver: m.space.child of the space for each room: None (never
               \* set), "empty" (without via) or the order it has
    failures,  \* bound
    call,
    added,     \* history: the rooms last added rather than removed
    orphaned   \* history: spaces whose creation was heard of, or whose child event
               \* was sent, by no call: a request failed or the order was refused

spaceVars == <<spaces, child, failures, call, added, orphaned>>

\* The order of a child: none, a valid one, and one that is too long or of other
\* characters.
Orders == {"none", "valid", "invalid"}
IsChild(content) == content \notin {None, "empty"}

NoCall == [pc |-> "idle", room |-> None, order |-> "none"]

Init ==
    /\ spaces = {}
    /\ child = [r \in Rooms |-> None]
    /\ failures = 0
    /\ call = [c \in Calls |-> NoCall]
    /\ added = {} /\ orphaned = {}

-----------------------------------------------------------------------------
(* createChildSpace, addChildRoom *)

CreateChildSpace(c, order) ==
    /\ call[c].pc = "idle"
    /\ call' = [call EXCEPT ![c] = [NoCall EXCEPT !.pc = "create", !.order = order]]
    /\ UNCHANGED <<spaces, child, failures, added, orphaned>>

\* createSpace: the homeserver makes the room and answers with its ID.
CreateSpace(c, r) ==
    /\ call[c].pc = "create"
    /\ r \notin spaces /\ child[r] = None
    /\ spaces' = spaces \cup {r}
    /\ call' = [call EXCEPT ![c].pc = "add", ![c].room = r]
    /\ UNCHANGED <<child, failures, added, orphaned>>

AddChildRoom(c, r, order) ==
    /\ call[c].pc = "idle"
    /\ call' = [call EXCEPT ![c] = [NoCall EXCEPT !.pc = "add", !.room = r, !.order = order]]
    /\ UNCHANGED <<spaces, child, failures, added, orphaned>>

\* Faulty variant: the order is not validated.
AcceptsAny(order) == TRUE

Accepts(order) == order # "invalid"

\* The order is validated before anything is sent.
SendChild(c) ==
    /\ call[c].pc = "add"
    /\ IF Accepts(call[c].order)
       THEN /\ child' = [child EXCEPT ![call[c].room] = call[c].order]
            /\ call' = [call EXCEPT ![c].pc = "done"]
            /\ added' = added \cup {call[c].room}
            /\ UNCHANGED orphaned
       ELSE /\ call' = [call EXCEPT ![c].pc = "failed"]
            /\ orphaned' = orphaned \cup {call[c].room}
            /\ UNCHANGED <<child, added>>
    /\ UNCHANGED <<spaces, failures>>

\* The content of a removed child: no via.
Removed(content) == "empty"

RemoveChildRoom(c, r) ==
    /\ call[c].pc = "idle"
    /\ child' = [child EXCEPT ![r] = Removed(@)]
    /\ call' = [call EXCEPT ![c] = [NoCall EXCEPT !.pc = "done", !.room = r]]
    /\ added' = added \ {r}
    /\ UNCHANGED <<spaces, failures, orphaned>>

\* What getChildEntities lists: the children with a via.
ChildEntities == {r \in Rooms : IsChild(child[r])}

\* A request fails; the homeserver may have acted on it.
RequestFails(c) ==
    /\ failures < MaxFailures
    /\ failures' = failures + 1
    /\ call[c].pc = "create" \/ (call[c].pc = "add" /\ Accepts(call[c].order))
    /\ \/ /\ orphaned' = orphaned \cup {call[c].room}
          /\ UNCHANGED <<spaces, child, added>>
       \/ /\ call[c].pc = "create" /\ UNCHANGED <<child, added>>
          /\ \E r \in Rooms \ spaces :
                 /\ child[r] = None /\ spaces' = spaces \cup {r}
                 /\ orphaned' = orphaned \cup {r}
       \/ /\ call[c].pc = "add" /\ UNCHANGED <<spaces, orphaned>>
          /\ child' = [child EXCEPT ![call[c].room] = call[c].order]
          /\ added' = added \cup {call[c].room}
    /\ call' = [call EXCEPT ![c].pc = "failed"]

End(c) ==
    /\ call[c].pc \in {"done", "failed"}
    /\ call' = [call EXCEPT ![c] = NoCall]
    /\ UNCHANGED <<spaces, child, failures, added, orphaned>>

Next ==
    \E c \in Calls :
        \/ \E order \in Orders : CreateChildSpace(c, order)
        \/ \E r \in Rooms :
               \/ CreateSpace(c, r) \/ RemoveChildRoom(c, r)
               \/ \E order \in Orders : AddChildRoom(c, r, order)
        \/ SendChild(c) \/ RequestFails(c) \/ End(c)

Spec == Init /\ [][Next]_spaceVars

-----------------------------------------------------------------------------
(* Properties *)

\* A space that createChildSpace made is a child of the space, is about to be,
\* or was removed, unless a request failed or its order was refused, which is
\* found out only after the space exists. No child has an order that is invalid, and
\* the rooms listed are those last added rather than removed.
ChildrenHold ==
    /\ \A r \in spaces \ orphaned :
           child[r] # None \/ \E c \in Calls : call[c].pc = "add" /\ call[c].room = r
    /\ \A r \in Rooms : child[r] # "invalid"
    /\ ChildEntities = added
=============================================================================
