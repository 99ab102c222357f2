--------------------------- MODULE IdentityServer ---------------------------
(***************************************************************************)
(* IdentityClient: lookup, in two requests between which the server may    *)
(* change its pepper and its bindings, acceptAllTerms, in two requests     *)
(* between which the terms may change, and makeEmailInvite, which reads    *)
(* the room event by event while the room changes.                         *)
(***************************************************************************)
EXTENDS Naturals, Sequences, FiniteSets

CONSTANTS
    Addresses,   \* addresses in lower case
    Users,
    Values,      \* of state events
    None,
    MaxChanges   \* bound: changes of the server and the room

VARIABLES
    algorithms, pepper, bound, \* server: the hashes it offers, its pepper, the user
                               \* bound to each address
    languages, accepted,       \* server: of its one policy, and the languages of
                               \* which the terms were accepted
    state,                     \* homeserver: the room's state, by field
    changes,                   \* bound
    call,
    knew, had, spoke           \* history: the bindings, the states of the room and
                               \* the languages that there were during the call

serverVars == <<algorithms, pepper, bound, languages, accepted, state, changes, call, knew, had, spoke>>

Algorithms == {"sha256", "none"}
Languages  == {"en", "fr"}
Fields     == <<"alias", "name", "avatar">>
FieldSet   == {"alias", "name", "avatar"}

\* An identifier is an address in the caller's case.
Identifiers == [address : Addresses, upper : BOOLEAN]

NoCall == [pc |-> "idle", asked |-> <<>>, plaintext |-> FALSE, sent |-> <<>>,
           algorithm |-> None, pepper |-> 0, result |-> None, invite |-> <<>>]

Init ==
    /\ algorithms \in SUBSET Algorithms /\ pepper = 0
    /\ bound \in [Addresses -> Users \cup {None}]
    /\ languages \in SUBSET Languages /\ accepted = {}
    /\ \E v \in {None} \cup Values : state = [f \in FieldSet |-> v]
    /\ changes = 0
    /\ call = NoCall
    /\ knew = {bound} /\ had = {state} /\ spoke = {languages}

Change ==
    /\ changes < MaxChanges
    /\ changes' = changes + 1
    /\ \/ pepper' = pepper + 1 /\ UNCHANGED <<bound, languages, state>>
       \/ /\ \E a \in Addresses, u \in Users \cup {None} : bound' = [bound EXCEPT ![a] = u]
          /\ UNCHANGED <<pepper, languages, state>>
       \/ languages' \in SUBSET Languages /\ UNCHANGED <<pepper, bound, state>>
       \/ /\ \E f \in FieldSet, v \in Values : state' = [state EXCEPT ![f] = v]
          /\ UNCHANGED <<pepper, bound, languages>>
    /\ knew' = knew \cup {bound'} /\ had' = had \cup {state'} /\ spoke' = spoke \cup {languages'}
    /\ UNCHANGED <<algorithms, accepted, call>>

Step(new) == call' = new /\ UNCHANGED <<algorithms, pepper, bound, languages, state, changes, knew, had, spoke>>

-----------------------------------------------------------------------------
(* lookup *)

Lookup(identifiers, plaintext) ==
    /\ call.pc = "idle"
    /\ call' = [NoCall EXCEPT !.pc = "details", !.asked = identifiers, !.plaintext = plaintext]
    /\ knew' = {bound}
    /\ UNCHANGED <<algorithms, pepper, bound, languages, accepted, state, changes, had, spoke>>

\* Faulty variant: whatever the server offers.
AlgorithmOffered(offered, plaintext) ==
    IF offered = {} THEN None ELSE CHOOSE a \in offered : TRUE

\* Hashes if the server has them, plaintext only if the caller allows it.
Algorithm(offered, plaintext) ==
    IF "sha256" \in offered THEN "sha256"
    ELSE IF plaintext /\ "none" \in offered THEN "none" ELSE None

\* What is sent for an identifier: lower case, in clear or hashed with the pepper.
Transformed(pid, algorithm, p) ==
    [address |-> pid.address, hashed |-> algorithm = "sha256", pepper |-> IF algorithm = "sha256" THEN p ELSE 0]

HashDetails ==
    LET algorithm == Algorithm(algorithms, call.plaintext)
    IN /\ call.pc = "details"
       /\ Step(IF algorithm = None THEN NoCall
               ELSE [call EXCEPT !.pc = "lookup", !.algorithm = algorithm, !.pepper = pepper,
                       !.sent = [i \in DOMAIN call.asked |-> Transformed(call.asked[i], algorithm, pepper)]])
       /\ UNCHANGED accepted

\* The server refuses an old pepper. It maps the addresses it knows; the results
\* are put in the order of the identifiers, falsey where there is none.
LookupAnswered ==
    /\ call.pc = "lookup"
    /\ Step(IF call.pepper # pepper THEN NoCall
            ELSE [call EXCEPT !.pc = "found",
                    !.result = [i \in DOMAIN call.sent |-> bound[call.sent[i].address]]])
    /\ UNCHANGED accepted

-----------------------------------------------------------------------------
(* acceptAllTerms *)

AcceptAllTerms ==
    /\ call.pc = "idle" /\ accepted = {}
    /\ call' = [NoCall EXCEPT !.pc = "terms"]
    /\ spoke' = {languages}
    /\ UNCHANGED <<algorithms, pepper, bound, languages, accepted, state, changes, knew, had>>

\* English or else the first other language; a policy without any is skipped.
TermsRead ==
    /\ call.pc = "terms"
    /\ \E lang \in IF "en" \in languages THEN {"en"} ELSE languages \cup {None} :
           /\ lang = None => languages = {}
           /\ Step([call EXCEPT !.pc = "accept", !.result = {lang} \ {None}])
    /\ UNCHANGED accepted

TermsAccepted ==
    /\ call.pc = "accept"
    /\ accepted' = call.result
    /\ Step(NoCall)

-----------------------------------------------------------------------------
(* makeEmailInvite *)

MakeEmailInvite ==
    /\ call.pc = "idle"
    /\ call' = [NoCall EXCEPT !.pc = "invite"]
    /\ had' = {state}
    /\ UNCHANGED <<algorithms, pepper, bound, languages, accepted, state, changes, knew, spoke>>

\* tryFetch of the next event: its value, or nothing if there is none or the
\* request fails.
TryFetch ==
    /\ call.pc = "invite" /\ Len(call.invite) < Len(Fields)
    /\ \E v \in {state[Fields[Len(call.invite) + 1]], None} :
           Step([call EXCEPT !.invite = Append(@, v)])
    /\ UNCHANGED accepted

\* What is sent for the room's name.
RoomName(alias, name) == IF name # None THEN name ELSE alias

StoreInvite ==
    /\ call.pc = "invite" /\ Len(call.invite) = Len(Fields)
    /\ Step([call EXCEPT !.pc = "stored",
               !.result = [alias |-> call.invite[1], avatar |-> call.invite[3],
                           name |-> RoomName(call.invite[1], call.invite[2])]])
    /\ UNCHANGED accepted

End ==
    /\ call.pc \in {"found", "stored"}
    /\ Step(NoCall) /\ UNCHANGED accepted

\* Another request than tryFetch fails, and with it the call.
RequestFails ==
    /\ call.pc \in {"details", "lookup", "terms", "accept"}
    /\ Step(NoCall) /\ UNCHANGED accepted

Next ==
    \/ Change
    \/ \E i, j \in Identifiers, plaintext \in BOOLEAN : Lookup(<<i, j>>, plaintext)
    \/ HashDetails \/ LookupAnswered
    \/ AcceptAllTerms \/ TermsRead \/ TermsAccepted
    \/ MakeEmailInvite \/ TryFetch \/ StoreInvite
    \/ End \/ RequestFails

Spec == Init /\ [][Next]_serverVars

-----------------------------------------------------------------------------
(* Properties *)

\* Results are in the order of the identifiers, whatever their case, and all of
\* one moment of the call.
LookupInOrder ==
    call.pc = "found" =>
        \E b \in knew : \A i \in DOMAIN call.asked : call.result[i] = b[call.asked[i].address]

\* Addresses leave the program in clear only if the caller allowed it and the
\* server has no hashes.
ClearOnlyIfAllowed ==
    \A i \in DOMAIN call.sent :
        call.sent[i].hashed \/ (call.plaintext /\ "sha256" \notin algorithms)

\* An invite has nothing that the room did not have during the call, and a name
\* if it has an alias.
InviteIsOfRoom ==
    call.pc = "stored" =>
        /\ call.result.alias \in {s["alias"] : s \in had} \cup {None}
        /\ call.result.avatar \in {s["avatar"] : s \in had} \cup {None}
        /\ call.result.name \in (UNION {{s["name"], s["alias"]} : s \in had}) \cup {None}
        /\ call.result.alias # None => call.result.name # None

\* The terms accepted are some the server offered during the call, English ones if
\* it had them throughout.
TermsAreOffered ==
    call.pc = "accept" =>
        /\ call.result \subseteq UNION spoke
        /\ (\A l \in spoke : "en" \in l) => call.result = {"en"}
        /\ call.result = {} => {} \in spoke

\* What the identity server is told, and what it tells.
IdentityHolds == LookupInOrder /\ ClearOnlyIfAllowed /\ InviteIsOfRoom /\ TermsAreOffered
=============================================================================
