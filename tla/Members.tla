------------------------------- MODULE Members ------------------------------
(***************************************************************************)
(* getRoomMembers: one request per membership searched for and per         *)
(* membership not searched for, at one time, put together when all are     *)
(* answered. Memberships change between the answers, unless the caller     *)
(* gave a batch token.                                                     *)
(***************************************************************************)
EXTENDS Naturals, Sequences, Functions

CONSTANTS
    Users,
    Searches,   \* the sequences of memberships to search for, and not to
    Null,       \* an argument that is not given, a request not answered
    MaxChanges  \* bound: changes of memberships

VARIABLES
    membership, \* homeserver: of each user
    changes,    \* bound
    batch,      \* homeserver: the memberships at the caller's batch token
    queries,    \* of the call, in order, or Null
    at,         \* the call has the batch token
    answers,    \* to each query, a set of membership events, or Null
    result,     \* of the call, or Null
    were        \* history: the memberships of each user since the call

memberVars == <<membership, changes, batch, queries, at, answers, result, were>>

Memberships == {"join", "invite", "leave"}

Init ==
    /\ membership \in [Users -> Memberships] /\ batch = membership
    /\ changes = 0
    /\ queries = Null /\ at = FALSE /\ answers = <<>> /\ result = Null
    /\ were = [u \in Users |-> {membership[u]}]

Change(u, m) ==
    /\ changes < MaxChanges
    /\ changes' = changes + 1
    /\ membership' = [membership EXCEPT ![u] = m]
    /\ were' = [were EXCEPT ![u] = @ \cup {m}]
    /\ UNCHANGED <<batch, queries, at, answers, result>>

-----------------------------------------------------------------------------
(* The requests *)

Matches(query, m) == (query.only = Null \/ m = query.only) /\ (query.except = Null \/ m # query.except)

Only(m)   == [only |-> m, except |-> Null]
Except(m) == [only |-> Null, except |-> m]

\* Without arguments, one request for all. An argument that is an empty list is
\* given, and makes none.
QueriesOf(wanted, unwanted) ==
    IF wanted = Null /\ unwanted = Null THEN << [only |-> Null, except |-> Null] >>
    ELSE LET search == IF wanted = Null THEN <<>> ELSE wanted
             skip   == IF unwanted = Null THEN <<>> ELSE unwanted
         IN [i \in 1..(Len(search) + Len(skip)) |->
                IF i <= Len(search) THEN Only(search[i]) ELSE Except(skip[i - Len(search)])]

GetRoomMembers(wanted, unwanted, atToken) ==
    /\ queries = Null
    /\ queries' = QueriesOf(wanted, unwanted)
    /\ at' = atToken
    /\ answers' = [i \in DOMAIN queries' |-> Null]
    /\ were' = [u \in Users |-> {IF atToken THEN batch[u] ELSE membership[u]}]
    /\ UNCHANGED <<membership, changes, batch, result>>

\* The homeserver answers one request, as of the token or of now.
Answer(i) ==
    LET state == IF at THEN batch ELSE membership
    IN /\ answers[i] = Null
       /\ answers' = [answers EXCEPT ![i] =
              {[user |-> u, membership |-> state[u]] : u \in {v \in Users : Matches(queries[i], state[v])}}]
       /\ UNCHANGED <<membership, changes, batch, queries, at, result, were>>

\* Faulty variant: the lists are only joined.
PutTogetherAll(lists) == UNION Range(lists)

\* Of several events of a user, the one of the first list.
PutTogether(lists) ==
    {e \in UNION Range(lists) :
        \E i \in DOMAIN lists :
            /\ e \in lists[i]
            /\ \A j \in 1..(i - 1) : \A f \in lists[j] : f.user # e.user}

Resolve ==
    /\ queries # Null /\ result = Null
    /\ \A i \in DOMAIN answers : answers[i] # Null
    /\ result' = PutTogether(answers)
    /\ UNCHANGED <<membership, changes, batch, queries, at, answers, were>>

\* One request fails: so does the call.
Reject ==
    /\ queries # Null /\ result = Null
    /\ \E i \in DOMAIN answers : answers[i] = Null
    /\ queries' = Null /\ answers' = <<>>
    /\ UNCHANGED <<membership, changes, batch, at, result, were>>

Next ==
    \/ \E u \in Users, m \in Memberships : Change(u, m)
    \/ \E wanted, unwanted \in Searches \cup {Null}, atToken \in BOOLEAN :
           GetRoomMembers(wanted, unwanted, atToken)
    \/ \E i \in DOMAIN answers : Answer(i)
    \/ Resolve \/ Reject

Spec == Init /\ [][Next]_memberVars

-----------------------------------------------------------------------------
(* Properties *)

Asked(m) == \E i \in DOMAIN queries : Matches(queries[i], m)

\* Every user is listed at most once, with a membership asked for that the user
\* had during the call, and nobody whose membership did not change meanwhile is
\* missing. At a batch token the list is exact whatever changes.
MembersAreTrue ==
    result # Null =>
        /\ \A e, f \in result : e.user = f.user => e = f
        /\ \A e \in result : Asked(e.membership)
        /\ \A e \in result : e.membership \in (IF at THEN {batch[e.user]} ELSE were[e.user])
        /\ \A u \in Users :
               LET m == IF at THEN batch[u] ELSE membership[u]
               IN (at \/ were[u] = {m}) /\ Asked(m) => [user |-> u, membership |-> m] \in result

Wanted   == {queries[i].only : i \in DOMAIN queries}
Unwanted == {queries[i].except : i \in DOMAIN queries}

\* What the documentation says of notMembership, the memberships not to search for:
\* nobody is listed with one of them, unless it was searched for as well.
NotSearchedFor ==
    result # Null => \A e \in result : e.membership \in Unwanted => e.membership \in Wanted
=============================================================================
