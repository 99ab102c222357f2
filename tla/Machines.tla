------------------------------ MODULE Machines ------------------------------
(***************************************************************************)
(* What the OlmMachines of an appservice's users hear of a transaction     *)
(* (src/src/appservice/Appservice.ts:700-829): to-device messages, counts   *)
(* of one-time keys and unused fallback keys are gathered by user, in this *)
(* order, and handed to the machines with the changed device lists. What   *)
(* fails ends the process, and the homeserver sends the transaction again  *)
(* to the next one.                                                        *)
(***************************************************************************)
EXTENDS Naturals, Sequences, SequencesExt

CONSTANTS
    Users,
    Nothing,     \* not given
    MaxEdus,     \* bound: messages of the transaction
    MaxFailures  \* bound

VARIABLES
    txn,         \* homeserver: the transaction
    place,       \* of the handler
    edu,         \* messages it has gone through
    left,        \* users left of a loop over users
    byUserId,    \* what was gathered, of the users it has
    enabled,     \* users whose encryption is enabled in this process
    heard,       \* what each machine was handed, in order
    failures     \* bound

machinesVars == <<txn, place, edu, left, byUserId, enabled, heard, failures>>

\* A message is for a machine if it is a to-device message, or encrypted. Counts
\* may be of another device of the user. The types of the unused fallback keys
\* have that of one-time keys among them, or not.
Transactions ==
    [edus : BoundedSeq([to : Users, crypto : BOOLEAN], MaxEdus),
     counts : [Users -> {Nothing, "elsewhere", "counts"}],
     fallbacks : [Users -> {Nothing, "with", "without"}], lists : BOOLEAN]

NoInfo == [toDevice |-> <<>>, counts |-> Nothing, fallbacks |-> Nothing]

Begin ==
    /\ place = "edus" /\ edu = 0 /\ left = {} /\ enabled = {}
    /\ byUserId = [u \in {} |-> NoInfo]

Init ==
    /\ txn \in Transactions
    /\ Begin
    /\ heard = [u \in Users |-> <<>>]
    /\ failures = 0

-----------------------------------------------------------------------------
(* Gathering *)

Info(u) == IF u \in DOMAIN byUserId THEN byUserId[u] ELSE NoInfo

Put(u, info) ==
    byUserId' = [v \in DOMAIN byUserId \cup {u} |-> IF v = u THEN info ELSE byUserId[v]]

\* The users an object of the transaction has.
Keys(object) == {u \in Users : object[u] # Nothing}

\* A loop over users is through, and the next one begins.
Enter(label, users) == place' = label /\ left' = users

\* A message; encryption is enabled for its user.
TakeEdu ==
    /\ place = "edus" /\ edu < Len(txn.edus)
    /\ edu' = edu + 1
    /\ LET next == txn.edus[edu + 1]
       IN IF next.crypto
          THEN /\ enabled' = enabled \cup {next.to}
               /\ Put(next.to, [Info(next.to) EXCEPT !.toDevice = Append(@, edu + 1)])
          ELSE UNCHANGED <<enabled, byUserId>>
    /\ UNCHANGED <<txn, place, left, heard, failures>>

EdusEnd ==
    /\ place = "edus" /\ edu = Len(txn.edus)
    /\ Enter("counts", Keys(txn.counts))
    /\ UNCHANGED <<txn, edu, byUserId, enabled, heard, failures>>

\* Faulty variant: the counts begin the user's entry anew.
TakeCountsAnew(u) ==
    /\ place = "counts" /\ u \in left
    /\ left' = left \ {u} /\ enabled' = enabled \cup {u}
    /\ IF txn.counts[u] = "counts" THEN Put(u, [NoInfo EXCEPT !.counts = "counts"])
       ELSE UNCHANGED byUserId
    /\ UNCHANGED <<txn, place, edu, heard, failures>>

\* The counts of the device the user's machine has.
TakeCounts(u) ==
    /\ place = "counts" /\ u \in left
    /\ left' = left \ {u} /\ enabled' = enabled \cup {u}
    /\ IF txn.counts[u] = "counts" THEN Put(u, [Info(u) EXCEPT !.counts = "counts"])
       ELSE UNCHANGED byUserId
    /\ UNCHANGED <<txn, place, edu, heard, failures>>

CountsEnd ==
    /\ place = "counts" /\ left = {}
    /\ Enter("fallbacks", Keys(txn.fallbacks))
    /\ UNCHANGED <<txn, edu, byUserId, enabled, heard, failures>>

\* A list with the type of one-time keys in it is passed over.
TakeFallbacks(u) ==
    /\ place = "fallbacks" /\ u \in left
    /\ left' = left \ {u} /\ enabled' = enabled \cup {u}
    /\ IF txn.fallbacks[u] = "without" THEN Put(u, [Info(u) EXCEPT !.fallbacks = "without"])
       ELSE UNCHANGED byUserId
    /\ UNCHANGED <<txn, place, edu, heard, failures>>

FallbacksEnd ==
    /\ place = "fallbacks" /\ left = {}
    /\ Enter("update", DOMAIN byUserId)
    /\ UNCHANGED <<txn, edu, byUserId, enabled, heard, failures>>

\* updateSyncData. What the transaction did not give is read from the user's
\* storage, where nothing in the repository writes it.
UpdateSyncData(u) ==
    /\ place = "update" /\ u \in left
    /\ left' = left \ {u}
    /\ heard' = [heard EXCEPT ![u] = Append(@, [info |-> byUserId[u], lists |-> txn.lists])]
    /\ UNCHANGED <<txn, place, edu, byUserId, enabled, failures>>

UpdatesEnd ==
    /\ place = "update" /\ left = {}
    /\ place' = "events"
    /\ UNCHANGED <<txn, edu, left, byUserId, enabled, heard, failures>>

\* enableEncryption, a preprocessor, the storage or a machine rejects.
Fail ==
    /\ place # "events" /\ failures < MaxFailures
    /\ failures' = failures + 1
    /\ place' = "edus" /\ edu' = 0 /\ left' = {} /\ enabled' = {}
    /\ byUserId' = [u \in {} |-> NoInfo]
    /\ UNCHANGED <<txn, heard>>

Next ==
    \/ TakeEdu \/ EdusEnd \/ CountsEnd \/ FallbacksEnd \/ UpdatesEnd \/ Fail
    \/ \E u \in Users : TakeCounts(u) \/ TakeFallbacks(u) \/ UpdateSyncData(u)

Spec == Init /\ [][Next]_machinesVars

-----------------------------------------------------------------------------
(* Properties *)

\* The numbers of the messages to a user's machine among the first n
MessagesTo(u) ==
    LET among[n \in 0..Len(txn.edus)] ==
            IF n = 0 THEN <<>>
            ELSE IF txn.edus[n].to = u /\ txn.edus[n].crypto THEN Append(among[n - 1], n)
            ELSE among[n - 1]
    IN  among

MessagesOf(u) == MessagesTo(u)[Len(txn.edus)]

\* What a transaction says to a user's machine.
Said(u) ==
    [toDevice |-> MessagesOf(u),
     counts |-> IF txn.counts[u] = "counts" THEN "counts" ELSE Nothing,
     fallbacks |-> IF txn.fallbacks[u] = "without" THEN "without" ELSE Nothing]

\* Once the events of a transaction are processed, every machine it says
\* something to has heard all of it at once, its messages in order, with the
\* changed device lists; more than once only after a failure; and no machine
\* heard anything of another. A machine only hears when encryption is enabled.
\* Machines a transaction says nothing to do not hear of changed device lists.
MachinesHear ==
    \A u \in Users :
        /\ \A i \in DOMAIN heard[u] : heard[u][i] = [info |-> Said(u), lists |-> txn.lists]
        /\ place = "events" => (heard[u] # <<>> <=> Said(u) # NoInfo)
        /\ Len(heard[u]) <= 1 + failures
        /\ place = "update" => DOMAIN byUserId \subseteq enabled
=============================================================================
