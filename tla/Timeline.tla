------------------------------ MODULE Timeline ------------------------------
(***************************************************************************)
(* What a bot is told of one event of a room: the end of                   *)
(* MatrixClient.processSync (src/src/MatrixClient.ts:872) and of            *)
(* Appservice.onTransaction (src/src/appservice/Appservice.ts:831).         *)
(* Both preprocess the event, decrypt it if they can, and tell listeners.  *)
(* A listener or preprocessor that throws ends the batch or transaction,   *)
(* but for room.decrypted_event, which is told inside a try.               *)
(***************************************************************************)
EXTENDS Naturals, Sequences, FiniteSets

CONSTANTS
    Bot, User, Nobody   \* whose keys decrypt an event

VARIABLES
    setting,    \* of the client or appservice, the room and the event
    form,       \* type of the event in hand: encrypted, or what it is
    passes,     \* times the preprocessors have seen the object in hand
    place,      \* in the code
    told,       \* names of the emissions with the form told, in order
    mishap      \* history: a listener or preprocessor threw

timelineVars == <<setting, form, passes, place, told, mishap>>

Membership == [join |-> "room.join", leave |-> "room.leave", invite |-> "room.invite"]
Notices    == [message |-> "room.message", tombstone |-> "room.archived", create |-> "room.upgraded"]
Types      == DOMAIN Membership \cup DOMAIN Notices \cup {"other"}

\* crypto: a crypto store is configured; encrypted: as the client's store knows
\* the room; inner: what is in an encrypted event; own: a membership event of
\* the client's user, or of one of the appservice; listed: in
\* lastJoinedRoomIds; tried: the first user of the appservice among the members
\* of the room, which may be its bot.
Settings ==
    [side : {"client", "appservice"}, crypto : BOOLEAN, encrypted : BOOLEAN,
     inner : {"message", "other"}, own : BOOLEAN, listed : BOOLEAN,
     holders : SUBSET {Bot, User}, tried : {Bot, User, Nobody}]

OfClient == setting.side = "client"

Init ==
    /\ setting \in {s \in Settings : s.side = "client" => s.tried = Nobody}
    /\ form \in Types \cup {"encrypted"}
    /\ passes = 0 /\ told = <<>> /\ mishap = FALSE
    /\ place = "begin"

-----------------------------------------------------------------------------
(* Emissions *)

Told(name) == Cardinality({i \in DOMAIN told : told[i].name = name})

\* Listeners are told; if one throws, nothing else is.
Tell(name, next) ==
    /\ told' = Append(told, [name |-> name, form |-> form])
    /\ place' \in {next, "thrown"}
    /\ mishap' = (mishap \/ place' = "thrown")

\* The names an event is told under once it is what it is, in their order.
Names ==
    LET notice == IF form \in DOMAIN Notices THEN <<Notices[form]>> ELSE <<>>
        member == IF form \in DOMAIN Membership /\ setting.own THEN <<Membership[form]>> ELSE <<>>
    IN IF OfClient THEN notice \o <<"room.event">>
       ELSE <<"room.event">> \o notice \o member

-----------------------------------------------------------------------------
(* Steps *)

\* Only the client announces its joins here, and preprocesses the event for it.
Announces == OfClient /\ form = "join" /\ setting.own /\ ~setting.listed

Announce ==
    /\ place = "begin" /\ Announces
    /\ passes' = passes + 1
    /\ Tell("room.join", "announced")
    /\ UNCHANGED <<setting, form>>

\* The client looks at events of rooms it knows to be encrypted.
Looks == form = "encrypted" /\ (OfClient => setting.crypto /\ setting.encrypted)

ProcessEvent ==
    /\ place = IF Announces THEN "announced" ELSE "begin"
    /\ passes' = passes + 1
    /\ place' = IF Looks THEN "look" ELSE "rest"
    /\ UNCHANGED <<setting, form, told, mishap>>

\* A preprocessor throws, or crypto is not ready.
ProcessFails ==
    /\ place \in {"begin", "announced"}
    /\ place' = "thrown" /\ mishap' = TRUE
    /\ UNCHANGED <<setting, form, passes, told>>

TellEncrypted ==
    /\ place = "look"
    /\ Tell("room.encrypted_event", IF setting.crypto THEN "first" ELSE "rest")
    /\ UNCHANGED <<setting, form, passes>>

\* Whose crypto is asked: the client's own or the bot's, then that of a user.
Decryptor == IF place = "first" THEN Bot ELSE setting.tried

\* Where an attempt that throws leads.
Catch == IF place = "second" \/ OfClient \/ setting.tried = Nobody THEN "failed" ELSE "second"

\* decryptRoomEvent makes a new event, which is preprocessed and told.
Decrypt ==
    /\ place \in {"first", "second"} /\ Decryptor \in setting.holders
    /\ form' = setting.inner
    /\ passes' = 1
    /\ told' = Append(told, [name |-> "room.decrypted_event", form |-> form'])
    /\ place' = "rest"
    /\ UNCHANGED <<setting, mishap>>

DecryptFails ==
    /\ place \in {"first", "second"} /\ Decryptor \notin setting.holders
    /\ place' = Catch
    /\ UNCHANGED <<setting, form, passes, told, mishap>>

\* The event was decrypted and a preprocessor, or a listener, throws: caught as
\* if it had not been.
DecryptedThrows ==
    /\ place \in {"first", "second"} /\ Decryptor \in setting.holders
    /\ form' = setting.inner
    /\ passes' = 1
    /\ told' \in {told, Append(told, [name |-> "room.decrypted_event", form |-> form'])}
    /\ place' = Catch
    /\ mishap' = TRUE
    /\ UNCHANGED setting

TellFailed ==
    /\ place = "failed"
    /\ Tell("room.failed_decryption", "rest")
    /\ UNCHANGED <<setting, form, passes>>

\* The appservice reads a user's rooms before it tells of its membership, which
\* may throw too.
TellRest ==
    /\ place = "rest"
    /\ \E i \in DOMAIN Names :
           /\ \A j \in DOMAIN Names : j < i <=> Told(Names[j]) > 0
           /\ Tell(Names[i], IF i = Len(Names) THEN "over" ELSE "rest")
    /\ UNCHANGED <<setting, form, passes>>

RestFails ==
    /\ place = "rest" /\ ~OfClient /\ form \in DOMAIN Membership /\ setting.own
    /\ Told("room.event") = 1
    /\ place' = "thrown" /\ mishap' = TRUE
    /\ UNCHANGED <<setting, form, passes, told>>

Next ==
    \/ Announce \/ ProcessEvent \/ ProcessFails
    \/ TellEncrypted \/ Decrypt \/ DecryptFails \/ DecryptedThrows \/ TellFailed
    \/ TellRest \/ RestFails

Spec == Init /\ [][Next]_timelineVars

-----------------------------------------------------------------------------
(* Properties *)

Decryptable == {Bot, setting.tried} \cap setting.holders # {}

\* Nobody is told the encrypted form of an event after its clear one. A listener
\* of room.event hears of every event, once, in its final form, and so does the
\* one of its type; an event is preprocessed once, one that announces a join
\* twice. An encrypted event is told to be decrypted, or to be undecryptable,
\* once and rightly, unless a listener or a preprocessor of the clear event
\* threw: then it may be told as both, or decrypted a second time.
EventsAreTold ==
    /\ \A i, j \in DOMAIN told :
           i < j /\ told[i].name = "room.decrypted_event" => told[j].form = setting.inner
    /\ place = "over" =>
           /\ Told("room.event") = 1
           /\ told[Len(told)].form = form
           /\ \A type \in DOMAIN Notices : Told(Notices[type]) = (IF form = type THEN 1 ELSE 0)
           /\ passes = (IF Announces THEN 2 ELSE 1)
           /\ ~mishap /\ Told("room.encrypted_event") = 1 /\ setting.crypto =>
                  /\ Told("room.decrypted_event") = (IF Decryptable THEN 1 ELSE 0)
                  /\ Told("room.failed_decryption") = (IF Decryptable THEN 0 ELSE 1)
    /\ Told("room.failed_decryption") > 0 /\ Told("room.decrypted_event") > 0 => mishap
    /\ Told("room.decrypted_event") <= (IF OfClient THEN 1 ELSE 2)
=============================================================================
