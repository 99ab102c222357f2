------------------------------ MODULE Autojoin ------------------------------
(***************************************************************************)
(* AutojoinRoomsMixin and AutojoinUpgradedRoomsMixin (src/src/mixins/): a   *)
(* client, or the bot and the users of an appservice, accept invites and   *)
(* follow a room to its replacement. Nobody waits for the listeners the    *)
(* mixins add, nor handles their rejection, at which Node ends the process *)
(* unless the program says otherwise.                                      *)
(***************************************************************************)
EXTENDS Naturals

CONSTANTS
    Bot,            \* of the appservice, or the client's user
    Users,          \* of the appservice
    Stranger,       \* a user of another server
    MaxRemovals     \* bound: of members by others

VARIABLES
    setting,        \* client or appservice; a condition is given
    old, new,       \* homeserver: members of a room and of its replacement
    invited,        \* homeserver: invites to the replacement
    place,          \* of the listener of room.archived
    asked,          \* joins the listeners have asked for, and of which mixin
    rejected,       \* a rejection nobody handles
    removals,       \* bound
    due,            \* history: users the mixins decided to bring in
    refused         \* history: users whose join failed, or who were removed

autojoinVars == <<setting, old, new, invited, place, asked, rejected, removals, due, refused>>

OfClient == setting.side = "client"
Ours     == IF OfClient THEN {Bot} ELSE {Bot} \cup Users
Everyone == {Bot, Stranger} \cup Users

Init ==
    /\ setting \in [side : {"client", "appservice"}, condition : BOOLEAN]
    /\ \E members \in SUBSET Everyone : Bot \in members /\ old = members
    /\ new = {Stranger} /\ invited = {}
    /\ place = "idle" /\ asked = {}
    /\ rejected = FALSE /\ removals = 0 /\ due = {} /\ refused = {}

-----------------------------------------------------------------------------
(* Others *)

LeavesOld(u) ==
    /\ u \in old /\ removals < MaxRemovals
    /\ removals' = removals + 1
    /\ old' = old \ {u}
    /\ UNCHANGED <<setting, new, invited, place, asked, rejected, due, refused>>

LeavesNew(u) ==
    /\ u \in new \cap Ours /\ removals < MaxRemovals
    /\ removals' = removals + 1
    /\ new' = new \ {u}
    /\ refused' = refused \cup {u}
    /\ UNCHANGED <<setting, old, invited, place, asked, rejected, due>>

-----------------------------------------------------------------------------
(* AutojoinUpgradedRoomsMixin *)

\* Faulty variant: the users are asked for with the bot.
ArchivedTogether ==
    /\ place = "idle"
    /\ place' = "over"
    /\ due' = due \cup {Bot} \cup (old \cap Users)
    /\ asked' = asked \cup {<<u, "upgrade">> : u \in {Bot} \cup (old \cap Users)}
    /\ UNCHANGED <<setting, old, new, invited, rejected, removals, refused>>

\* room.archived with a replacement.
Archived ==
    /\ place = "idle"
    /\ place' = "bot"
    /\ due' = due \cup {Bot}
    /\ UNCHANGED <<setting, old, new, invited, asked, rejected, removals, refused>>

\* The bot joins by the server of the sender of the tombstone.
BotJoins ==
    /\ place = "bot"
    /\ new' = new \cup {Bot}
    /\ invited' = invited \ {Bot}
    /\ place' = IF OfClient THEN "over" ELSE "members"
    /\ UNCHANGED <<setting, old, asked, rejected, removals, due, refused>>

\* getJoinedRoomMembers of the archived room, then all its users' joins at once.
Follow ==
    /\ place = "members"
    /\ asked' = asked \cup {<<u, "upgrade">> : u \in old \cap Users}
    /\ due' = due \cup (old \cap Users)
    /\ place' = "over"
    /\ UNCHANGED <<setting, old, new, invited, rejected, removals, refused>>

\* Either request fails, and nobody follows.
ArchivedFails ==
    /\ place \in {"bot", "members"}
    /\ place' = "failed" /\ rejected' = TRUE
    /\ UNCHANGED <<setting, old, new, invited, asked, removals, due, refused>>

-----------------------------------------------------------------------------
(* AutojoinRoomsMixin *)

\* room.invite. The appservice accepts one by its bot whatever the condition.
Invite(u, sender, meets) ==
    /\ u \in Ours \ (new \cup invited) /\ sender # u
    /\ place # "ended"
    /\ invited' = invited \cup {u}
    /\ IF OfClient \/ sender = Bot \/ ~setting.condition \/ meets
       THEN asked' = asked \cup {<<u, "invite">>} /\ due' = due \cup {u}
       ELSE UNCHANGED <<asked, due>>
    /\ UNCHANGED <<setting, old, new, place, rejected, removals, refused>>

-----------------------------------------------------------------------------
(* The joins of both *)

\* Without a server to join by, the homeserver must be in the room, or the user
\* have an invite.
CanJoin(u) == new \cap Ours # {} \/ u \in invited

Join(u, why) ==
    /\ <<u, why>> \in asked /\ CanJoin(u)
    /\ asked' = asked \ {<<u, why>>}
    /\ new' = new \cup {u}
    /\ invited' = invited \ {u}
    /\ UNCHANGED <<setting, old, place, rejected, removals, due, refused>>

\* One that fails leaves the others alone.
JoinFails(u, why) ==
    /\ <<u, why>> \in asked
    /\ asked' = asked \ {<<u, why>>}
    /\ rejected' = TRUE
    /\ refused' = refused \cup {u}
    /\ UNCHANGED <<setting, old, new, invited, place, removals, due>>

\* The process ends at a rejection, and with it joins that were asked for.
Ends ==
    /\ rejected /\ place # "ended"
    /\ place' = "ended"
    /\ asked' \in SUBSET asked
    /\ UNCHANGED <<setting, old, new, invited, rejected, removals, due, refused>>

Next ==
    \/ \E u \in Everyone : LeavesOld(u) \/ LeavesNew(u)
    \/ Archived \/ BotJoins \/ Follow \/ ArchivedFails
    \/ \E u \in Ours, sender \in Everyone, meets \in BOOLEAN : Invite(u, sender, meets)
    \/ \E u \in Ours, why \in {"upgrade", "invite"} : Join(u, why) \/ JoinFails(u, why)
    \/ Ends

Spec == Init /\ [][Next]_autojoinVars

-----------------------------------------------------------------------------
(* Properties *)

\* Only users whom the mixins decided to bring in come in, and with everything
\* settled all of them are, but those whose own join failed or who were removed,
\* as long as the process lives. A user who follows is asked for when somebody
\* of the homeserver is in the room, unless they were removed: no server is
\* named to it.
Followed ==
    /\ new \cap Ours \subseteq due
    /\ asked = {} /\ place \in {"idle", "over"} => due \subseteq new \cup refused
    /\ \A u \in Ours : <<u, "upgrade">> \in asked => CanJoin(u) \/ refused # {}
    /\ refused # {} /\ removals = 0 => rejected
=============================================================================
