--------------------------- MODULE JoinStrategies ---------------------------
(***************************************************************************)
(* One MatrixClient.joinRoom, with no join strategy, with                   *)
(* SimpleRetryJoinStrategy or with AppserviceJoinRoomStrategy around either *)
(* (src/src/strategies). Every request may fail, before the homeserver      *)
(* handles it or after: then the answer is lost, and the user is in the     *)
(* room while the strategy goes on as if it were not.                       *)
(***************************************************************************)
EXTENDS Naturals

CONSTANT Schedule  \* the number of delays of SimpleRetryJoinStrategy

VARIABLES
    setting,   \* what is given: strategies, who joins, what the room allows
    step,      \* where the call waits
    attempt,   \* position in the schedule, from 1
    inside, invited,  \* the user's membership
    lost       \* history: an answer to a join was lost

joinVars == <<setting, step, attempt, inside, invited, lost>>

\* asBot: the bridge's bot joins. hasBot: the bot is in the room and may
\* invite. byAlias: the room is given by its alias.
Settings ==
    [appservice : BOOLEAN, retry : BOOLEAN, asBot : BOOLEAN, public : BOOLEAN,
     hasBot : BOOLEAN, byAlias : BOOLEAN]

Init ==
    /\ setting \in Settings
    /\ step = "user" /\ attempt = 1
    /\ inside = FALSE /\ invited \in BOOLEAN /\ lost = FALSE

Reject  == step' = "rejected"
Resolve == step' = "resolved"

\* The user ID is cached, or whoami is asked for it. Then the first attempt is
\* that of the appservice strategy, or of the underlying one.
GetUser ==
    /\ step = "user"
    /\ \/ step' = IF setting.appservice \/ ~setting.retry THEN "first" ELSE "scheduled"
       \/ Reject
    /\ UNCHANGED <<setting, attempt, inside, invited, lost>>

-----------------------------------------------------------------------------
(* SimpleRetryJoinStrategy *)

\* The underlying strategy starts over, from the beginning of its schedule.
Underlying == step' = "scheduled" /\ UNCHANGED attempt

\* Faulty variant: the last delay of the schedule is never used.
ErrorHandlerShort ==
    IF attempt = Schedule - 1 THEN Reject /\ UNCHANGED attempt
                              ELSE step' = "scheduled" /\ attempt' = attempt + 1

\* errorHandler: the next delay, or the error after the last.
ErrorHandler ==
    IF attempt = Schedule THEN Reject /\ UNCHANGED attempt
                          ELSE step' = "scheduled" /\ attempt' = attempt + 1

-----------------------------------------------------------------------------
(* AppserviceJoinRoomStrategy *)

\* The first attempt failed.
FirstFails ==
    IF ~setting.appservice THEN Reject /\ UNCHANGED attempt
    ELSE IF ~setting.asBot THEN step' = "room" /\ UNCHANGED attempt
    ELSE IF setting.retry THEN Underlying
    ELSE Reject /\ UNCHANGED attempt

\* resolveRoom: only an alias needs a request, whose failure is the answer.
ResolveRoom ==
    /\ step = "room"
    /\ \/ step' = "invite"
       \/ setting.byAlias /\ Reject
    /\ UNCHANGED <<setting, attempt, inside, invited, lost>>

\* The bot invites the user, which fails for a user in the room.
InviteUser ==
    /\ step = "invite"
    /\ setting.hasBot /\ ~inside
    /\ invited' = TRUE
    /\ IF setting.retry THEN Underlying ELSE step' = "last" /\ UNCHANGED attempt
    /\ UNCHANGED <<setting, inside, lost>>

\* The underlying strategy is tried after a failed invite too.
InviteFails ==
    /\ step = "invite"
    /\ IF setting.retry THEN Underlying ELSE Reject /\ UNCHANGED attempt
    /\ invited' \in {invited, invited \/ (setting.hasBot /\ ~inside)}
    /\ UNCHANGED <<setting, inside, lost>>

-----------------------------------------------------------------------------
(* apiCall *)

Joins == {"first", "scheduled", "last"}

Failed ==
    CASE step = "first"     -> FirstFails
      [] step = "scheduled" -> ErrorHandler
      [] step = "last"      -> Reject /\ UNCHANGED attempt

Join ==
    /\ step \in Joins
    /\ inside \/ invited \/ setting.public
    /\ inside' = TRUE
    /\ Resolve
    /\ UNCHANGED <<setting, attempt, invited, lost>>

JoinLost ==
    /\ step \in Joins
    /\ inside \/ invited \/ setting.public
    /\ inside' = TRUE
    /\ lost' = TRUE
    /\ Failed
    /\ UNCHANGED <<setting, invited>>

JoinFails ==
    /\ step \in Joins
    /\ Failed
    /\ UNCHANGED <<setting, inside, invited, lost>>

Next ==
    \/ GetUser
    \/ Join \/ JoinLost \/ JoinFails
    \/ ResolveRoom \/ InviteUser \/ InviteFails

Spec == Init /\ [][Next]_joinVars

-----------------------------------------------------------------------------
(* Properties *)

\* What the caller of joinRoom is told is true: the user is in the room when
\* the call resolves, and when it rejects the user is outside, unless an answer
\* to a join was lost. With SimpleRetryJoinStrategy it rejects only after the
\* whole schedule, or before any join of that strategy.
JoinIsTold ==
    /\ step = "resolved" => inside
    /\ step = "rejected" => lost \/ ~inside
    /\ step = "rejected" /\ setting.retry => attempt \in {1, Schedule}
=============================================================================
