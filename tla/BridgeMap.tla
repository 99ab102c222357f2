----------------------------- MODULE BridgeMap -----------------------------
(***************************************************************************)
(* MatrixBridge (src/src/appservice/MatrixBridge.ts): what a Matrix user or *)
(* room stands for on the remote network is kept in two account data        *)
(* events, one at the user or room and one, under the remote ID, at the     *)
(* bridge's bot. They are written one after the other. Users and rooms      *)
(* differ only in where the first is.                                       *)
(***************************************************************************)
CONSTANTS
    MatrixIds, RemoteIds,
    Setters,      \* concurrent calls of setRemoteUserInfo or setRemoteRoomInfo
    NoId,
    MapFaults     \* subset of {"register", "write", "lost"}

VARIABLES
    info,      \* account data: the remote ID a user or room stands for
    mapping,   \* account data of the bot: the Matrix ID of a remote ID
    setter,    \* per call: where it is and what it sets
    set,       \* history: the pairs a call was made for
    torn       \* history: the pairs of which only the first write was made

mapVars == <<info, mapping, setter, set, torn>>

Free == [pc |-> "idle", id |-> NoId, remote |-> NoId]

Init ==
    /\ info = [m \in MatrixIds |-> NoId]
    /\ mapping = [r \in RemoteIds |-> NoId]
    /\ setter = [c \in Setters |-> Free]
    /\ set = {} /\ torn = {}

Pair(c) == <<setter[c].id, setter[c].remote>>

GoTo(c, label) == setter' = [setter EXCEPT ![c].pc = label]
End(c) == setter' = [setter EXCEPT ![c] = Free]

SetRemoteInfo(c, m, r) ==
    /\ setter[c].pc = "idle"
    /\ setter' = [setter EXCEPT ![c] = [pc |-> "info", id |-> m, remote |-> r]]
    /\ set' = set \cup {<<m, r>>}
    /\ UNCHANGED <<info, mapping, torn>>

\* setAccountData or setRoomAccountData
WriteInfo(c) ==
    /\ setter[c].pc = "info"
    /\ info' = [info EXCEPT ![setter[c].id] = setter[c].remote]
    /\ torn' = torn \cup {Pair(c)}
    /\ GoTo(c, "mapping")
    /\ UNCHANGED <<mapping, set>>

\* Faulty variant: a user or room that is found under some ID is left alone.
UpdateMappingOnce(c) ==
    /\ setter[c].pc = "mapping"
    /\ mapping' = IF \E r \in RemoteIds : mapping[r] = setter[c].id THEN mapping
                  ELSE [mapping EXCEPT ![setter[c].remote] = setter[c].id]
    /\ torn' = torn \ {Pair(c)}
    /\ End(c)
    /\ UNCHANGED <<info, set>>

\* updateRemoteUserMapping, updateRemoteRoomMapping. The mapping of the remote
\* ID the user or room stood for before is left as it is.
UpdateMapping(c) ==
    /\ setter[c].pc = "mapping"
    /\ mapping' = [mapping EXCEPT ![setter[c].remote] = setter[c].id]
    /\ torn' = torn \ {Pair(c)}
    /\ End(c)
    /\ UNCHANGED <<info, set>>

\* ensureRegistered of the user, or of the bot before the second write, or a
\* write fails, before the homeserver stores it or after. The call rejects.
Fails(c) ==
    /\ MapFaults # {}
    /\ setter[c].pc # "idle"
    /\ \/ UNCHANGED <<info, mapping, torn>>
       \/ /\ "lost" \in MapFaults
          /\ setter[c].pc = "info"
          /\ info' = [info EXCEPT ![setter[c].id] = setter[c].remote]
          /\ torn' = torn \cup {Pair(c)}
          /\ UNCHANGED mapping
    /\ End(c)
    /\ UNCHANGED set

\* getRemoteUserInfo, getRemoteRoomInfo
RemoteInfo(m) == info[m]

\* getIntentForRemote, getMatrixRoomIdForRemote
ForRemote(r) == mapping[r]

Next ==
    \E c \in Setters :
        \/ \E m \in MatrixIds, r \in RemoteIds : SetRemoteInfo(c, m, r)
        \/ WriteInfo(c) \/ UpdateMapping(c) \/ Fails(c)

Spec == Init /\ [][Next]_mapVars

-----------------------------------------------------------------------------
(* Properties *)

\* MatrixBridge is "not intended for bridges which allow 1:many relationships":
\* a remote ID that was set for two.
Rivals(r) == \E m, n \in MatrixIds : m # n /\ <<m, r>> \in set /\ <<n, r>> \in set

\* With no call in flight, a user or room that stands for a remote ID is found
\* under it (getIntentForRemote, getMatrixRoomIdForRemote), whatever calls
\* overlapped and failed, unless the last call for the pair stopped between its
\* writes; a call that is repeated repairs that. What is found under a remote
\* ID was set for it.
MappedBack ==
    /\ (\A c \in Setters : setter[c].pc = "idle") =>
           \A m \in MatrixIds :
               LET r == RemoteInfo(m)
               IN r # NoId /\ ~Rivals(r) => ForRemote(r) = m \/ <<m, r>> \in torn
    /\ \A r \in RemoteIds : ForRemote(r) # NoId => <<ForRemote(r), r>> \in set
=============================================================================
