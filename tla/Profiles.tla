------------------------------ MODULE Profiles ------------------------------
(***************************************************************************)
(* ProfileCache (src/src/helpers/ProfileCache.ts): a user's general profile *)
(* and its profile in a room, fetched when asked for and updated by the     *)
(* membership events of the room. A profile is the number of the change     *)
(* that made it.                                                           *)
(***************************************************************************)
EXTENDS Naturals, Sequences

CONSTANTS
    Fetches,        \* requests for profiles in flight
    Absent, Empty,  \* no entry; the profile after an error
    MaxChanges,     \* bound
    ProfileFaults   \* subset of {"read", "evict"}

VARIABLES
    current,   \* homeserver: the profile, general and in the room
    events,    \* membership events the bot has not seen
    cache,
    fetch,     \* requests: for which entry, and the answer
    overtaken  \* history: entries set by an answer that an event overtook

profileVars == <<current, events, cache, fetch, overtaken>>

Entries  == {"general", "room"}
Profiles == 0..MaxChanges

NoFetch == [pc |-> "idle", entry |-> "general", profile |-> Absent, late |-> FALSE]

Init ==
    /\ current = [e \in Entries |-> 0]
    /\ events = <<>>
    /\ cache = [e \in Entries |-> Absent]
    /\ fetch = [f \in Fetches |-> NoFetch]
    /\ overtaken = {}

\* The user changes its profile, which changes it in the room too, or only
\* the one in the room.
Change(entries) ==
    LET n == current["room"] + 1
    IN /\ n <= MaxChanges
       /\ current' = [e \in Entries |-> IF e \in entries THEN n ELSE current[e]]
       /\ events' = Append(events, n)
       /\ UNCHANGED <<cache, fetch, overtaken>>

-----------------------------------------------------------------------------
Ask(f, e) ==
    fetch' = [fetch EXCEPT ![f] = [NoFetch EXCEPT !.pc = "asked", !.entry = e]]

\* getUserProfile: what is in the cache is returned.
GetUserProfile(f, e) ==
    /\ fetch[f].pc = "idle"
    /\ cache[e] = Absent
    /\ Ask(f, e)
    /\ UNCHANGED <<current, events, cache, overtaken>>

\* getUserProfileWith: the homeserver answers, or the profile is empty.
Answer(f) ==
    /\ fetch[f].pc = "asked"
    /\ \E p \in {current[fetch[f].entry]} \cup (IF "read" \in ProfileFaults THEN {Empty} ELSE {}) :
           fetch' = [fetch EXCEPT ![f].pc = "answered", ![f].profile = p]
    /\ UNCHANGED <<current, events, cache, overtaken>>

\* The answer goes into the cache, whatever is there by now.
Fill(f) ==
    LET e == fetch[f].entry
    IN /\ fetch[f].pc = "answered"
       /\ cache' = [cache EXCEPT ![e] = fetch[f].profile]
       /\ overtaken' = IF fetch[f].late \/ fetch[f].profile = Empty
                       THEN overtaken \cup {e} ELSE overtaken \ {e}
       /\ fetch' = [fetch EXCEPT ![f] = NoFetch]
       /\ UNCHANGED <<current, events>>

\* Answers that are on their way when an event is seen are overtaken by it.
Overtake(fetches) ==
    [f \in Fetches |-> IF fetches[f].pc = "answered"
                       THEN [fetches[f] EXCEPT !.late = TRUE] ELSE fetches[f]]

\* Faulty variant: only the profile in the room is updated.
TryUpdateRoom(f) ==
    /\ events # <<>>
    /\ events' = Tail(events)
    /\ cache' = [cache EXCEPT !["room"] = IF @ = Absent THEN @ ELSE Head(events)]
    /\ overtaken' = overtaken \ {"room"}
    /\ fetch[f].pc = "idle"
    /\ fetch' = Overtake(fetch)
    /\ UNCHANGED current

\* tryUpdateProfile, which watchWithClient or watchWithAppservice call for a
\* membership event and do not wait for: a cached profile of the room is
\* replaced by the event's, a cached general one is asked for again.
TryUpdateProfile(f) ==
    /\ events # <<>>
    /\ events' = Tail(events)
    /\ cache' = [cache EXCEPT !["room"] = IF @ = Absent THEN @ ELSE Head(events)]
    /\ overtaken' = overtaken \ {"room"}
    /\ fetch[f].pc = "idle"
    /\ IF cache["general"] = Absent THEN fetch' = Overtake(fetch)
       ELSE fetch' = [Overtake(fetch) EXCEPT
                         ![f] = [NoFetch EXCEPT !.pc = "asked", !.entry = "general"]]
    /\ UNCHANGED current

\* The LRU drops an entry.
Evict(e) ==
    /\ "evict" \in ProfileFaults
    /\ cache[e] # Absent
    /\ cache' = [cache EXCEPT ![e] = Absent]
    /\ overtaken' = overtaken \ {e}
    /\ UNCHANGED <<current, events, fetch>>

Next ==
    \/ Change(Entries) \/ Change({"room"})
    \/ \E f \in Fetches :
           \/ \E e \in Entries : GetUserProfile(f, e)
           \/ Answer(f) \/ Fill(f) \/ TryUpdateProfile(f)
    \/ \E e \in Entries : Evict(e)

Spec == Init /\ [][Next]_profileVars

-----------------------------------------------------------------------------
(* Properties *)

\* With every event seen and nothing in flight, a cached profile is the
\* current one, unless it was set by an answer that an event overtook, or by a
\* failed request.
CacheIsCurrent ==
    events = <<>> /\ (\A f \in Fetches : fetch[f].pc = "idle") =>
        \A e \in Entries : cache[e] \in {Absent, current[e]} \/ e \in overtaken
=============================================================================
