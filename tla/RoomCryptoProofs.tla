-------------------------- MODULE RoomCryptoProofs --------------------------
(***************************************************************************)
(* Theorems about RoomCrypto, for any number of calls alive at once, any    *)
(* visibilities, any bounded number of state events and any faults.        *)
(***************************************************************************)
EXTENDS RoomCrypto, SequenceTheorems, TLAPS

-----------------------------------------------------------------------------
(* The inductive invariant *)

\* Where a call waits says what it is for. Only prepare() prepares, once.
PlaceInv ==
    /\ \A c \in Calls :
          /\ pc[c] = "idle" => goal[c] = "event" /\ marks[c] = {}
          /\ pc[c] \in ConfigPcs => goal[c] \in ConfigGoals
          /\ goal[c] = "prepare" => pc[c] \in CheckPcs
          /\ pc[c] = "clear" => goal[c] = "send"
          /\ pc[c] \in {"cipher", "refused"} => goal[c] \in ConfigGoals
    /\ \A c, d \in Calls : goal[c] = "prepare" /\ goal[d] = "prepare" => c = d

\* What the store has, or is about to get, was read after encryption was set.
StoreInv ==
    /\ encrypted => visibility \in encryptedWith
    /\ store # None => encrypted /\ store \in encryptedWith \cup {Unknown}
    /\ \A c \in Calls :
          /\ pc[c] = "visibility" => encrypted
          /\ pc[c] = "store" =>
                encrypted /\ found[c] \in encryptedWith \cup {Unknown}

\* What a call knows of the room stays true, and it acts on nothing else.
CallInv ==
    \A c \in Calls :
        /\ "known" \in marks[c] => store # None
        /\ "encrypted" \in marks[c] => encrypted
        /\ goal[c] \in {"encrypt", "share"} => store # None
        /\ pc[c] = "clear" => "known" \notin marks[c]
        /\ pc[c] # "refused"
        /\ (pc[c] = "clear" \/ (pc[c] = "reread" /\ store = None)) =>
               ("encrypted" \in marks[c] => "failed" \in marks[c])

\* As long as the store does not know of the encryption, a check that will find
\* out is on its way.
ToldOfEncryption == \E i \in 1..Len(unseen) : unseen[i] = "encryption"

NoticeInv ==
    (phase # "off" /\ encrypted /\ ~missed /\ store = None) =>
        \/ ToldOfEncryption
        \/ \E c \in Calls : pc[c] \in CheckPcs

IInv == TypeOK /\ PlaceInv /\ StoreInv /\ CallInv /\ NoticeInv

-----------------------------------------------------------------------------
(* What a step does to the call that takes it, and to the others *)

\* The local state of every call but c is left alone.
Domains ==
    /\ pc' = [d \in Calls |-> pc'[d]] /\ goal' = [d \in Calls |-> goal'[d]]
    /\ found' = [d \in Calls |-> found'[d]] /\ marks' = [d \in Calls |-> marks'[d]]

Others(c) ==
    /\ \A d \in Calls \ {c} :
          pc'[d] = pc[d] /\ goal'[d] = goal[d] /\ found'[d] = found[d] /\ marks'[d] = marks[d]
    /\ Domains


\* The call is over.
Ended(c) ==
    /\ pc'[c] = "idle" /\ goal'[c] = "event" /\ found'[c] = Unknown /\ marks'[c] = {}
    /\ phase' = IF goal[c] = "prepare" THEN "on" ELSE phase

\* The call goes on.
WentOn(c, why, label, marksNow) ==
    /\ pc'[c] = label /\ goal'[c] = why /\ found'[c] = found[c] /\ marks'[c] = marksNow
    /\ phase' = phase

\* The check of a call is over.
Checked(c, marksNow) ==
    \/ goal[c] \in {"prepare", "event"} /\ Ended(c)
    \/ goal[c] = "join" /\ WentOn(c, "track", "config", marksNow)
    \/ goal[c] \in ConfigGoals /\ WentOn(c, goal[c], "reread", marksNow)

\* A call used the config it read.
Used(c, config) ==
    \/ goal[c] = "track" /\ Ended(c)
    \/ goal[c] = "send" /\ config = None /\ WentOn(c, "send", "clear", marks[c])
    \/ goal[c] = "send" /\ config # None /\ WentOn(c, "encrypt", "config", marks[c])
    \/ goal[c] = "encrypt" /\ config = None /\ WentOn(c, "encrypt", "refused", marks[c])
    \/ goal[c] = "encrypt" /\ config # None /\ WentOn(c, "share", "config", marks[c])
    \/ goal[c] = "share" /\ WentOn(c, "share", "cipher", marks[c])

LEMMA EndEffect ==
    ASSUME TypeOK, NEW c \in Calls, End(c)
    PROVE  Others(c) /\ Ended(c)
BY DEF End, TypeOK, Others, Domains, Ended

LEMMA GoOnEffect ==
    ASSUME TypeOK, NEW c \in Calls, NEW why, NEW label, GoOn(c, why, label),
           NEW marksNow, marks' = [marks EXCEPT ![c] = marksNow]
    PROVE  Others(c) /\ WentOn(c, why, label, marksNow)
BY DEF GoOn, TypeOK, Others, Domains, WentOn

LEMMA CheckDoneEffect ==
    ASSUME TypeOK, NEW c \in Calls, NEW marksNow, CheckDone(c, marksNow)
    PROVE  Others(c) /\ Checked(c, marksNow)
<1> USE DEF Checked
<1>1. CASE goal[c] \in {"prepare", "event"}
  BY <1>1, EndEffect DEF CheckDone
<1>2. CASE goal[c] = "join"
  BY <1>2, GoOnEffect DEF CheckDone
<1>3. CASE goal[c] \in ConfigGoals
  <2>1. GoOn(c, goal[c], "reread") /\ marks' = [marks EXCEPT ![c] = marksNow]
    BY <1>3 DEF CheckDone, GoTo, ConfigGoals
  <2>. QED
    BY <1>3, <2>1, GoOnEffect
<1>. QED
  BY <1>1, <1>2, <1>3 DEF TypeOK, CheckGoals

LEMMA UnchangedMarks ==
    ASSUME TypeOK, NEW c \in Calls, UNCHANGED marks
    PROVE  marks' = [marks EXCEPT ![c] = marks[c]]
BY DEF TypeOK

LEMMA UseEffect ==
    ASSUME TypeOK, NEW c \in Calls, NEW config, Use(c, config)
    PROVE  Others(c) /\ Used(c, config)
<1> USE DEF Used
<1>1. CASE goal[c] = "track" /\ End(c)
  BY <1>1, EndEffect
<1>2. CASE UNCHANGED marks
  <2>1. marks' = [marks EXCEPT ![c] = marks[c]]
    BY <1>2, UnchangedMarks
  <2>2. CASE goal[c] = "send" /\ config = None /\ GoOn(c, "send", "clear")
    BY <2>1, <2>2, GoOnEffect
  <2>3. CASE goal[c] = "send" /\ config # None /\ GoOn(c, "encrypt", "config")
    BY <2>1, <2>3, GoOnEffect
  <2>4. CASE goal[c] = "encrypt" /\ config = None /\ GoOn(c, "encrypt", "refused")
    BY <2>1, <2>4, GoOnEffect
  <2>5. CASE goal[c] = "encrypt" /\ config # None /\ GoOn(c, "share", "config")
    BY <2>1, <2>5, GoOnEffect
  <2>6. CASE goal[c] = "share" /\ GoOn(c, "share", "cipher")
    BY <2>1, <2>6, GoOnEffect
  <2>7. CASE goal[c] = "track" /\ End(c)
    BY <2>7, EndEffect
  <2>. QED
    BY <1>2, <2>2, <2>3, <2>4, <2>5, <2>6, <2>7 DEF Use, GoTo
<1>. QED
  BY <1>1, <1>2 DEF Use

\* Beginning a call is a step of that call alone, for any change of its marks.
LEMMA BeginEffect ==
    ASSUME TypeOK, NEW c \in Calls, NEW why, NEW label, Begin(c, why, label),
           NEW marksNow, marks' = [marks EXCEPT ![c] = marksNow]
    PROVE  /\ Others(c) /\ pc[c] = "idle"
           /\ pc'[c] = label /\ goal'[c] = why /\ found'[c] = found[c]
           /\ marks'[c] = marksNow
BY DEF Begin, TypeOK, Others, Domains

-----------------------------------------------------------------------------
(* The steps of a call, one lemma for each *)

Globals ==
    <<encrypted, visibility, changes, unseen, store, encryptedWith, missed>>

LEMMA LookEffect ==
    ASSUME TypeOK, NEW c \in Calls, Look(c)
    PROVE  /\ Others(c) /\ pc[c] = "look" /\ UNCHANGED Globals
           /\ \/ store = None /\ WentOn(c, goal[c], "algorithm", marks[c])
              \/ store # None /\ Checked(c, marks[c])
<1>1. CASE store = None
  <2>1. GoOn(c, goal[c], "algorithm") /\ marks' = [marks EXCEPT ![c] = marks[c]]
    BY <1>1, UnchangedMarks DEF Look, GoTo
  <2>. QED
    BY <1>1, <2>1, GoOnEffect DEF Look, Globals, room, history
<1>2. CASE store # None
  BY <1>2, CheckDoneEffect DEF Look, Globals, room, history
<1>. QED
  BY <1>1, <1>2

LEMMA AlgorithmEffect ==
    ASSUME TypeOK, NEW c \in Calls, Algorithm(c)
    PROVE  /\ Others(c) /\ pc[c] = "algorithm" /\ UNCHANGED Globals
           /\ \/ encrypted /\ WentOn(c, goal[c], "visibility", marks[c])
              \/ ~encrypted /\ Checked(c, marks[c])
<1>1. CASE encrypted
  <2>1. GoOn(c, goal[c], "visibility") /\ marks' = [marks EXCEPT ![c] = marks[c]]
    BY <1>1, UnchangedMarks DEF Algorithm, GoTo
  <2>. QED
    BY <1>1, <2>1, GoOnEffect DEF Algorithm, Globals, room, history
<1>2. CASE ~encrypted
  BY <1>2, CheckDoneEffect DEF Algorithm, Globals, room, history
<1>. QED
  BY <1>1, <1>2

LEMMA AlgorithmFailsEffect ==
    ASSUME TypeOK, NEW c \in Calls, AlgorithmFails(c)
    PROVE  /\ Others(c) /\ pc[c] = "algorithm"
           /\ Checked(c, marks[c] \cup {"failed"})
           /\ UNCHANGED <<encrypted, visibility, changes, unseen, store, encryptedWith>> /\ missed' = TRUE
BY CheckDoneEffect DEF AlgorithmFails, room

LEMMA VisibilityEffect ==
    ASSUME TypeOK, NEW c \in Calls, Visibility(c)
    PROVE  /\ Others(c) /\ pc[c] = "visibility" /\ UNCHANGED Globals
           /\ pc'[c] = "store" /\ found'[c] \in {visibility, Unknown}
           /\ goal'[c] = goal[c] /\ marks'[c] = marks[c] /\ phase' = phase
BY DEF Visibility, TypeOK, Others, Domains, Globals, room, history

LEMMA StoreRoomEffect ==
    ASSUME TypeOK, NEW c \in Calls, StoreRoom(c)
    PROVE  /\ Others(c) /\ pc[c] = "store" /\ Checked(c, marks[c])
           /\ store' = found[c] /\ UNCHANGED <<encrypted, visibility, changes, unseen, encryptedWith, missed>>
BY CheckDoneEffect DEF StoreRoom, room, history

LEMMA PrepareEffect ==
    ASSUME TypeOK, NEW c \in Calls, Prepare(c)
    PROVE  /\ Others(c) /\ pc[c] = "idle" /\ phase = "off" /\ phase' = "preparing"
           /\ pc'[c] = "look" /\ goal'[c] = "prepare"
           /\ found'[c] = found[c] /\ marks'[c] = marks[c]
           /\ UNCHANGED <<encrypted, visibility, changes, unseen, store, encryptedWith>> /\ missed' = FALSE
<1>1. Begin(c, "prepare", "look") /\ marks' = [marks EXCEPT ![c] = marks[c]]
  BY UnchangedMarks DEF Prepare
<1>. QED
  BY <1>1, BeginEffect DEF Prepare, room

LEMMA SeeEffect ==
    ASSUME TypeOK, NEW c \in Calls, See(c)
    PROVE  /\ Others(c) /\ pc[c] = "idle" /\ phase = "on" /\ phase' = phase
           /\ pc'[c] = "look" /\ goal'[c] \in {"join", "event"}
           /\ found'[c] = found[c] /\ marks'[c] = marks[c]
           /\ UNCHANGED <<encrypted, visibility, changes, store, encryptedWith, missed>>
           /\ unseen # <<>> /\ unseen' = Tail(unseen)
<1> DEFINE why == IF Head(unseen) = "join" THEN "join" ELSE "event"
<1>1. Begin(c, why, "look") /\ marks' = [marks EXCEPT ![c] = marks[c]]
  BY UnchangedMarks DEF See
<1>2. why \in {"join", "event"}
  OBVIOUS
<1> HIDE DEF why
<1>. QED
  BY <1>1, <1>2, BeginEffect DEF See, room, history

LEMMA SendEventEffect ==
    ASSUME TypeOK, NEW c \in Calls, SendEvent(c)
    PROVE  /\ Others(c) /\ pc[c] = "idle" /\ phase = "on" /\ phase' = phase
           /\ pc'[c] = "config" /\ goal'[c] = "send" /\ found'[c] = found[c]
           /\ marks'[c] \subseteq {"encrypted", "known"}
           /\ "encrypted" \in marks'[c] <=> encrypted
           /\ "known" \in marks'[c] <=> store # None
           /\ UNCHANGED Globals
<1> DEFINE new == {m \in {"encrypted", "known"} :
                     IF m = "encrypted" THEN encrypted ELSE store # None}
<1>1. Begin(c, "send", "config") /\ marks' = [marks EXCEPT ![c] = new]
  BY DEF SendEvent
<1>2. /\ new \subseteq {"encrypted", "known"}
      /\ "encrypted" \in new <=> encrypted
      /\ "known" \in new <=> store # None
  OBVIOUS
<1> HIDE DEF new
<1>3. marks'[c] = new
  BY <1>1, BeginEffect
<1>. QED
  BY <1>1, <1>2, <1>3, BeginEffect DEF SendEvent, Globals, room, history

LEMMA ReadConfigEffect ==
    ASSUME TypeOK, NEW c \in Calls, ReadConfig(c)
    PROVE  /\ Others(c) /\ pc[c] = "config" /\ UNCHANGED Globals
           /\ \/ store = None /\ WentOn(c, goal[c], "look", marks[c])
              \/ store # None /\ Used(c, store)
<1>1. CASE store = None
  <2>1. GoOn(c, goal[c], "look") /\ marks' = [marks EXCEPT ![c] = marks[c]]
    BY <1>1, UnchangedMarks DEF ReadConfig, GoTo
  <2>. QED
    BY <1>1, <2>1, GoOnEffect DEF ReadConfig, Globals, room, history
<1>2. CASE store # None
  BY <1>2, UseEffect DEF ReadConfig, Globals, room, history
<1>. QED
  BY <1>1, <1>2

LEMMA RereadConfigEffect ==
    ASSUME TypeOK, NEW c \in Calls, RereadConfig(c)
    PROVE  /\ Others(c) /\ pc[c] = "reread" /\ UNCHANGED Globals
           /\ Used(c, store)
BY UseEffect DEF RereadConfig, Globals, room, history

LEMMA SendEndsEffect ==
    ASSUME TypeOK, NEW c \in Calls, SendEnds(c)
    PROVE  /\ Others(c) /\ pc[c] \in SendPcs /\ UNCHANGED Globals
           /\ Ended(c)
BY EndEffect DEF SendEnds, Globals, room, history

-----------------------------------------------------------------------------
(* The parts of the invariant, one by one *)

\* A step of a call that starts from a well-formed state.
Labels == {"idle"} \cup CheckPcs \cup ConfigPcs \cup SendPcs

LEMMA LocalType ==
    ASSUME TypeOK, NEW c \in Calls, Others(c),
           pc'[c] \in Labels, goal'[c] \in CheckGoals \cup ConfigGoals,
           found'[c] \in Config, marks'[c] \in SUBSET Marks
    PROVE  /\ pc' \in [Calls -> Labels]
           /\ goal' \in [Calls -> CheckGoals \cup ConfigGoals]
           /\ found' \in [Calls -> Config]
           /\ marks' \in [Calls -> SUBSET Marks]
BY DEF TypeOK, Others, Domains, Labels

LEMMA EndedType ==
    ASSUME TypeOK, NEW c \in Calls, Others(c), Ended(c)
    PROVE  /\ pc'[c] \in Labels /\ goal'[c] \in CheckGoals \cup ConfigGoals
           /\ found'[c] \in Config /\ marks'[c] \in SUBSET Marks
BY DEF Ended, Labels, CheckGoals, Config

LEMMA CheckedType ==
    ASSUME TypeOK, NEW c \in Calls, Others(c),
           NEW marksNow \in SUBSET Marks, Checked(c, marksNow)
    PROVE  /\ pc'[c] \in Labels /\ goal'[c] \in CheckGoals \cup ConfigGoals
           /\ found'[c] \in Config /\ marks'[c] \in SUBSET Marks
BY EndedType DEF Checked, WentOn, Labels, ConfigGoals, ConfigPcs, TypeOK

LEMMA UsedType ==
    ASSUME TypeOK, NEW c \in Calls, Others(c), NEW config, Used(c, config)
    PROVE  /\ pc'[c] \in Labels /\ goal'[c] \in CheckGoals \cup ConfigGoals
           /\ found'[c] \in Config /\ marks'[c] \in SUBSET Marks
BY EndedType DEF Used, WentOn, Labels, ConfigGoals, ConfigPcs, SendPcs, TypeOK

\* The local state after any step of a call is well-formed.
LEMMA CallType ==
    ASSUME TypeOK, NEW c \in Calls, CallStep(c)
    PROVE  /\ pc' \in [Calls -> Labels]
           /\ goal' \in [Calls -> CheckGoals \cup ConfigGoals]
           /\ found' \in [Calls -> Config]
           /\ marks' \in [Calls -> SUBSET Marks]
<1> SUFFICES /\ Others(c)
             /\ pc'[c] \in Labels /\ goal'[c] \in CheckGoals \cup ConfigGoals
             /\ found'[c] \in Config /\ marks'[c] \in SUBSET Marks
  BY LocalType
<1>0. /\ goal[c] \in CheckGoals \cup ConfigGoals
      /\ found[c] \in Config /\ marks[c] \in SUBSET Marks
      /\ marks[c] \cup {"failed"} \in SUBSET Marks
      /\ visibility \in Config /\ Unknown \in Config
  BY DEF TypeOK, Config, Marks
<1>1. CASE Look(c)
  BY <1>1, <1>0, LookEffect, CheckedType DEF WentOn, Labels, CheckPcs
<1>2. CASE Algorithm(c)
  BY <1>2, <1>0, AlgorithmEffect, CheckedType DEF WentOn, Labels, CheckPcs
<1>3. CASE AlgorithmFails(c)
  BY <1>3, <1>0, AlgorithmFailsEffect, CheckedType
<1>4. CASE Visibility(c)
  BY <1>4, <1>0, VisibilityEffect DEF Labels, CheckPcs
<1>5. CASE StoreRoom(c)
  BY <1>5, <1>0, StoreRoomEffect, CheckedType
<1>6. CASE Prepare(c)
  BY <1>6, <1>0, PrepareEffect DEF Labels, CheckPcs, CheckGoals
<1>7. CASE See(c)
  BY <1>7, <1>0, SeeEffect DEF Labels, CheckPcs, CheckGoals
<1>8. CASE SendEvent(c)
  BY <1>8, <1>0, SendEventEffect DEF Labels, ConfigPcs, ConfigGoals, Marks
<1>9. CASE ReadConfig(c)
  BY <1>9, <1>0, ReadConfigEffect, UsedType DEF WentOn, Labels, CheckPcs
<1>10. CASE RereadConfig(c)
  BY <1>10, RereadConfigEffect, UsedType
<1>11. CASE SendEnds(c)
  BY <1>11, SendEndsEffect, EndedType
<1>. QED
  BY <1>1, <1>2, <1>3, <1>4, <1>5, <1>6, <1>7, <1>8, <1>9, <1>10, <1>11
     DEF CallStep

\* The client is preparing as long as prepare() runs.
PreparingInv == phase = "preparing" <=> \E c \in Calls : goal[c] = "prepare"

LEMMA PlaceCall ==
    ASSUME TypeOK, PlaceInv, NEW c \in Calls, CallStep(c)
    PROVE  PlaceInv' /\ PreparingInv'
<1> USE DEF CheckPcs, ConfigPcs, SendPcs, CheckGoals, ConfigGoals
<1>0. PreparingInv
  BY DEF TypeOK, PreparingInv
<1>1. CASE Look(c)
  BY <1>0, <1>1, LookEffect DEF PlaceInv, PreparingInv, Others, Checked, Ended, WentOn
<1>2. CASE Algorithm(c)
  BY <1>0, <1>2, AlgorithmEffect DEF PlaceInv, PreparingInv, Others, Checked, Ended, WentOn
<1>3. CASE AlgorithmFails(c)
  <2>1. Others(c) /\ pc[c] = "algorithm" /\ Checked(c, marks[c] \cup {"failed"})
    BY <1>3, AlgorithmFailsEffect
  <2>2. PlaceInv'
    BY <2>1 DEF PlaceInv, Others, Checked, Ended, WentOn
  <2>3. PreparingInv'
    BY <1>0, <2>1 DEF PlaceInv, PreparingInv, Others, Checked, Ended, WentOn
  <2>. QED
    BY <2>2, <2>3
<1>4. CASE Visibility(c)
  BY <1>0, <1>4, VisibilityEffect DEF PlaceInv, PreparingInv, Others
<1>5. CASE StoreRoom(c)
  BY <1>0, <1>5, StoreRoomEffect DEF PlaceInv, PreparingInv, Others, Checked, Ended, WentOn
<1>6. CASE Prepare(c)
  <2>1. \A d \in Calls : goal[d] # "prepare"
    BY <1>0, <1>6, PrepareEffect DEF PreparingInv
  <2>2. Others(c) /\ pc'[c] = "look" /\ goal'[c] = "prepare" /\ phase' = "preparing"
    BY <1>6, PrepareEffect
  <2>3. PlaceInv'
    BY <2>1, <2>2 DEF PlaceInv, Others
  <2>4. PreparingInv'
    BY <2>2 DEF PreparingInv
  <2>. QED
    BY <2>3, <2>4
<1>7. CASE See(c)
  BY <1>0, <1>7, SeeEffect DEF PlaceInv, PreparingInv, Others
<1>8. CASE SendEvent(c)
  BY <1>0, <1>8, SendEventEffect DEF PlaceInv, PreparingInv, Others
<1>9. CASE ReadConfig(c)
  BY <1>0, <1>9, ReadConfigEffect DEF PlaceInv, PreparingInv, Others, Used, Ended, WentOn
<1>10. CASE RereadConfig(c)
  BY <1>0, <1>10, RereadConfigEffect DEF PlaceInv, PreparingInv, Others, Used, Ended, WentOn
<1>11. CASE SendEnds(c)
  BY <1>0, <1>11, SendEndsEffect DEF PlaceInv, PreparingInv, Others, Ended
<1>. QED
  BY <1>1, <1>2, <1>3, <1>4, <1>5, <1>6, <1>7, <1>8, <1>9, <1>10, <1>11
     DEF CallStep

LEMMA StoreCall ==
    ASSUME CryptoAssumption, TypeOK, StoreInv, NEW c \in Calls, CallStep(c)
    PROVE  StoreInv'
<1> USE DEF Globals
<1>1. CASE Look(c)
  BY <1>1, LookEffect DEF StoreInv, Others, Checked, Ended, WentOn
<1>2. CASE Algorithm(c)
  BY <1>2, AlgorithmEffect DEF StoreInv, Others, Checked, Ended, WentOn
<1>3. CASE AlgorithmFails(c)
  <2>1. /\ Others(c) /\ Checked(c, marks[c] \cup {"failed"})
        /\ UNCHANGED <<encrypted, visibility, store, encryptedWith>>
    BY <1>3, AlgorithmFailsEffect
  <2>. QED
    BY <2>1 DEF StoreInv, Others, Checked, Ended, WentOn
<1>4. CASE Visibility(c)
  BY <1>4, VisibilityEffect DEF StoreInv, Others
<1>5. CASE StoreRoom(c)
  BY <1>5, StoreRoomEffect DEF StoreInv, Others, Checked, Ended, WentOn
<1>6. CASE Prepare(c)
  <2>1. /\ Others(c) /\ pc'[c] = "look" /\ goal'[c] = "prepare" /\ marks'[c] = marks[c]
        /\ UNCHANGED <<encrypted, visibility, store, encryptedWith>>
    BY <1>6, PrepareEffect
  <2>. QED
    BY <2>1 DEF StoreInv, Others
<1>7. CASE See(c)
  BY <1>7, SeeEffect DEF StoreInv, Others
<1>8. CASE SendEvent(c)
  BY <1>8, SendEventEffect DEF StoreInv, Others
<1>9. CASE ReadConfig(c)
  BY <1>9, ReadConfigEffect DEF StoreInv, Others, Used, Ended, WentOn
<1>10. CASE RereadConfig(c)
  BY <1>10, RereadConfigEffect DEF StoreInv, Others, Used, Ended, WentOn
<1>11. CASE SendEnds(c)
  BY <1>11, SendEndsEffect DEF StoreInv, Others, Ended
<1>. QED
  BY <1>1, <1>2, <1>3, <1>4, <1>5, <1>6, <1>7, <1>8, <1>9, <1>10, <1>11
     DEF CallStep

LEMMA CallCall ==
    ASSUME CryptoAssumption, TypeOK, PlaceInv, StoreInv, CallInv,
           NEW c \in Calls, CallStep(c)
    PROVE  CallInv'
<1> USE DEF Globals
<1>0. None \notin Config
  BY DEF CryptoAssumption, Config
<1>1. CASE Look(c)
  BY <1>1, <1>0, LookEffect DEF CallInv, Others, Checked, Ended, WentOn
<1>2. CASE Algorithm(c)
  BY <1>2, <1>0, AlgorithmEffect DEF CallInv, Others, Checked, Ended, WentOn
<1>3. CASE AlgorithmFails(c)
  <2>1. /\ Others(c) /\ Checked(c, marks[c] \cup {"failed"})
        /\ UNCHANGED <<encrypted, visibility, store, encryptedWith>>
    BY <1>3, AlgorithmFailsEffect
  <2>. QED
    BY <2>1 DEF CallInv, Others, Checked, Ended, WentOn
<1>4. CASE Visibility(c)
  BY <1>4, <1>0, VisibilityEffect DEF CallInv, Others
<1>5. CASE StoreRoom(c)
  <2>1. /\ Others(c) /\ Checked(c, marks[c]) /\ encrypted' = encrypted
        /\ store' # None
    BY <1>5, <1>0, StoreRoomEffect DEF TypeOK
  <2>. QED
    BY <2>1 DEF CallInv, Others, Checked, Ended, WentOn
<1>6. CASE Prepare(c)
  <2>1. /\ Others(c) /\ pc'[c] = "look" /\ goal'[c] = "prepare" /\ marks'[c] = marks[c]
        /\ UNCHANGED <<encrypted, visibility, store, encryptedWith>>
    BY <1>6, PrepareEffect
  <2>. QED
    BY <2>1 DEF CallInv, Others
<1>7. CASE See(c)
  BY <1>7, <1>0, SeeEffect DEF CallInv, Others
<1>8. CASE SendEvent(c)
  BY <1>8, <1>0, SendEventEffect DEF CallInv, Others
<1>9. CASE ReadConfig(c)
  BY <1>9, <1>0, ReadConfigEffect DEF CallInv, Others, Used, Ended, WentOn
<1>10. CASE RereadConfig(c)
  BY <1>10, <1>0, RereadConfigEffect DEF CallInv, Others, Used, Ended, WentOn
<1>11. CASE SendEnds(c)
  BY <1>11, <1>0, SendEndsEffect DEF CallInv, Others, Ended
<1>. QED
  BY <1>1, <1>2, <1>3, <1>4, <1>5, <1>6, <1>7, <1>8, <1>9, <1>10, <1>11
     DEF CallStep

LEMMA NoticeCall ==
    ASSUME CryptoAssumption, TypeOK, PlaceInv, NoticeInv,
           NEW c \in Calls, CallStep(c)
    PROVE  NoticeInv'
<1> USE DEF Globals, CheckPcs
<1>0. None \notin Config
  BY DEF CryptoAssumption, Config
<1>1. CASE Look(c)
  BY <1>1, LookEffect DEF NoticeInv, ToldOfEncryption, Others, Checked, Ended, WentOn
<1>2. CASE Algorithm(c)
  BY <1>2, AlgorithmEffect DEF NoticeInv, ToldOfEncryption, Others, Checked, Ended, WentOn
<1>3. CASE AlgorithmFails(c)
  BY <1>3, AlgorithmFailsEffect DEF NoticeInv, ToldOfEncryption, Others, Checked, Ended, WentOn
<1>4. CASE Visibility(c)
  BY <1>4, VisibilityEffect DEF NoticeInv, ToldOfEncryption, Others
<1>5. CASE StoreRoom(c)
  <2>1. store' # None
    BY <1>5, <1>0, StoreRoomEffect DEF TypeOK
  <2>. QED
    BY <2>1 DEF NoticeInv
<1>6. CASE Prepare(c)
  BY <1>6, PrepareEffect DEF NoticeInv, ToldOfEncryption, Others
<1>7. CASE See(c)
  BY <1>7, SeeEffect DEF NoticeInv, ToldOfEncryption, Others
<1>8. CASE SendEvent(c)
  <2>1. /\ Others(c) /\ pc[c] = "idle" /\ phase' = phase
        /\ UNCHANGED <<encrypted, store, missed, unseen>>
    BY <1>8, SendEventEffect
  <2>2. ToldOfEncryption' <=> ToldOfEncryption
    BY <2>1 DEF ToldOfEncryption
  <2>3. \A d \in Calls : pc[d] \in CheckPcs => pc'[d] \in CheckPcs
    BY <2>1 DEF Others
  <2>. QED
    BY <2>1, <2>2, <2>3 DEF NoticeInv
<1>9. CASE ReadConfig(c)
  BY <1>9, ReadConfigEffect DEF NoticeInv, ToldOfEncryption, Others, Used, Ended, WentOn
<1>10. CASE RereadConfig(c)
  BY <1>10, RereadConfigEffect DEF NoticeInv, ToldOfEncryption, Others, Used, Ended, WentOn
<1>11. CASE SendEnds(c)
  <2>1. goal[c] # "prepare"
    BY <1>11, SendEndsEffect DEF PlaceInv, SendPcs
  <2>. QED
    BY <1>11, <2>1, SendEndsEffect
       DEF NoticeInv, ToldOfEncryption, Others, Ended, SendPcs
<1>. QED
  BY <1>1, <1>2, <1>3, <1>4, <1>5, <1>6, <1>7, <1>8, <1>9, <1>10, <1>11
     DEF CallStep

-----------------------------------------------------------------------------
(* All steps *)

LEMMA InitInv == ASSUME CryptoAssumption, Init PROVE IInv
<1>1. unseen \in Seq(EventKinds)
  <2>1. "join" \in EventKinds
    BY DEF EventKinds
  <2>2. <<>> \in Seq(EventKinds) /\ <<"join">> \in Seq(EventKinds)
    BY <2>1
  <2>. QED
    BY <2>2 DEF Init
<1>2. TypeOK
  <2>1. changes \in 0..MaxChanges /\ encryptedWith \subseteq Visibilities
    BY DEF Init, CryptoAssumption
  <2>2. /\ pc \in [Calls -> {"idle"} \cup CheckPcs \cup ConfigPcs \cup SendPcs]
        /\ goal \in [Calls -> CheckGoals \cup ConfigGoals]
        /\ found \in [Calls -> Config] /\ marks \in [Calls -> SUBSET Marks]
    BY DEF Init, Config, CheckGoals
  <2>3. phase = "preparing" <=> \E c \in Calls : goal[c] = "prepare"
    BY DEF Init
  <2>4. missed \in BOOLEAN /\ encrypted \in BOOLEAN
    BY DEF Init
  <2>. QED
    BY <1>1, <2>1, <2>2, <2>3, <2>4 DEF Init, TypeOK
<1>3. PlaceInv /\ StoreInv /\ CallInv
  BY DEF Init, PlaceInv, StoreInv, CallInv, ConfigPcs
<1>4. NoticeInv
  BY DEF Init, NoticeInv
<1>. QED
  BY <1>2, <1>3, <1>4 DEF IInv

\* A call changes what is not its own in few ways.
LEMMA SharedType ==
    ASSUME TypeOK, PlaceInv, NEW c \in Calls, CallStep(c)
    PROVE  /\ encrypted' \in BOOLEAN /\ visibility' \in Visibilities
           /\ changes' \in 0..MaxChanges /\ unseen' \in Seq(EventKinds)
           /\ store' \in Config \cup {None}
           /\ phase' \in {"off", "preparing", "on"}
           /\ encryptedWith' \subseteq Visibilities /\ missed' \in BOOLEAN
<1> USE DEF Globals, TypeOK
<1>1. CASE Look(c)
  BY <1>1, LookEffect DEF Checked, Ended, WentOn
<1>2. CASE Algorithm(c)
  BY <1>2, AlgorithmEffect DEF Checked, Ended, WentOn
<1>3. CASE AlgorithmFails(c)
  <2>1. missed' \in BOOLEAN
    BY <1>3 DEF AlgorithmFails
  <2>2. /\ UNCHANGED <<encrypted, visibility, changes, unseen, store, encryptedWith>>
        /\ Checked(c, marks[c] \cup {"failed"})
    BY <1>3, AlgorithmFailsEffect
  <2>. QED
    BY <2>1, <2>2 DEF Checked, Ended, WentOn
<1>4. CASE Visibility(c)
  BY <1>4, VisibilityEffect
<1>5. CASE StoreRoom(c)
  BY <1>5, StoreRoomEffect DEF Checked, Ended, WentOn
<1>6. CASE Prepare(c)
  <2>1. missed' \in BOOLEAN
    BY <1>6 DEF Prepare
  <2>2. /\ UNCHANGED <<encrypted, visibility, changes, unseen, store, encryptedWith>>
        /\ phase' = "preparing"
    BY <1>6, PrepareEffect
  <2>. QED
    BY <2>1, <2>2
<1>7. CASE See(c)
  <2>1. /\ UNCHANGED <<encrypted, visibility, changes, store, encryptedWith, missed>>
        /\ phase' = phase /\ unseen # <<>> /\ unseen' = Tail(unseen)
    BY <1>7, SeeEffect
  <2>2. unseen' \in Seq(EventKinds)
    BY <2>1
  <2>. QED
    BY <2>1, <2>2
<1>8. CASE SendEvent(c)
  BY <1>8, SendEventEffect
<1>9. CASE ReadConfig(c)
  BY <1>9, ReadConfigEffect DEF Used, Ended, WentOn
<1>10. CASE RereadConfig(c)
  BY <1>10, RereadConfigEffect DEF Used, Ended, WentOn
<1>11. CASE SendEnds(c)
  BY <1>11, SendEndsEffect DEF Ended
<1>. QED
  BY <1>1, <1>2, <1>3, <1>4, <1>5, <1>6, <1>7, <1>8, <1>9, <1>10, <1>11
     DEF CallStep

LEMMA CallPreserves ==
    ASSUME CryptoAssumption, IInv, NEW c \in Calls, CallStep(c)
    PROVE  IInv'
<1> USE DEF IInv
<1>1. PlaceInv' /\ PreparingInv'
  BY PlaceCall
<1>2. TypeOK'
  BY <1>1, CallType, SharedType DEF TypeOK, PreparingInv, Labels
<1>3. StoreInv' /\ CallInv' /\ NoticeInv'
  BY StoreCall, CallCall, NoticeCall
<1>. QED
  BY <1>1, <1>2, <1>3

\* An event is added to the end of the timeline.
LEMMA StateEventEffect ==
    ASSUME CryptoAssumption, TypeOK, NEW kind \in EventKinds, StateEvent(kind)
    PROVE  /\ changes' \in 0..MaxChanges /\ unseen' \in Seq(EventKinds)
           /\ ToldOfEncryption => ToldOfEncryption'
           /\ kind = "encryption" => ToldOfEncryption'
<1>1. changes' \in 0..MaxChanges /\ unseen' \in Seq(EventKinds)
  BY DEF StateEvent, TypeOK, CryptoAssumption
<1>2. /\ Len(unseen) \in Nat /\ Len(unseen') = Len(unseen) + 1
      /\ \A i \in 1..Len(unseen) : unseen'[i] = unseen[i]
      /\ unseen'[Len(unseen) + 1] = kind
  BY DEF StateEvent, TypeOK
<1>3. ToldOfEncryption => ToldOfEncryption'
  BY <1>2 DEF ToldOfEncryption
<1>4. kind = "encryption" => ToldOfEncryption'
  BY <1>2 DEF ToldOfEncryption
<1>. QED
  BY <1>1, <1>3, <1>4

LEMMA EnableEncryptionPreserves ==
    ASSUME CryptoAssumption, IInv, EnableEncryption PROVE IInv'
<1> USE DEF local
<1>1. StateEvent("encryption") /\ "encryption" \in EventKinds
  BY DEF EnableEncryption, EventKinds
<1>2. TypeOK'
  BY <1>1, StateEventEffect DEF IInv, EnableEncryption, TypeOK
<1>3. PlaceInv' /\ StoreInv' /\ CallInv'
  BY DEF IInv, EnableEncryption, PlaceInv, StoreInv, CallInv
<1>4. NoticeInv'
  BY <1>1, StateEventEffect DEF IInv, NoticeInv
<1>. QED
  BY <1>2, <1>3, <1>4 DEF IInv

LEMMA SetVisibilityPreserves ==
    ASSUME CryptoAssumption, IInv, NEW v \in Visibilities, SetVisibility(v)
    PROVE  IInv'
<1> USE DEF local
<1>1. StateEvent("visibility") /\ "visibility" \in EventKinds
  BY DEF SetVisibility, EventKinds
<1>2. TypeOK'
  BY <1>1, StateEventEffect DEF IInv, SetVisibility, TypeOK
<1>3. PlaceInv' /\ StoreInv' /\ CallInv'
  BY DEF IInv, SetVisibility, PlaceInv, StoreInv, CallInv
<1>4. NoticeInv'
  BY <1>1, StateEventEffect DEF IInv, SetVisibility, NoticeInv
<1>. QED
  BY <1>2, <1>3, <1>4 DEF IInv

LEMMA LeaveOutPreserves == ASSUME IInv, LeaveOut PROVE IInv'
<1> USE DEF room, local
<1>1. TypeOK'
  BY DEF IInv, LeaveOut, TypeOK
<1>2. PlaceInv' /\ StoreInv' /\ CallInv'
  BY DEF IInv, LeaveOut, PlaceInv, StoreInv, CallInv
<1>3. NoticeInv'
  BY DEF LeaveOut, NoticeInv
<1>. QED
  BY <1>1, <1>2, <1>3 DEF IInv

LEMMA CrashPreserves == ASSUME IInv, Crash PROVE IInv'
<1> USE DEF room, history
<1>1. unseen' \in Seq(EventKinds)
  <2>1. PICK n \in 0..Len(unseen) : unseen' = SubSeq(unseen, n + 1, Len(unseen))
    BY DEF Crash
  <2>2. unseen \in Seq(EventKinds) /\ Len(unseen) \in Nat
    BY DEF IInv, TypeOK
  <2>3. SubSeq(unseen, n + 1, Len(unseen)) \in Seq(EventKinds)
    BY <2>2, SubSeqProperties
  <2>. QED
    BY <2>1, <2>3
<1>2. TypeOK'
  BY <1>1 DEF IInv, Crash, TypeOK, CheckGoals, Config
<1>3. PlaceInv' /\ StoreInv' /\ CallInv'
  BY DEF IInv, Crash, PlaceInv, StoreInv, CallInv, ConfigPcs
<1>4. NoticeInv'
  BY DEF Crash, NoticeInv
<1>. QED
  BY <1>2, <1>3, <1>4 DEF IInv

LEMMA StepInv == ASSUME CryptoAssumption, IInv, [Next]_vars PROVE IInv'
<1>1. ASSUME UNCHANGED vars PROVE IInv'
  BY <1>1 DEF vars, room, local, history, IInv, TypeOK, PlaceInv, StoreInv,
              CallInv, NoticeInv, ToldOfEncryption
<1>. QED
  BY <1>1, CallPreserves, EnableEncryptionPreserves, SetVisibilityPreserves,
     LeaveOutPreserves, CrashPreserves DEF Next

LEMMA Invariance == ASSUME CryptoAssumption PROVE Spec => []IInv
BY InitInv, StepInv, PTL DEF Spec

-----------------------------------------------------------------------------
(* The theorems *)

\* Every reachable state of room, store and calls is well-formed.
THEOREM TypeCorrect == ASSUME CryptoAssumption PROVE Spec => []TypeOK
<1>1. IInv => TypeOK
  BY DEF IInv
<1>. QED
  BY <1>1, Invariance, PTL

\* A room the store knows to be encrypted is never written to in clear.
THEOREM NeverInClear ==
    ASSUME CryptoAssumption PROVE Spec => []KnownStaysEncrypted
<1>1. IInv => KnownStaysEncrypted
  BY DEF IInv, CallInv, KnownStaysEncrypted
<1>. QED
  BY <1>1, Invariance, PTL

\* An encrypted room is written to in clear only by a call of sendEvent that
\* failed to read its encryption event.
THEOREM InClearAfterFailure ==
    ASSUME CryptoAssumption PROVE Spec => []ClearForAReason
<1>1. IInv => ClearForAReason
  BY DEF IInv, CallInv, ClearForAReason
<1>. QED
  BY <1>1, Invariance, PTL

\* encryptRoomEvent never refuses what sendEvent found encrypted.
THEOREM NotRefused == ASSUME CryptoAssumption PROVE Spec => []NeverRefused
<1>1. IInv => NeverRefused
  BY DEF IInv, CallInv, NeverRefused
<1>. QED
  BY <1>1, Invariance, PTL

\* Encryption is noticed, crashes or not, if no check failed and no event was
\* left out since prepare().
THEOREM Noticed == ASSUME CryptoAssumption PROVE Spec => []EncryptionIsNoticed
<1>1. IInv => EncryptionIsNoticed
  BY DEF IInv, NoticeInv, ToldOfEncryption, Quiet, EncryptionIsNoticed, CheckPcs
<1>. QED
  BY <1>1, Invariance, PTL

\* Only encrypted rooms are stored, with a visibility from after encryption.
THEOREM StoredInOrder ==
    ASSUME CryptoAssumption PROVE Spec => []StoredWhenEncrypted
<1>1. IInv => StoredWhenEncrypted
  BY DEF IInv, StoreInv, StoredWhenEncrypted
<1>. QED
  BY <1>1, Invariance, PTL
=============================================================================
