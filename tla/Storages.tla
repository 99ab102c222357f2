------------------------------ MODULE Storages ------------------------------
(***************************************************************************)
(* The storage providers: where SimpleFsStorageProvider,                   *)
(* MemoryStorageProvider, SimplePostgresStorageProvider and                *)
(* RustSdkCryptoStorageProvider keep what they are given for the bot, and  *)
(* for the users of an appservice (storageForUser), and in which form. A   *)
(* file is read when the provider is made and written as a whole.          *)
(***************************************************************************)
EXTENDS Naturals, Sequences, FiniteSets

CONSTANTS
    Bot, AppUsers,
    Keys,      \* keys of readValue and storeValue
    Txns, Rooms,
    Data,      \* tokens, filters, values, configurations
    Null,      \* null or undefined, to whoever reads
    Blank,     \* the empty text
    MaxInMemory,
    MaxWrites, \* bound: calls of the setters
    StoreFaults  \* subset of {"write", "tables"}

VARIABLES
    kind,      \* the provider, "fs" and "postgres" with or without
               \* trackTransactionsInMemory
    row,       \* by name: of the object, of its copy of the file, of the tables
    file,      \* the file; a process that starts again reads it
    completedTransactions,
    tables,    \* waitPromise
    queries,   \* postgres: calls that wait
    writes     \* bound

storeVars == <<kind, row, file, completedTransactions, tables, queries, writes>>

Kinds == [provider : {"fs", "postgres"}, inMemory : BOOLEAN]
         \cup [provider : {"memory", "crypto"}, inMemory : {FALSE}]

IsFile == kind.provider \in {"fs", "crypto"}

\* What is stored, for whom.
Meta(scopes) == scopes \X {"token", "filter"}
Kv(scopes)   == scopes \X {"kv"} \X Keys
Scopes       == {Bot} \cup AppUsers

CryptoCells == {"room"} \X Rooms \cup {<<"deviceId">>}
PlainCells  == Meta(Scopes) \cup Kv(Scopes)
               \cup {"registered"} \X AppUsers \cup {"completed"} \X Txns
Cells       == CryptoCells \cup PlainCells

Offered == IF kind.provider = "crypto" THEN CryptoCells ELSE PlainCells

Given(c) ==
    IF c \in Meta(Scopes) THEN Data \cup {Null}
    ELSE IF c \in Kv(Scopes) \cup CryptoCells THEN Data
    ELSE {TRUE}

-----------------------------------------------------------------------------
(* Names and forms *)

Namespaced(c) == c[1] \in AppUsers /\ kind.provider # "memory"

\* Faulty variant: the names do not begin with the user ID.
NameUnprefixed(c) ==
    IF Namespaced(c) THEN <<"kv", IF c[2] = "kv" THEN "_kv_" ELSE "_int_", c[Len(c)]>>
    ELSE IF c \in Kv({Bot}) THEN <<"kv", c[3]>>
    ELSE c

\* A memory provider has one more per user; the others give it keys of their
\* key-value store, whose names begin with the user ID.
Name(c) ==
    IF Namespaced(c) THEN <<"kv", c[1], IF c[2] = "kv" THEN "_kv_" ELSE "_int_", c[Len(c)]>>
    ELSE IF c \in Kv({Bot}) THEN <<"kv", c[3]>>
    ELSE c

Json(v)  == [json |-> v]
IsJson(c) ==
    /\ c \in Scopes \X {"filter"}
    /\ Namespaced(c) \/ kind.provider = "postgres"

\* A user's token of null is an empty text in the database; a null filter is
\* no text for the bot and the text null for a user.
Encode(c, v) ==
    IF IsJson(c) /\ (v # Null \/ Namespaced(c)) THEN Json(v)
    ELSE IF kind.provider = "postgres" /\ Namespaced(c) /\ v = Null THEN Blank
    ELSE v

Decode(c, r) ==
    IF IsJson(c) /\ r # Null THEN r.json
    ELSE IF r = Blank THEN Null
    ELSE r

InMemory(c) == c[1] = "completed" /\ kind.inMemory

Completed(t) == \E n \in DOMAIN completedTransactions : completedTransactions[n] = t

\* The getters: getSyncToken, getFilter, readValue, isUserRegistered,
\* isTransactionCompleted, getDeviceId, getRoom.
Get(c, rows) ==
    IF InMemory(c)
    THEN IF Completed(c[2]) THEN TRUE ELSE Null
    ELSE IF Name(c) \in DOMAIN rows THEN Decode(c, rows[Name(c)]) ELSE Null

-----------------------------------------------------------------------------
Set(f, k, v) == [x \in DOMAIN f \cup {k} |-> IF x = k THEN v ELSE f[x]]

Empty == [x \in {} |-> Null]

Init ==
    /\ kind \in Kinds
    /\ row = Empty /\ file = Empty
    /\ completedTransactions = <<>>
    /\ tables = IF kind.provider = "postgres" THEN "creating" ELSE "ready"
    /\ queries = {} /\ writes = 0

\* The record in memory, which forgets the oldest.
Push(t) ==
    LET all == IF Completed(t) THEN completedTransactions ELSE Append(completedTransactions, t)
    IN completedTransactions' = IF Len(all) > MaxInMemory THEN Tail(all) ELSE all

\* The setters of the synchronous providers. db.write() may throw, when the
\* copy has changed already.
Put(c, v) ==
    /\ kind.provider # "postgres"
    /\ writes < MaxWrites /\ writes' = writes + 1
    /\ IF kind.provider = "fs" /\ InMemory(c)
       THEN Push(c[2]) /\ UNCHANGED <<row, file>>
       ELSE /\ row' = Set(row, Name(c), Encode(c, v))
            /\ file' \in (IF IsFile THEN {row'} ELSE {file})
                         \cup (IF "write" \in StoreFaults THEN {file} ELSE {})
            /\ UNCHANGED completedTransactions
    /\ UNCHANGED <<kind, tables, queries>>

\* Those of SimplePostgresStorageProvider wait for the tables first; then the
\* row is inserted or updated, in any order of the calls.
Query(c, v) ==
    /\ kind.provider = "postgres"
    /\ writes < MaxWrites /\ writes' = writes + 1
    /\ queries' = queries \cup {[cell |-> c, value |-> v]}
    /\ UNCHANGED <<kind, row, file, completedTransactions, tables>>

Tables ==
    /\ tables = "creating"
    /\ tables' \in {"ready"} \cup (IF "tables" \in StoreFaults THEN {"failed"} ELSE {})
    /\ UNCHANGED <<kind, row, file, completedTransactions, queries, writes>>

Upsert(q) ==
    /\ tables = "ready"
    /\ queries' = queries \ {q}
    /\ IF InMemory(q.cell)
       THEN Push(q.cell[2]) /\ UNCHANGED row
       ELSE /\ row' = Set(row, Name(q.cell), Encode(q.cell, q.value))
            /\ UNCHANGED completedTransactions
    /\ UNCHANGED <<kind, file, tables, writes>>

\* Without tables every call rejects, as long as the process lives. A query may
\* also fail, in the database or on the way back.
Rejects(q) ==
    /\ queries' = queries \ {q}
    /\ \/ tables = "failed" /\ UNCHANGED row
       \/ /\ tables = "ready" /\ "write" \in StoreFaults /\ ~InMemory(q.cell)
          /\ row' \in {row, Set(row, Name(q.cell), Encode(q.cell, q.value))}
    /\ UNCHANGED <<kind, file, completedTransactions, tables, writes>>

\* A new process, or a new provider for the same place.
Restart ==
    /\ row' = IF kind.provider = "postgres" THEN row ELSE file
    /\ completedTransactions' = <<>>
    /\ tables' = IF kind.provider = "postgres" THEN "creating" ELSE "ready"
    /\ queries' = {}
    /\ UNCHANGED <<kind, file, writes>>

Next ==
    \/ \E c \in Offered : \E v \in Given(c) : Put(c, v) \/ Query(c, v)
    \/ Tables
    \/ \E q \in queries : Upsert(q) \/ Rejects(q)
    \/ Restart

Spec == Init /\ [][Next]_storeVars

-----------------------------------------------------------------------------
(* Properties *)

Now   == [c \in Cells |-> Get(c, row)]
Later == [c \in Cells |-> IF InMemory(c) \/ kind.provider = "memory" THEN Null
                         ELSE Get(c, IF kind.provider = "postgres" THEN row ELSE file)]

Store == INSTANCE KeyValues
    WITH Values <- Data \cup {Null, TRUE}, value <- Now, durable <- Later

\* Every provider is a store of cells: what is read from one is what was last
\* written to it, by whichever name and in whichever form it is kept, for the
\* bot and for each user; and what was persisted is there after a restart,
\* whatever writes failed in between. Completed transactions kept in memory
\* may be forgotten.
StoreRefined == Store!Spec
=============================================================================
