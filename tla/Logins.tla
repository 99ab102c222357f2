------------------------------- MODULE Logins -------------------------------
(***************************************************************************)
(* How a program gets its access token: MatrixAuth.passwordRegister, with  *)
(* its try without and its try with user-interactive authentication,       *)
(* MatrixAuth.passwordLogin, and PantalaimonClient, which logs in once and *)
(* keeps the token in its storage. Requests and answers get lost, and the  *)
(* program crashes and starts again.                                       *)
(***************************************************************************)
EXTENDS Naturals, Sequences, FiniteSets

CONSTANTS
    Calls,      \* calls of the program under way at once
    None,
    LoginFaults, \* of {"lost", "refused", "store", "crash"}
    MaxFaults, MaxCalls \* bounds

VARIABLES
    flows,     \* homeserver: the flows it offers for registration, none if it
               \* registers without
    account,   \* homeserver: the localpart is registered
    issued,    \* homeserver: the access tokens given out for the account, as
               \* the sequence of the functions they were given to
    stored,    \* storage: the token under pantalaimon_access_token
    call,
    faults, calls, \* bounds
    overlaps   \* history: calls of Pantalaimon that began during another

loginVars == <<flows, account, issued, stored, call, faults, calls, overlaps>>

Dummy     == "m.login.dummy"
Recaptcha == "m.login.recaptcha"
Flows     == {<<Dummy>>, <<Recaptcha>>, <<Recaptcha, Dummy>>}

NoCall == [pc |-> "idle", fn |-> None, token |-> None]

Init ==
    /\ flows \in SUBSET Flows
    /\ account \in BOOLEAN
    /\ issued = <<>> /\ stored = None
    /\ call = [c \in Calls |-> NoCall]
    /\ faults = 0 /\ calls = 0 /\ overlaps = 0

Enter(c, pc)    == call' = [call EXCEPT ![c].pc = pc]
End(c)          == call' = [call EXCEPT ![c] = NoCall]
Give(c, t)      == call' = [call EXCEPT ![c].pc = "client", ![c].token = t]
Fault(kind)     == kind \in LoginFaults /\ faults < MaxFaults /\ faults' = faults + 1

\* The homeserver gives out a token to the function of the call.
Issue(c) == issued' = Append(issued, call[c].fn)
NewToken == Len(issued) + 1

Begin(c, fn, pc) ==
    /\ call[c].pc = "idle"
    /\ calls < MaxCalls
    /\ calls' = calls + 1
    /\ call' = [call EXCEPT ![c] = [NoCall EXCEPT !.pc = pc, !.fn = fn]]
    /\ UNCHANGED <<flows, account, issued, stored, faults>>

-----------------------------------------------------------------------------
(* passwordRegister *)

PasswordRegister(c) == Begin(c, "passwordRegister", "register") /\ UNCHANGED overlaps

\* The one flow that can be completed.
HasFlow(offered) == <<Dummy>> \in offered

\* The first request, without authentication: a token, a 401 with the flows, or
\* another error, which ends the call as "Failed to register".
Register(c) ==
    /\ call[c].pc = "register"
    /\ IF account THEN End(c) /\ UNCHANGED <<account, issued>>
       ELSE IF flows = {} THEN Give(c, NewToken) /\ account' = TRUE /\ Issue(c)
       ELSE /\ UNCHANGED <<account, issued>>
            /\ IF HasFlow(flows) THEN Enter(c, "authenticate") ELSE End(c)
    /\ UNCHANGED <<flows, stored, faults, calls, overlaps>>

\* The second, with the stage. The homeserver accepts it if it completes a flow
\* of its own.
Authenticate(c) ==
    /\ call[c].pc = "authenticate"
    /\ IF ~account /\ (<<Dummy>> \in flows)
       THEN Give(c, NewToken) /\ account' = TRUE /\ Issue(c)
       ELSE End(c) /\ UNCHANGED <<account, issued>>
    /\ UNCHANGED <<flows, stored, faults, calls, overlaps>>

\* The homeserver registers the account and its answer is lost.
RegisterUnheard(c) ==
    /\ call[c].pc \in {"register", "authenticate"}
    /\ ~account /\ (flows = {} \/ call[c].pc = "authenticate")
    /\ Fault("lost")
    /\ account' = TRUE /\ Issue(c)
    /\ End(c)
    /\ UNCHANGED <<flows, stored, calls, overlaps>>

-----------------------------------------------------------------------------
(* passwordLogin and createClientWithCredentials *)

PasswordLogin(c) == account /\ Begin(c, "passwordLogin", "login") /\ UNCHANGED overlaps

InPantalaimon(c) == call[c].fn = "pantalaimon" /\ call[c].pc \in {"read", "login", "store"}

CreateClientWithCredentials(c) ==
    /\ account
    /\ Begin(c, "pantalaimon", "read")
    /\ overlaps' = IF \E d \in Calls : InPantalaimon(d) THEN overlaps + 1 ELSE overlaps

\* Faulty variant: the stored token is not looked at.
LoginAnyway(token) == TRUE

NeedsLogin(token) == token = None

ReadToken(c) ==
    /\ call[c].pc = "read"
    /\ IF NeedsLogin(stored) THEN Enter(c, "login") ELSE Give(c, stored)
    /\ UNCHANGED <<flows, account, issued, stored, faults, calls, overlaps>>

\* Every login makes a device with a token of its own.
Login(c) ==
    /\ call[c].pc = "login"
    /\ Issue(c)
    /\ IF call[c].fn = "pantalaimon"
       THEN call' = [call EXCEPT ![c].pc = "store", ![c].token = NewToken]
       ELSE Give(c, NewToken)
    /\ UNCHANGED <<flows, account, stored, faults, calls, overlaps>>

LoginUnheard(c) ==
    /\ call[c].pc = "login" /\ Fault("lost")
    /\ Issue(c) /\ End(c)
    /\ UNCHANGED <<flows, account, stored, calls, overlaps>>

LoginRefused(c) ==
    /\ call[c].pc = "login" /\ Fault("refused")
    /\ End(c)
    /\ UNCHANGED <<flows, account, issued, stored, calls, overlaps>>

StoreToken(c) ==
    /\ call[c].pc = "store"
    /\ stored' = call[c].token
    /\ Give(c, call[c].token)
    /\ UNCHANGED <<flows, account, issued, faults, calls, overlaps>>

StoreFails(c) ==
    /\ call[c].pc = "store" /\ Fault("store")
    /\ End(c)
    /\ UNCHANGED <<flows, account, issued, stored, calls, overlaps>>

Use(c) ==
    /\ call[c].pc = "client"
    /\ End(c)
    /\ UNCHANGED <<flows, account, issued, stored, faults, calls, overlaps>>

\* The process ends; the storage keeps what it has.
Crash ==
    /\ Fault("crash")
    /\ call' = [c \in Calls |-> NoCall]
    /\ UNCHANGED <<flows, account, issued, stored, calls, overlaps>>

Next ==
    \/ \E c \in Calls :
           \/ PasswordRegister(c) \/ Register(c) \/ Authenticate(c) \/ RegisterUnheard(c)
           \/ PasswordLogin(c) \/ CreateClientWithCredentials(c) \/ ReadToken(c)
           \/ Login(c) \/ LoginUnheard(c) \/ LoginRefused(c)
           \/ StoreToken(c) \/ StoreFails(c) \/ Use(c)
    \/ Crash

Spec == Init /\ [][Next]_loginVars

-----------------------------------------------------------------------------
(* Properties *)

\* Pantalaimon's program logs in once: every further login has a fault or an
\* overlapping call to account for it.
LogsInOnce ==
    Cardinality({t \in DOMAIN issued : issued[t] = "pantalaimon"}) <= 1 + faults + overlaps

\* A client of Pantalaimon has a token that its homeserver gave, the stored one
\* unless calls overlapped; a client of passwordRegister is of an account.
TokensAreKept ==
    /\ stored # None => stored \in DOMAIN issued /\ issued[stored] = "pantalaimon"
    /\ \A c \in Calls : call[c].pc = "client" =>
           /\ account /\ call[c].token \in DOMAIN issued
           /\ call[c].fn = "pantalaimon" /\ overlaps = 0 => call[c].token = stored

\* Logins are made when needed and their tokens kept.
LoginsHold == LogsInOnce /\ TokensAreKept
=============================================================================
