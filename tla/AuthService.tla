------------------------------ MODULE AuthService ------------------------------
(***************************************************************************)
(* yydra-auth (capabilities/auth/rust/src/lib.rs): sign-in with a provider,*)
(* handoff to a native app, sessions that logout revokes.  Each request is *)
(* a process; every statement against PostgreSQL and every session-store   *)
(* call is a step of its own, so requests interleave between them.         *)
(*                                                                         *)
(* A request starts at most one attempt, issues at most one handoff and    *)
(* creates at most one session id, so each of these secrets is named by    *)
(* the request that drew it.  A state parameter, a binding or a handoff    *)
(* code is never guessed, only passed on.                                  *)
(*                                                                         *)
(* tower-sessions (load before the handler, save of a modified session     *)
(* after it unless the answer is a server error) and axum-login (login     *)
(* draws a new id unless the session was already signed in; logout flushes)*)
(* are external.                                                           *)
(***************************************************************************)
EXTENDS FiniteSets

CONSTANTS
  Requests,
  Earlier,    \* requests answered before the behaviour starts
  Routes,     \* the routes in use
  Clients,    \* a browser and, beside it, the native app of one person
  Accounts,
  None

Kinds == {"product", "logout", "start", "startNative", "callback", "exchange"}

ASSUME AuthAssumption ==
  /\ Routes \subseteq Kinds
  /\ Earlier \subseteq Requests
  /\ None \notin Requests /\ None \notin Accounts

VARIABLES
  record,    \* tower_sessions.session
  active,    \* yydra_auth_active_sessions: the sign-in that inserted the row
  attempts,  \* yydra_auth_attempts
  handoffs,  \* yydra_auth_handoffs
  held,      \* session ids each client was ever given
  at,        \* position of each request
  call,      \* its route, its client and the attempt or handoff it names
  session,   \* its in-memory Session
  won,       \* the attempt or handoff it redeemed
  acct,      \* the account it signs in
  lease,     \* the sign-in whose lease `identity` found for it
  ended      \* ids revoked and not signed in again since (history)

tables  == <<record, active, attempts, handoffs>>
request == <<at, call, session, won, acct, lease>>
vars    == <<tables, held, request, ended>>

-----------------------------------------------------------------------------
Position == {"idle", "loaded", "attempt", "redeem", "provider", "handoff", "revoke",
             "flush", "login", "save", "activate", "answer", "done", "failed"}
Busy     == Position \ {"idle", "done", "failed"}

NoCall    == [kind |-> "product", client |-> None, asks |-> None]
NoSession == [id |-> None, user |-> None, bind |-> None, until |-> None, dirty |-> FALSE]

Ids      == Requests \cup {None}
Users    == Accounts \cup {None}
Records  == [user : Users, bind : Ids, until : Ids]
Sessions == [id : Ids, user : Users, bind : Ids, until : Ids, dirty : BOOLEAN]

ASSUME RecordAssumption == None \notin Records

\* What the store keeps of an in-memory session.  `until` names the sign-in
\* whose lifetime bounds the record, None the ten minutes of inactivity.
Stored(s) == [user |-> s.user, bind |-> s.bind, until |-> s.until]

Advance(r, from, to) == at[r] = from /\ at' = [at EXCEPT ![r] = to]

\* Each earlier request completed a sign-in for an account, or began a native
\* one with no session yet, so that the binding is in a session of its own.
Init ==
  \E of \in [Earlier -> Clients], who \in [Earlier -> Users] :
    LET Past == {s \in Earlier : who[s] # None} IN
    /\ record = [s \in Requests |->
                   CASE s \in Past    -> [user |-> who[s], bind |-> None, until |-> s]
                     [] s \in Earlier \ Past -> [user |-> None, bind |-> s, until |-> None]
                     [] OTHER         -> None]
    /\ active = [s \in Requests |-> IF s \in Past THEN s ELSE None]
    /\ attempts = Earlier \ Past /\ handoffs = {}
    /\ held = [c \in Clients |-> {s \in Earlier : of[s] = c}]
    /\ at = [r \in Requests |-> IF r \in Earlier THEN "done" ELSE "idle"]
    /\ call = [r \in Requests |->
                 IF r \in Earlier
                 THEN [kind |-> IF r \in Past THEN "callback" ELSE "startNative",
                       client |-> of[r], asks |-> None]
                 ELSE NoCall]
    /\ session = [r \in Requests |-> NoSession]
    /\ won = [r \in Requests |-> None]
    /\ acct = [r \in Requests |-> IF r \in Earlier THEN who[r] ELSE None]
    /\ lease = [r \in Requests |-> None]
    /\ ended = {}

-----------------------------------------------------------------------------
(* The layers around a handler.                                            *)

\* Answered starts and callbacks: their state or handoff is in some URL, which
\* any client may open.  (One that was never drawn is refused as an expired one.)
Known(k) ==
  CASE k = "callback" -> {q \in Requests : at[q] = "done" /\ call[q].kind \in {"start", "startNative"}}
    [] k = "exchange" -> {q \in Requests : at[q] = "done" /\ call[q].kind = "callback"} \ Earlier
    [] OTHER          -> {None}

\* SessionManagerLayer and AuthSession::from_session: the id is kept only when
\* its record is there.  The configured expiry is inactivity, whatever the
\* record's was.
Loaded(s) ==
  IF s # None /\ record[s] # None
  THEN [NoSession EXCEPT !.id = s, !.user = record[s].user, !.bind = record[s].bind]
  ELSE NoSession

Arrive(r) ==
  /\ Advance(r, "idle", "loaded")
  /\ \E k \in Routes, c \in Clients :
       \E s \in held[c] \cup {None}, q \in Known(k) :
         /\ call' = [call EXCEPT ![r] = [kind |-> k, client |-> c, asks |-> q]]
         /\ session' = [session EXCEPT ![r] = Loaded(s)]
  /\ UNCHANGED <<tables, held, won, acct, lease, ended>>

\* Mutant: the session record alone is trusted.
LeaseOfRecord(s) ==
  IF s.id # None /\ s.user # None THEN s.id ELSE None

\* AuthService::lease: a row of this id for the account the record names.
LeaseOf(s) ==
  IF s.id # None /\ s.user # None /\ active[s.id] # None
     /\ acct[active[s.id]] = s.user
  THEN active[s.id] ELSE None

\* Where each handler begins.
Handler(k) ==
  CASE k = "logout"                   -> "revoke"
    [] k \in {"start", "startNative"} -> "attempt"
    [] k \in {"callback", "exchange"} -> "redeem"
    [] OTHER                          -> "answer"

\* Mutant: the loaded session keeps the configured expiry.
IdentityWithoutExpiry(r) ==
  LET l == LeaseOf(session[r]) IN
  /\ Advance(r, "loaded", Handler(call[r].kind))
  /\ lease' = [lease EXCEPT ![r] = l]
  /\ session' = [session EXCEPT ![r].dirty = l # None]
  /\ UNCHANGED <<tables, held, call, won, acct, ended>>

\* The middleware: a request with a lease is the account's, and its session
\* takes the expiry of the lease.
Identity(r) ==
  LET l == LeaseOf(session[r]) IN
  /\ Advance(r, "loaded", Handler(call[r].kind))
  /\ lease' = [lease EXCEPT ![r] = l]
  /\ session' = [session EXCEPT ![r].until = l, ![r].dirty = l # None]
  /\ UNCHANGED <<tables, held, call, won, acct, ended>>

\* The lease is for the other transport, or the CSRF check fails: 401 or 403.
Refuse(r) ==
  /\ LeaseOf(session[r]) # None
  /\ Advance(r, "loaded", "answer")
  /\ UNCHANGED <<tables, held, call, session, won, acct, lease, ended>>

\* A request's memory ends with it.  What lasts is who began or completed a
\* sign-in, for its secrets are bound to that.
Forget(r) ==
  /\ session' = [session EXCEPT ![r] = NoSession]
  /\ lease' = [lease EXCEPT ![r] = None]
  /\ call' = [call EXCEPT ![r] = IF r \in attempts \/ acct[r] # None
                                 THEN [@ EXCEPT !.asks = None] ELSE NoCall]

\* The session a request ends with is saved when it changed and has content,
\* under a new id when it has none, by an UPSERT.  A server error saves nothing
\* (Fail).  The client takes the id from the answer, which may also be lost.
Answer(r) ==
  LET s  == session[r]
      id == IF s.id = None THEN r ELSE s.id IN
  /\ Advance(r, "answer", "done")
  /\ \/ /\ s.dirty /\ (s.id # None \/ s.user # None \/ s.bind # None)
        /\ record' = [record EXCEPT ![id] = Stored(s)]
        /\ \E got \in {{}, {id}} :
             held' = [held EXCEPT ![call[r].client] = @ \cup got]
     \/ /\ ~s.dirty \/ (s.id = None /\ s.user = None /\ s.bind = None)
        /\ UNCHANGED <<record, held>>
  /\ Forget(r)
  /\ UNCHANGED <<active, attempts, handoffs, won, acct, ended>>

\* A statement, the store or the provider fails, the client hangs up or the
\* server stops: a server error or no answer.
Fail(r) ==
  /\ at[r] \in Busy
  /\ at' = [at EXCEPT ![r] = "failed"]
  /\ Forget(r)
  /\ UNCHANGED <<tables, held, won, acct, ended>>

-----------------------------------------------------------------------------
(* The handlers.                                                           *)

\* start: the binding goes into the session, the attempt into the table.
InsertAttempt(r) ==
  /\ Advance(r, "attempt", "answer")
  /\ session' = [session EXCEPT ![r].bind = r, ![r].dirty = TRUE]
  /\ attempts' = attempts \cup {r}
  /\ UNCHANGED <<record, active, handoffs, held, call, won, acct, lease, ended>>

\* The binding of attempt q was drawn by the start that inserted it.
AttemptMatches(q, bind) == q \in attempts /\ bind = q

\* callback: one DELETE ... RETURNING decides who redeems the attempt; then the
\* binding leaves the session.  No match is 400.
RedeemAttempt(r) ==
  LET q == call[r].asks
      matches == AttemptMatches(q, session[r].bind) IN
  /\ call[r].kind = "callback"
  /\ Advance(r, "redeem", IF matches THEN "provider" ELSE "answer")
  /\ attempts' = attempts \ (IF matches THEN {q} ELSE {})
  /\ won' = [won EXCEPT ![r] = IF matches THEN q ELSE None]
  /\ session' = IF matches
                THEN [session EXCEPT ![r].bind = None, ![r].dirty = TRUE]
                ELSE session
  /\ UNCHANGED <<record, active, handoffs, held, call, acct, lease, ended>>

\* The provider or its user declined: a redirect that signs nobody in.
Decline(r) ==
  /\ Advance(r, "provider", "answer")
  /\ UNCHANGED <<tables, held, call, session, won, acct, lease, ended>>

\* The provider vouches for an account; who continues depends on the attempt.
Authenticate(r) ==
  /\ Advance(r, "provider",
             IF call[won[r]].kind = "startNative" THEN "handoff" ELSE "revoke")
  /\ \E a \in Accounts : acct' = [acct EXCEPT ![r] = a]
  /\ UNCHANGED <<tables, held, call, session, won, lease, ended>>

InsertHandoff(r) ==
  /\ Advance(r, "handoff", "answer")
  /\ handoffs' = handoffs \cup {r}
  /\ UNCHANGED <<record, active, attempts, held, call, session, won, acct, lease, ended>>

\* Mutant: the handoff is found by its code alone.
HandoffMatchesAnyVerifier(h, c) == h \in handoffs /\ c # None

\* The verifier of client c hashes to the challenge its app gave the start.
HandoffMatches(h, c) == h \in handoffs /\ call[won[h]].client = c

\* Mutant: SELECT where the code has DELETE ... RETURNING.
SelectHandoff(r) ==
  LET h == call[r].asks
      matches == HandoffMatches(h, call[r].client) IN
  /\ call[r].kind = "exchange"
  /\ Advance(r, "redeem", IF matches THEN "revoke" ELSE "answer")
  /\ won' = [won EXCEPT ![r] = IF matches THEN h ELSE None]
  /\ acct' = [acct EXCEPT ![r] = IF matches THEN acct[h] ELSE None]
  /\ UNCHANGED <<tables, held, call, session, lease, ended>>

\* native_exchange: the same DELETE ... RETURNING for a handoff.
RedeemHandoff(r) ==
  LET h == call[r].asks
      matches == HandoffMatches(h, call[r].client) IN
  /\ call[r].kind = "exchange"
  /\ Advance(r, "redeem", IF matches THEN "revoke" ELSE "answer")
  /\ handoffs' = handoffs \ (IF matches THEN {h} ELSE {})
  /\ won' = [won EXCEPT ![r] = IF matches THEN h ELSE None]
  /\ acct' = [acct EXCEPT ![r] = IF matches THEN acct[h] ELSE None]
  /\ UNCHANGED <<record, active, attempts, held, call, session, lease, ended>>

-----------------------------------------------------------------------------
(* AuthService::revoke and establish.                                      *)

Revoke(r) ==
  /\ Advance(r, "revoke", "flush")
  /\ active' = [s \in Requests |-> IF s = session[r].id THEN None ELSE active[s]]
  /\ ended' = ended \cup ({session[r].id} \ {None})
  /\ UNCHANGED <<record, attempts, handoffs, held, call, session, won, acct, lease>>

\* AuthSession::logout: the record is deleted and the session emptied.  For a
\* sign-in axum-login still knows the record's id and that it had an account.
Flush(r) ==
  /\ Advance(r, "flush", IF call[r].kind = "logout" THEN "answer" ELSE "login")
  /\ record' = [s \in Requests |-> IF s = session[r].id THEN None ELSE record[s]]
  /\ session' = [session EXCEPT ![r] =
                   IF call[r].kind = "logout" THEN [NoSession EXCEPT !.dirty = TRUE]
                   ELSE [@ EXCEPT !.bind = None, !.dirty = TRUE]]
  /\ UNCHANGED <<active, attempts, handoffs, held, call, won, acct, lease, ended>>

\* AuthSession::login: a session without an account gets a new id, and the
\* record of the old one is deleted.
Login(r) ==
  LET s == session[r] IN
  /\ Advance(r, "login", "save")
  /\ record' = [i \in Requests |->
                  IF i = s.id /\ s.user = None THEN None ELSE record[i]]
  /\ session' = [session EXCEPT ![r].user = acct[r],
                                ![r].id = IF s.user = None THEN r ELSE s.id]
  /\ UNCHANGED <<active, attempts, handoffs, held, call, won, acct, lease, ended>>

\* Session::save under the lifetime of this sign-in; an id whose record a late
\* save has restored is not taken again.
Save(r) ==
  LET id == IF record[session[r].id] = None THEN session[r].id ELSE r
      s  == [session[r] EXCEPT !.id = id, !.until = r] IN
  /\ Advance(r, "save", "activate")
  /\ session' = [session EXCEPT ![r] = s]
  /\ record' = [record EXCEPT ![id] = Stored(s)]
  /\ UNCHANGED <<active, attempts, handoffs, held, call, won, acct, lease, ended>>

\* The row that opens access.  Its id is a primary key: a second insert fails.
Activate(r) ==
  /\ Advance(r, "activate", "answer")
  /\ active[session[r].id] = None
  /\ active' = [active EXCEPT ![session[r].id] = r]
  /\ ended' = ended \ {session[r].id}
  /\ UNCHANGED <<record, attempts, handoffs, held, call, session, won, acct, lease>>

-----------------------------------------------------------------------------
(* Expiry, which a query's condition and `cleanup` enforce alike.          *)

ExpireAttempt(q) ==
  /\ q \in attempts /\ attempts' = attempts \ {q}
  /\ UNCHANGED <<record, active, handoffs, held, request, ended>>

ExpireHandoff(h) ==
  /\ h \in handoffs /\ handoffs' = handoffs \ {h}
  /\ UNCHANGED <<record, active, attempts, held, request, ended>>

\* A record not saved by a request with a lease or by a sign-in is idle for ten
\* minutes.
ExpireIdle(s) ==
  /\ record[s] # None /\ record[s].until = None
  /\ record' = [record EXCEPT ![s] = None]
  /\ UNCHANGED <<active, attempts, handoffs, held, request, ended>>

\* The lifetime of sign-in l is over, in both tables: they hold one expiry.
\* (It is longer than the request that signs in.)
ExpireSignIn(l) ==
  /\ at[l] \in {"done", "failed"}
  /\ \E s \in Requests : active[s] = l \/ (record[s] # None /\ record[s].until = l)
  /\ active' = [s \in Requests |-> IF active[s] = l THEN None ELSE active[s]]
  /\ record' = [s \in Requests |->
                  IF record[s] # None /\ record[s].until = l THEN None ELSE record[s]]
  /\ UNCHANGED <<attempts, handoffs, held, request, ended>>

Expire(q) == ExpireAttempt(q) \/ ExpireHandoff(q) \/ ExpireIdle(q) \/ ExpireSignIn(q)

Layers(r)   == Arrive(r) \/ Identity(r) \/ Refuse(r) \/ Answer(r) \/ Fail(r)
Handlers(r) == \/ InsertAttempt(r) \/ RedeemAttempt(r) \/ Decline(r) \/ Authenticate(r)
               \/ InsertHandoff(r) \/ RedeemHandoff(r)
Sessioning(r) == Revoke(r) \/ Flush(r) \/ Login(r) \/ Save(r) \/ Activate(r)

\* Every request answered: the server waits for the next one.
AllAnswered == (\A r \in Requests : at[r] \in {"done", "failed"}) /\ UNCHANGED vars

Next ==
  \/ \E r \in Requests : Layers(r) \/ Handlers(r) \/ Sessioning(r) \/ Expire(r)
  \/ AllAnswered

Spec == Init /\ [][Next]_vars

-----------------------------------------------------------------------------
(* Properties.                                                             *)

\* Sign-ins: requests the provider vouched for, or that inherit it.
SignIns == {l \in Requests : acct[l] # None}

(* Types; and the rows that open access, handoffs and lifetimes come from  *)
(* sign-ins only.                                                          *)
TypeOK ==
  /\ record \in [Requests -> Records \cup {None}]
  /\ active \in [Requests -> SignIns \cup {None}]
  /\ attempts \subseteq Requests /\ handoffs \subseteq SignIns
  /\ held \in [Clients -> SUBSET Requests]
  /\ at \in [Requests -> Position]
  /\ call \in [Requests -> [kind : Kinds, client : Clients \cup {None}, asks : Ids]]
  /\ session \in [Requests -> Sessions]
  /\ won \in [Requests -> Ids] /\ acct \in [Requests -> Users]
  /\ lease \in [Requests -> SignIns \cup {None}]
  /\ ended \subseteq Requests

(* An attempt or a handoff is redeemed by at most one request, however many *)
(* callbacks and exchanges present it at once.                             *)
SingleUse ==
  \A r1, r2 \in Requests : won[r1] = won[r2] /\ won[r1] # None => r1 = r2

\* Who began the sign-in l.
Starter(l) ==
  CASE l \in Earlier              -> call[l].client
    [] call[l].kind = "exchange"  -> call[won[won[l]]].client
    [] OTHER                      -> call[won[l]].client

(* A session is given only to the client that began the sign-in, whoever    *)
(* opened the callback URL and whichever device got the handoff, and a      *)
(* request acts for an account only on a sign-in of its own client.         *)
SignInReturnsToStarter ==
  /\ \A s \in Requests : active[s] # None => Starter(active[s]) = call[active[s]].client
  /\ \A r \in Requests : lease[r] # None => call[lease[r]].client = call[r].client

(* The row of a first sign-in never stands without the record that makes it *)
(* usable: saves of older requests, cleanup and expiry cannot take it away. *)
(* (After a sign-in that kept its id they can: axum-login keeps the id of a *)
(* session that was signed in, and a late save then names the old account.) *)
RecordOutlivesLease ==
  \A s \in Requests :
    active[s] = s =>
      /\ record[s] # None
      /\ record[s].user = acct[s] /\ record[s].until = s

(* No request is given access through an id that was revoked and not signed *)
(* in again, even when a save in flight has restored its record            *)
(* (migrations/0001_auth.sql: "an independent authorization gate").        *)
NoAccessAfterLogout ==
  [][\A r \in Requests :
       lease[r] = None /\ lease'[r] # None => session[r].id \notin ended]_vars
=============================================================================
