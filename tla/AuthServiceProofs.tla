-------------------------- MODULE AuthServiceProofs --------------------------
(* What holds of sign-in for every number of requests, clients and accounts, *)
(* however their statements interleave, fail and expire: secrets are single  *)
(* use, a session goes to the client that began the sign-in, an id that was  *)
(* revoked opens nothing, and a first sign-in keeps its record.              *)
EXTENDS AuthService, TLAPS

-----------------------------------------------------------------------------
(* The inductive invariant.                                                  *)

Young     == {"idle", "loaded", "attempt", "redeem", "provider"}
SigningIn == {"login", "save", "activate"}
Revoked   == {"flush"} \cup SigningIn
Over      == {"answer", "done", "failed"}
Starts    == {"start", "startNative"}
Redeems   == {"callback", "exchange"}

\* What a request's position says of its route and of the account it signs in.
PosInv ==
  \A r \in Requests :
    /\ at[r] \in Young => acct[r] = None
    /\ at[r] \in {"handoff"} \cup SigningIn => acct[r] # None
    /\ at[r] \in {"revoke", "flush"} /\ call[r].kind # "logout" => acct[r] # None
    /\ at[r] = "attempt" => call[r].kind \in Starts
    /\ at[r] \in {"provider", "handoff"} => call[r].kind = "callback" /\ won[r] # None
    /\ acct[r] # None => r \in Earlier \/ (won[r] # None /\ call[r].kind \in Redeems)
    /\ r \in Earlier => at[r] = "done" /\ call[r].kind # "exchange"
    /\ at[r] \in Busy => call[r].client \in Clients

\* A secret is of a request that drew it and is over; it is redeemed only after
\* its answer, and then it is in no table.
SecretInv ==
  /\ \A q \in attempts : at[q] \in Over /\ call[q].kind \in Starts
  /\ \A h \in handoffs : at[h] \in Over /\ call[h].kind = "callback" /\ h \notin Earlier
  /\ \A r \in Requests : call[r].asks # None => at[call[r].asks] = "done"
  /\ \A r \in Requests :
       won[r] # None => at[won[r]] = "done" /\ won[r] \notin attempts \cup handoffs
  /\ SingleUse

\* A session id is known to one client, and to nobody before its answer.
HeldDone == \A c \in Clients : \A s \in held[c] : at[s] = "done"
HeldOnce == \A c, d \in Clients : \A s \in held[c] : s \in held[d] => c = d
HeldBy   == \A c \in Clients : \A s \in held[c] : acct[s] # None => call[s].client = c
IdKnown  ==
  \A r \in Requests :
    session[r].id # None =>
      \/ session[r].id = r
      \/ \E c \in Clients : call[r].client = c /\ session[r].id \in held[c]
UserHasId == \A r \in Requests : session[r].user # None => session[r].id # None
HeldInv  == HeldDone /\ HeldOnce /\ HeldBy /\ IdKnown /\ UserHasId

\* A binding stays with the client of the start that drew it.
BindDrawn ==
  /\ \A r \in Requests : session[r].bind # None => at[session[r].bind] \in Over
  /\ \A s \in Requests :
       record[s] # None /\ record[s].bind # None => at[record[s].bind] \in Over
BindCarried ==
  \A r \in Requests :
    session[r].bind \in attempts => call[session[r].bind].client = call[r].client
BindStored ==
  \A s \in Requests, c \in Clients :
    record[s] # None /\ record[s].bind \in attempts /\ s \in held[c] =>
      call[record[s].bind].client = c
BindInv == BindDrawn /\ BindCarried /\ BindStored

\* Who redeems an attempt or a handoff is the client that began.
ChainInv ==
  \A r \in Requests :
    /\ at[r] \in {"idle", "loaded", "redeem"} => won[r] = None
    /\ won[r] # None /\ call[r].kind = "callback" => call[won[r]].client = call[r].client
    /\ won[r] # None /\ call[r].kind = "exchange" =>
         won[won[r]] # None /\ call[won[won[r]]].client = call[r].client

\* An open row is of the client that signed in, and of no id that was revoked.
RowBy ==
  \A s \in Requests :
    active[s] # None =>
      \/ active[s] = s
      \/ \E c \in Clients : call[active[s]].client = c /\ s \in held[c]
LeaseBy ==
  \A r \in Requests :
    lease[r] # None => /\ at[r] \notin {"idle", "loaded"}
                       /\ call[lease[r]].client = call[r].client
EndedShut == \A s \in ended : active[s] = None
AccessInv == RowBy /\ LeaseBy /\ EndedShut

\* Between its save and the end of its lease, only requests that carry the same
\* account and lifetime can write the record of a first sign-in.
Good(s) == record[s] # None /\ record[s].user = acct[s] /\ record[s].until = s
OwnRow ==
  \A r \in Requests :
    active[r] = r => at[r] \in Over /\ (at[r] = "answer" => session[r].id = r)
RevokedRow ==
  \A r \in Requests :
    at[r] \in Revoked /\ session[r].id # None => active[session[r].id] # session[r].id
SignedIn ==
  \A r \in Requests :
    at[r] \in {"save", "activate"} => session[r].id # None /\ session[r].user = acct[r]
Saved ==
  \A r \in Requests :
    at[r] = "activate" => session[r].until = r /\ (session[r].id = r => Good(r))
Carried ==
  \A r, s \in Requests :
    active[s] = s /\ session[r].id = s =>
      /\ session[r].user = acct[s]
      /\ session[r].dirty \/ at[r] \notin {"loaded", "answer"} => session[r].until = s
RecordInv == OwnRow /\ RevokedRow /\ SignedIn /\ Saved /\ Carried /\ RecordOutlivesLease

IInv == /\ TypeOK /\ PosInv /\ SecretInv /\ HeldInv /\ BindInv /\ ChainInv
        /\ AccessInv /\ RecordInv

-----------------------------------------------------------------------------
(* Types and positions.                                                      *)

Calls == [kind : Kinds, client : Clients \cup {None}, asks : Ids]

\* A session or a call with new contents is one.
LEMMA SessionFields ==
  ASSUME NEW s \in Sessions, NEW i \in Ids, NEW a \in Users, NEW b \in Ids, NEW u \in Ids,
         NEW d \in BOOLEAN
  PROVE /\ [s EXCEPT !.until = u, !.dirty = d] \in Sessions
        /\ [s EXCEPT !.bind = b, !.dirty = d] \in Sessions
        /\ [s EXCEPT !.user = a, !.id = i] \in Sessions
        /\ [s EXCEPT !.id = i, !.until = u] \in Sessions
        /\ [s EXCEPT !.id = i, !.user = a, !.bind = b] \in Sessions
        /\ [s EXCEPT !.dirty = d] \in Sessions
        /\ NoSession \in Sessions /\ Stored(s) \in Records
<1> USE DEF Sessions
<1>1. [s EXCEPT !.until = u, !.dirty = d] \in Sessions
  OBVIOUS
<1>2. [s EXCEPT !.bind = b, !.dirty = d] \in Sessions
  OBVIOUS
<1>3. [s EXCEPT !.user = a, !.id = i] \in Sessions
  OBVIOUS
<1>4. [s EXCEPT !.id = i, !.until = u] \in Sessions
  OBVIOUS
<1>5. [s EXCEPT !.id = i, !.user = a, !.bind = b] \in Sessions
  OBVIOUS
<1>6. [s EXCEPT !.dirty = d] \in Sessions
  OBVIOUS
<1>7. NoSession \in Sessions /\ Stored(s) \in Records
  BY DEF NoSession, Stored, Records, Ids, Users
<1> QED
  BY <1>1, <1>2, <1>3, <1>4, <1>5, <1>6, <1>7

LEMMA CallFields ==
  ASSUME NEW c \in Calls
  PROVE [c EXCEPT !.asks = None] \in Calls /\ NoCall \in Calls
<1>1. [c EXCEPT !.asks = None] \in Calls
  BY DEF Calls, Ids
<1>2. NoCall \in Calls
  BY DEF Calls, NoCall, Kinds, Ids
<1> QED
  BY <1>1, <1>2

\* What a request loads is a session.
LEMMA LoadedFields ==
  ASSUME TypeOK, NEW s \in Ids
  PROVE /\ Loaded(s) \in Sessions
        /\ Loaded(s) = NoSession
           \/ /\ s # None /\ record[s] # None /\ Loaded(s).id = s
              /\ Loaded(s).user = record[s].user /\ Loaded(s).bind = record[s].bind
              /\ Loaded(s).until = None /\ Loaded(s).dirty = FALSE
<1>1. CASE s # None /\ record[s] # None
  <2>1. record[s] \in Records
    BY <1>1 DEF TypeOK, Ids
  <2>2. record[s].user \in Users /\ record[s].bind \in Ids
    BY <2>1 DEF Records
  <2>3. NoSession \in Sessions
    BY SessionFields, <2>2 DEF NoSession, Sessions, Ids, Users
  <2>4. Loaded(s) \in Sessions
    BY <1>1, <2>2, <2>3, SessionFields DEF Loaded
  <2> QED
    BY <1>1, <2>4 DEF Loaded, NoSession
<1>2. CASE ~(s # None /\ record[s] # None)
  <2>1. Loaded(s) = NoSession
    BY <1>2 DEF Loaded
  <2> QED
    BY <2>1 DEF NoSession, Sessions, Ids, Users
<1> QED
  BY <1>1, <1>2

\* A request that ends is forgotten.
LEMMA ForgetTypes ==
  ASSUME TypeOK, NEW r \in Requests, Forget(r)
  PROVE /\ session' \in [Requests -> Sessions]
        /\ call' \in [Requests -> Calls]
        /\ lease' \in [Requests -> SignIns \cup {None}]
<1>1. NoSession \in Sessions
  BY DEF NoSession, Sessions, Ids, Users
<1>2. call[r] \in Calls
  BY DEF TypeOK, Calls
<1>3. PICK c \in Calls : call' = [call EXCEPT ![r] = c]
  BY <1>2, CallFields DEF Forget
<1> QED
  BY <1>1, <1>3 DEF Forget, TypeOK, Calls

\* What a request forgets, and what of its call lasts.
LEMMA ForgetEffect ==
  ASSUME TypeOK, NEW r \in Requests, Forget(r)
  PROVE /\ session'[r].id = None /\ session'[r].user = None
        /\ session'[r].bind = None /\ session'[r].dirty = FALSE
        /\ lease'[r] = None /\ call'[r].asks = None
        /\ r \in attempts \/ acct[r] # None =>
             call'[r].kind = call[r].kind /\ call'[r].client = call[r].client
        /\ r \notin attempts /\ acct[r] = None =>
             call'[r].kind = "product" /\ call'[r].client = None
        /\ \A q \in Requests \ {r} :
             session'[q] = session[q] /\ lease'[q] = lease[q] /\ call'[q] = call[q]
<1>1. session' = [session EXCEPT ![r] = NoSession] /\ lease' = [lease EXCEPT ![r] = None]
  BY DEF Forget
<1>2. /\ session'[r].id = None /\ session'[r].user = None
      /\ session'[r].bind = None /\ session'[r].dirty = FALSE /\ lease'[r] = None
      /\ \A q \in Requests \ {r} : session'[q] = session[q] /\ lease'[q] = lease[q]
  BY <1>1 DEF TypeOK, NoSession
<1>3. CASE r \in attempts \/ acct[r] # None
  <2>1. call' = [call EXCEPT ![r] = [call[r] EXCEPT !.asks = None]]
    BY <1>3 DEF Forget
  <2>2. call[r] \in Calls
    BY DEF TypeOK, Calls
  <2> QED
    BY <1>2, <1>3, <2>1, <2>2 DEF TypeOK, Calls
<1>4. CASE ~(r \in attempts \/ acct[r] # None)
  <2>1. call' = [call EXCEPT ![r] = NoCall]
    BY <1>4 DEF Forget
  <2> QED
    BY <1>2, <1>4, <2>1 DEF TypeOK, NoCall
<1> QED
  BY <1>3, <1>4

\* Request r arrives as client c, for k, with id s and secret q.
Carries(r, k, c, s, q) ==
  /\ call'[r].kind = k /\ call'[r].client = c /\ call'[r].asks = q
  /\ session'[r].dirty = FALSE /\ session'[r].until = None
  /\ \/ session'[r].id = None /\ session'[r].user = None /\ session'[r].bind = None
     \/ /\ s \in held[c] /\ s \in Requests /\ record[s] # None
        /\ session'[r].id = s /\ session'[r].user = record[s].user
        /\ session'[r].bind = record[s].bind

\* A request comes with an id that its client was given, or with none.
LEMMA ArriveEffect ==
  ASSUME TypeOK, NEW r \in Requests, Arrive(r)
  PROVE /\ at[r] = "idle" /\ at' = [at EXCEPT ![r] = "loaded"]
        /\ \E k \in Routes, c \in Clients :
             \E s \in held[c] \cup {None}, q \in Known(k) : Carries(r, k, c, s, q)
        /\ \A q \in Requests \ {r} : session'[q] = session[q] /\ call'[q] = call[q]
        /\ UNCHANGED <<record, active, attempts, handoffs, held, won, acct, lease, ended>>
<1>1. PICK k \in Routes, c \in Clients : \E s \in held[c] \cup {None}, q \in Known(k) :
        /\ call' = [call EXCEPT ![r] = [kind |-> k, client |-> c, asks |-> q]]
        /\ session' = [session EXCEPT ![r] = Loaded(s)]
  BY DEF Arrive
<1>2. PICK s \in held[c] \cup {None}, q \in Known(k) :
        /\ call' = [call EXCEPT ![r] = [kind |-> k, client |-> c, asks |-> q]]
        /\ session' = [session EXCEPT ![r] = Loaded(s)]
  BY <1>1
<1>3. call'[r].kind = k /\ call'[r].client = c /\ call'[r].asks = q /\ session'[r] = Loaded(s)
  BY <1>2 DEF TypeOK
<1>4. s \in Ids /\ (s # None => s \in held[c] /\ s \in Requests)
  BY DEF TypeOK, Ids
<1>5. /\ session'[r].dirty = FALSE /\ session'[r].until = None
      /\ \/ session'[r].id = None /\ session'[r].user = None /\ session'[r].bind = None
         \/ /\ s \in held[c] /\ s \in Requests /\ record[s] # None
            /\ session'[r].id = s /\ session'[r].user = record[s].user
            /\ session'[r].bind = record[s].bind
  <2>1. CASE Loaded(s) = NoSession
    BY <1>3, <2>1 DEF NoSession
  <2>2. CASE Loaded(s) # NoSession
    <3>1. /\ s # None /\ record[s] # None /\ Loaded(s).id = s
          /\ Loaded(s).user = record[s].user /\ Loaded(s).bind = record[s].bind
          /\ Loaded(s).until = None /\ Loaded(s).dirty = FALSE
      BY <1>4, <2>2, LoadedFields
    <3> QED
      BY <1>3, <1>4, <3>1
  <2> QED
    BY <2>1, <2>2
<1>6. \A q1 \in Requests \ {r} : session'[q1] = session[q1] /\ call'[q1] = call[q1]
  BY <1>2 DEF TypeOK
<1> QED
  BY <1>3, <1>5, <1>6 DEF Arrive, Carries, Advance, tables

\* Logout empties the session, a sign-in only takes its binding.
LEMMA FlushEffect ==
  ASSUME TypeOK, NEW r \in Requests, Flush(r)
  PROVE /\ session'[r].bind = None /\ session'[r].dirty = TRUE
        /\ call[r].kind = "logout" => session'[r].id = None /\ session'[r].user = None
        /\ call[r].kind # "logout" =>
             session'[r].id = session[r].id /\ session'[r].user = session[r].user
        /\ \A q \in Requests \ {r} : session'[q] = session[q]
<1>1. session[r] \in Sessions /\ NoSession \in Sessions
  BY DEF TypeOK, NoSession, Sessions, Ids, Users
<1>2. CASE call[r].kind = "logout"
  <2>1. session' = [session EXCEPT ![r] = [NoSession EXCEPT !.dirty = TRUE]]
    BY <1>2 DEF Flush
  <2> QED
    BY <1>2, <2>1 DEF NoSession, TypeOK
<1>3. CASE call[r].kind # "logout"
  <2>1. session' = [session EXCEPT ![r] = [session[r] EXCEPT !.bind = None, !.dirty = TRUE]]
    BY <1>3 DEF Flush
  <2> QED
    BY <1>1, <1>3, <2>1 DEF TypeOK, Sessions
<1> QED
  BY <1>2, <1>3

\* The expiry of the lease is all that changes for later.
LEMMA IdentityEffect ==
  ASSUME TypeOK, NEW r \in Requests, Identity(r)
  PROVE /\ session'[r].id = session[r].id /\ session'[r].user = session[r].user
        /\ session'[r].until = LeaseOf(session[r]) /\ session'[r].bind = session[r].bind
<1> DEFINE s == [session[r] EXCEPT !.until = LeaseOf(session[r]),
                                   !.dirty = (LeaseOf(session[r]) # None)]
<1>1. session' = [session EXCEPT ![r] = s]
  BY Zenon DEF Identity
<1>2. /\ s.id = session[r].id /\ s.user = session[r].user
      /\ s.until = LeaseOf(session[r]) /\ s.bind = session[r].bind
  BY DEF TypeOK, Sessions
<1> QED
  BY <1>1, <1>2 DEF TypeOK

\* What an answer saves: the session under its id, which the client may take.
Saves(r, id) ==
  /\ session[r].dirty /\ id = IF session[r].id = None THEN r ELSE session[r].id
  /\ record'[id] # None /\ record'[id].user = session[r].user
  /\ record'[id].bind = session[r].bind /\ record'[id].until = session[r].until
  /\ \A s \in Requests \ {id} : record'[s] = record[s]
  /\ \A c \in Clients : held[c] \subseteq held'[c]
  /\ \A c \in Clients : \A s \in held'[c] : s \in held[c] \/ (c = call[r].client /\ s = id)

LEMMA AnswerEffect ==
  ASSUME TypeOK, PosInv, NEW r \in Requests, Answer(r)
  PROVE /\ at[r] = "answer" /\ at' = [at EXCEPT ![r] = "done"]
        /\ call[r].client \in Clients
        /\ UNCHANGED <<active, attempts, handoffs, won, acct, ended>>
        /\ \/ record' = record /\ held' = held
           \/ \E id \in Requests : Saves(r, id)
<1>1. /\ at[r] = "answer" /\ at' = [at EXCEPT ![r] = "done"]
      /\ UNCHANGED <<active, attempts, handoffs, won, acct, ended>>
  BY DEF Answer, Advance
<1>2. call[r].client \in Clients
  BY <1>1 DEF PosInv, Busy, Position
<1> DEFINE id == IF session[r].id = None THEN r ELSE session[r].id
           x  == Stored(session[r])
<1>3. CASE /\ session[r].dirty /\ record' = [record EXCEPT ![id] = x]
           /\ \E got \in {{}, {id}} :
                held' = [held EXCEPT ![call[r].client] = @ \cup got]
  <2>1. id \in Requests /\ session[r] \in Sessions
    BY DEF TypeOK, Sessions, Ids
  <2>2. /\ x \in Records /\ x.user = session[r].user
        /\ x.bind = session[r].bind /\ x.until = session[r].until
    BY <2>1 DEF Stored, Records, Sessions
  <2>3. x # None
    BY <2>2, RecordAssumption
  <2>4. /\ record'[id] = x
        /\ \A s \in Requests \ {id} : record'[s] = record[s]
    BY <1>3, <2>1 DEF TypeOK
  <2>5. /\ \A c \in Clients : held[c] \subseteq held'[c]
        /\ \A c \in Clients : \A s \in held'[c] : s \in held[c] \/ (c = call[r].client /\ s = id)
    BY <1>2, <1>3, <2>1 DEF TypeOK
  <2>6. Saves(r, id)
    BY <1>3, <2>2, <2>3, <2>4, <2>5 DEF Saves
  <2> QED
    BY <1>1, <1>2, <2>1, <2>6
<1> QED
  BY <1>1, <1>2, <1>3 DEF Answer

LEMMA TypeStep ==
  ASSUME TypeOK, PosInv,
         NEW r \in Requests, Layers(r) \/ Handlers(r) \/ Sessioning(r)
  PROVE TypeOK'
<1> USE AuthAssumption DEF Advance
<1>1. CASE Arrive(r)
  <2>1. PICK k \in Routes, c \in Clients : \E s \in held[c] \cup {None}, q \in Known(k) :
           /\ call' = [call EXCEPT ![r] = [kind |-> k, client |-> c, asks |-> q]]
           /\ session' = [session EXCEPT ![r] = Loaded(s)]
    BY <1>1 DEF Arrive
  <2>2. PICK s \in held[c] \cup {None}, q \in Known(k) :
           /\ call' = [call EXCEPT ![r] = [kind |-> k, client |-> c, asks |-> q]]
           /\ session' = [session EXCEPT ![r] = Loaded(s)]
    BY <2>1
  <2>3. Loaded(s) \in Sessions
    BY LoadedFields DEF TypeOK, Ids
  <2>4. [kind |-> k, client |-> c, asks |-> q] \in Calls
    BY DEF Calls, Known, Ids, Kinds
  <2> QED
    BY <1>1, <2>2, <2>3, <2>4 DEF Arrive, TypeOK, Calls, tables, SignIns, Position
<1>2. CASE Identity(r)
  <2> DEFINE l == LeaseOf(session[r])
             s == [session[r] EXCEPT !.until = l, !.dirty = (l # None)]
  <2>1. l \in SignIns \cup {None} /\ l \in Ids /\ (l # None) \in BOOLEAN
    BY DEF LeaseOf, TypeOK, Sessions, SignIns, Ids
  <2>2. s \in Sessions
    BY ZenonT(30), <2>1, SessionFields DEF TypeOK
  <2>3. session' = [session EXCEPT ![r] = s]
    BY <1>2, Zenon DEF Identity
  <2>4. Handler(call[r].kind) \in Position
    BY DEF Handler, Position
  <2> HIDE DEF s
  <2>5. lease' \in [Requests -> SignIns \cup {None}]
    BY <1>2, <2>1 DEF Identity, TypeOK
  <2>6. session' \in [Requests -> Sessions]
    BY <2>2, <2>3 DEF TypeOK
  <2>7. at' \in [Requests -> Position]
    BY <1>2, <2>4 DEF Identity, TypeOK
  <2> QED
    BY <1>2, <2>5, <2>6, <2>7 DEF Identity, TypeOK, Calls, tables, SignIns
<1>3. CASE Refuse(r)
  BY <1>3 DEF Refuse, PosInv, TypeOK, SignIns,
              Ids, Users, Sessions, Position, Young, SigningIn, HandoffMatches, tables
<1>4. CASE Answer(r)
  <2>1. Forget(r)
    BY <1>4 DEF Answer
  <2>2. record' \in [Requests -> Records \cup {None}]
    <3>1. Stored(session[r]) \in Records
      BY SessionFields DEF TypeOK, Ids, Users
    <3> QED
      BY <1>4, <3>1 DEF Answer, TypeOK, tables
  <2>3. held' \in [Clients -> SUBSET Requests]
    BY <1>4 DEF Answer, TypeOK, Sessions, Ids
  <2> QED
    BY <1>4, <2>1, <2>2, <2>3, ForgetTypes
       DEF Answer, TypeOK, Calls, tables, SignIns, Position
<1>5. CASE Fail(r)
  <2>1. Forget(r)
    BY <1>5 DEF Fail
  <2>2. record' \in [Requests -> Records \cup {None}]
    <3>1. Stored(session[r]) \in Records
      BY SessionFields DEF TypeOK, Ids, Users
    <3> QED
      BY <1>5, <3>1 DEF Fail, TypeOK, tables
  <2>3. held' \in [Clients -> SUBSET Requests]
    BY <1>5 DEF Fail, TypeOK, Sessions, Ids
  <2> QED
    BY <1>5, <2>1, <2>2, <2>3, ForgetTypes
       DEF Fail, TypeOK, Calls, tables, SignIns, Position
<1>6. CASE InsertAttempt(r)
  <2> DEFINE s == [session[r] EXCEPT !.bind = r, !.dirty = TRUE]
  <2>1. s \in Sessions
    BY SessionFields DEF TypeOK, Ids
  <2>2. session' = [session EXCEPT ![r] = s]
    BY <1>6, Zenon DEF InsertAttempt
  <2> HIDE DEF s
  <2>9. session' \in [Requests -> Sessions]
    BY <2>1, <2>2 DEF TypeOK
  <2> QED
    BY <1>6, <2>9 DEF InsertAttempt, TypeOK, SignIns, Ids, Position
<1>7. CASE RedeemAttempt(r)
  <2> DEFINE s == [session[r] EXCEPT !.bind = None, !.dirty = TRUE]
  <2>1. s \in Sessions
    BY SessionFields DEF TypeOK, Ids
  <2>2. session' = session \/ session' = [session EXCEPT ![r] = s]
    BY <1>7, Zenon DEF RedeemAttempt
  <2> HIDE DEF s
  <2>9. session' \in [Requests -> Sessions]
    BY <2>1, <2>2 DEF TypeOK
  <2> QED
    BY <1>7, <2>9 DEF RedeemAttempt, TypeOK, SignIns, Ids, Position
<1>8. CASE Decline(r)
  BY <1>8 DEF Decline, PosInv, TypeOK, SignIns,
              Ids, Users, Sessions, Position, Young, SigningIn, HandoffMatches, tables
<1>9. CASE Authenticate(r)
  BY <1>9 DEF Authenticate, PosInv, TypeOK, SignIns,
              Ids, Users, Sessions, Position, Young, SigningIn, HandoffMatches, tables
<1>10. CASE InsertHandoff(r)
  BY <1>10 DEF InsertHandoff, PosInv, TypeOK, SignIns,
              Ids, Users, Sessions, Position, Young, SigningIn, HandoffMatches, tables
<1>11. CASE RedeemHandoff(r)
  BY <1>11 DEF RedeemHandoff, PosInv, TypeOK, SignIns,
              Ids, Users, Sessions, Position, Young, SigningIn, HandoffMatches, tables
<1>12. CASE Revoke(r)
  BY <1>12 DEF Revoke, PosInv, TypeOK, SignIns,
              Ids, Users, Sessions, Position, Young, SigningIn, HandoffMatches, tables
<1>13. CASE Flush(r)
  <2> DEFINE s == [session[r] EXCEPT !.bind = None, !.dirty = TRUE]
             n == [NoSession EXCEPT !.dirty = TRUE]
  <2>1. s \in Sessions /\ n \in Sessions
    <3>1. /\ NoSession \in Sessions /\ session[r] \in Sessions
          /\ None \in Ids /\ None \in Users /\ TRUE \in BOOLEAN
      BY DEF TypeOK, Ids, Users, NoSession, Sessions
    <3>2. n \in Sessions
      BY <3>1, SessionFields
    <3> QED
      BY <3>1, <3>2, SessionFields
  <2>2. session' = [session EXCEPT ![r] = n] \/ session' = [session EXCEPT ![r] = s]
    BY <1>13 DEF Flush
  <2> HIDE DEF s, n
  <2>9. session' \in [Requests -> Sessions]
    BY <2>1, <2>2 DEF TypeOK
  <2> QED
    BY <1>13, <2>9 DEF Flush, TypeOK, SignIns, Ids, Position
<1>14. CASE Login(r)
  <2> DEFINE i == IF session[r].user = None THEN r ELSE session[r].id
             s == [session[r] EXCEPT !.user = acct[r], !.id = i]
  <2>1. s \in Sessions
    <3>1. i \in Ids /\ acct[r] \in Users
      BY DEF TypeOK, Ids, Sessions
    <3> QED
      BY <3>1, SessionFields DEF TypeOK
  <2>2. session' = [session EXCEPT ![r] = s]
    BY <1>14, Zenon DEF Login
  <2> HIDE DEF s
  <2>9. session' \in [Requests -> Sessions]
    BY <2>1, <2>2 DEF TypeOK
  <2> QED
    BY <1>14, <2>9 DEF Login, TypeOK, SignIns, Ids, Position
<1>15. CASE Save(r)
  <2> DEFINE i == IF record[session[r].id] = None THEN session[r].id ELSE r
             s == [session[r] EXCEPT !.id = i, !.until = r]
  <2>1. s \in Sessions
    <3>1. i \in Ids
      BY DEF TypeOK, Ids, Sessions
    <3> QED
      BY ZenonT(30), <3>1, SessionFields DEF TypeOK, Ids
  <2>2. session' = [session EXCEPT ![r] = s] /\ record' = [record EXCEPT ![i] = Stored(s)]
    BY <1>15, Zenon DEF Save
  <2>3. Stored(s) \in Records
    BY <2>1, SessionFields, AuthAssumption DEF Ids, Users
  <2>4. record' \in [Requests -> Records \cup {None}]
    BY <2>2, <2>3 DEF TypeOK
  <2> HIDE DEF s
  <2>9. session' \in [Requests -> Sessions]
    BY <2>1, <2>2 DEF TypeOK
  <2> QED
    BY <1>15, <2>4, <2>9 DEF Save, TypeOK, SignIns, Ids, Position
<1>16. CASE Activate(r)
  BY <1>16 DEF Activate, PosInv, TypeOK, SignIns,
              Ids, Users, Sessions, Position, Young, SigningIn, HandoffMatches, tables
<1> QED
  BY <1>1, <1>2, <1>3, <1>4, <1>5, <1>6, <1>7, <1>8, <1>9, <1>10, <1>11, <1>12, <1>13,
     <1>14, <1>15, <1>16
     DEF Layers, Handlers, Sessioning

\* A request that is over stays over, and a step of another leaves it alone.
LEMMA Others ==
  ASSUME TypeOK, PosInv, NEW r \in Requests, Layers(r) \/ Handlers(r) \/ Sessioning(r)
  PROVE /\ at[r] \notin {"done", "failed"}
        /\ \A q \in Requests \ {r} : at'[q] = at[q]
        /\ \A q \in Requests : at[q] \in Over => at'[q] \in Over
        /\ at[r] = "answer" => at'[r] \in {"done", "failed"}
<1>1. CASE Layers(r)
  BY <1>1 DEF Layers, Arrive, Identity, Refuse, Answer, Fail, Advance, TypeOK, Over, Busy,
         Position
<1>2. CASE Handlers(r)
  BY <1>2 DEF Handlers, InsertAttempt, RedeemAttempt, Decline, Authenticate, InsertHandoff,
              RedeemHandoff, Advance, TypeOK, Over
<1>3. CASE Sessioning(r)
  BY <1>3 DEF Sessioning, Revoke, Flush, Login, Save, Activate, Advance, TypeOK, Over
<1> QED
  BY <1>1, <1>2, <1>3

\* What a session and a record may name.
LEMMA Fields ==
  ASSUME TypeOK
  PROVE /\ \A r \in Requests : /\ session[r].bind \in Ids /\ session[r].id \in Ids
                               /\ session[r].user \in Users /\ session[r].until \in Ids
        /\ \A s \in Requests : record[s] # None =>
             /\ record[s].bind \in Ids /\ record[s].user \in Users /\ record[s].until \in Ids
BY DEF TypeOK, Sessions, Records

\* Login keeps the id of a session that was signed in and draws one otherwise.
LEMMA LoginEffect ==
  ASSUME TypeOK, NEW r \in Requests, Login(r)
  PROVE /\ session'[r].id = IF session[r].user = None THEN r ELSE session[r].id
        /\ session'[r].user = acct[r] /\ session'[r].bind = session[r].bind
        /\ \A s \in Requests : s # session[r].id => record'[s] = record[s]
<1> DEFINE i == IF session[r].user = None THEN r ELSE session[r].id
           s == [session[r] EXCEPT !.user = acct[r], !.id = i]
<1>1. session' = [session EXCEPT ![r] = s]
  BY Zenon DEF Login
<1>2. s.id = i /\ s.user = acct[r] /\ s.bind = session[r].bind
  BY DEF TypeOK, Sessions
<1> QED
  BY <1>1, <1>2 DEF TypeOK, Login

\* A sign-in saves its session under a lifetime of its own.
LEMMA SaveEffect ==
  ASSUME TypeOK, NEW r \in Requests, session[r].id # None, Save(r)
  PROVE /\ session'[r].user = session[r].user /\ session'[r].until = r
        /\ session'[r].id \in Requests
        /\ session'[r].id = r \/ (session'[r].id = session[r].id /\ record[session[r].id] = None)
        /\ record'[session'[r].id] # None
        /\ record'[session'[r].id].user = session[r].user
        /\ record'[session'[r].id].until = r
        /\ session'[r].bind = session[r].bind
        /\ record'[session'[r].id].bind = session[r].bind
        /\ \A s \in Requests : s # session'[r].id => record'[s] = record[s]
<1> DEFINE i == IF record[session[r].id] = None THEN session[r].id ELSE r
           s == [session[r] EXCEPT !.id = i, !.until = r]
           x == Stored(s)
<1>1. session' = [session EXCEPT ![r] = s] /\ record' = [record EXCEPT ![i] = x]
  BY Zenon DEF Save
<1>2. i \in Requests /\ i \in Ids /\ r \in Ids
  BY Fields DEF Ids
<1>3. s \in Sessions /\ s.id = i /\ s.user = session[r].user /\ s.until = r
      /\ s.bind = session[r].bind
  BY <1>2 DEF TypeOK, Sessions
<1>4. x \in Records /\ x.user = session[r].user /\ x.until = r
      /\ x.bind = session[r].bind
  BY <1>3 DEF Stored, Records, Sessions
<1> HIDE DEF s, x
<1>5. session'[r] = s /\ record'[i] = x /\ \A t \in Requests : t # i => record'[t] = record[t]
  BY <1>1, <1>2 DEF TypeOK
<1> QED
  BY <1>2, <1>3, <1>4, <1>5, RecordAssumption

\* Which actions write what.
LEMMA Writes ==
  ASSUME TypeOK, PosInv, NEW r \in Requests, Layers(r) \/ Handlers(r) \/ Sessioning(r)
  PROVE /\ Revoke(r) \/ Activate(r) \/ (active' = active /\ ended' = ended)
        /\ Answer(r) \/ Flush(r) \/ Login(r) \/ Save(r) \/ record' = record
        /\ Answer(r) \/ Save(r) \/ \A s \in Requests : record'[s] # None => record'[s] = record[s]
        /\ Answer(r) \/ held' = held
        /\ InsertAttempt(r) \/ attempts' \subseteq attempts
        /\ Arrive(r) \/ InsertAttempt(r) \/ session'[r].bind \in {session[r].bind, None}
        /\ Identity(r) \/ Answer(r) \/ Fail(r) \/ lease' = lease
        /\ Arrive(r) \/ Answer(r) \/ Fail(r) \/ call' = call
        /\ Arrive(r) \/ at'[r] \notin {"idle", "loaded"}
        /\ at'[r] = "redeem" => at[r] = "loaded"
        /\ \/ at[r] \in {"redeem", "provider"} /\ \A q \in Requests \ {r} : acct'[q] = acct[q]
           \/ acct' = acct
        /\ RedeemAttempt(r) \/ RedeemHandoff(r) \/ won' = won
        /\ \/ Arrive(r) \/ Answer(r) \/ Fail(r) \/ Flush(r) \/ Login(r) \/ Save(r)
           \/ session'[r].id = session[r].id /\ session'[r].user = session[r].user
        /\ \A q \in Requests \ {r} : session'[q] = session[q] /\ call'[q] = call[q]
<1>1. CASE Layers(r)
  <2>1. Answer(r) \/ Fail(r) => /\ session'[r].bind = None
                                /\ \A q \in Requests \ {r} : /\ session'[q] = session[q]
                                                             /\ call'[q] = call[q]
    BY ForgetEffect DEF Answer, Fail
  <2>2. CASE Arrive(r)
    BY <2>2, ArriveEffect DEF TypeOK
  <2>3. CASE Identity(r)
    BY <2>3, IdentityEffect DEF Identity, TypeOK, tables, Advance, Handler
  <2>4. CASE Refuse(r)
    BY <2>4 DEF Refuse, tables, Advance, TypeOK
  <2>5. CASE Answer(r)
    BY <2>1, <2>5 DEF Answer, Advance, TypeOK
  <2>6. CASE Fail(r)
    BY <2>1, <2>6 DEF Fail, tables, TypeOK
  <2> QED
    BY <1>1, <2>2, <2>3, <2>4, <2>5, <2>6 DEF Layers
<1>2. CASE Handlers(r)
  <2>1. /\ session'[r].id = session[r].id /\ session'[r].user = session[r].user
        /\ InsertAttempt(r) \/ session'[r].bind \in {session[r].bind, None}
    BY <1>2
       DEF Handlers, InsertAttempt, RedeemAttempt, Decline, Authenticate, InsertHandoff,
                RedeemHandoff, TypeOK, Sessions
  <2>2. \A q \in Requests \ {r} : session'[q] = session[q]
    BY <1>2 DEF Handlers, InsertAttempt, RedeemAttempt, Decline, Authenticate, InsertHandoff,
                RedeemHandoff, TypeOK
  <2>3. CASE RedeemAttempt(r) \/ RedeemHandoff(r)
    BY <2>1, <2>2, <2>3 DEF RedeemAttempt, RedeemHandoff, Advance, TypeOK
  <2>4. CASE InsertAttempt(r) \/ Decline(r)
    BY <2>1, <2>2, <2>4 DEF InsertAttempt, Decline, Advance, TypeOK, tables
  <2>5. CASE Authenticate(r) \/ InsertHandoff(r)
    BY <2>1, <2>2, <2>5 DEF Authenticate, InsertHandoff, Advance, TypeOK, tables
  <2> QED
    BY <1>2, <2>3, <2>4, <2>5 DEF Handlers
<1>3. CASE Sessioning(r)
  <2>1. session'[r].bind \in {session[r].bind, None}
    <3>1. CASE Flush(r)
      BY <3>1, FlushEffect
    <3>2. CASE Login(r)
      BY <3>2, LoginEffect
    <3>3. CASE Save(r)
      <4> DEFINE x == [session[r] EXCEPT !.id = IF record[session[r].id] = None
                                                THEN session[r].id ELSE r, !.until = r]
      <4>1. x.bind = session[r].bind
        BY DEF TypeOK, Sessions
      <4>2. session' = [session EXCEPT ![r] = x]
        BY <3>3, Zenon DEF Save
      <4> QED
        BY <4>1, <4>2 DEF TypeOK
    <3> QED
      BY <1>3, <3>1, <3>2, <3>3 DEF Sessioning, Revoke, Activate
  <2> QED
    BY <1>3, <2>1 DEF Sessioning, Revoke, Flush, Login, Save, Activate, Advance, TypeOK
<1> QED
  BY <1>1, <1>2, <1>3

\* A sign-in lasts, with the client it is of.
LEMMA SignInLasts ==
  ASSUME TypeOK, PosInv, NEW r \in Requests, Layers(r) \/ Handlers(r) \/ Sessioning(r)
  PROVE \A l \in SignIns :
          acct'[l] = acct[l] /\ call'[l].client = call[l].client /\ call'[l].kind = call[l].kind
<1> SUFFICES ASSUME NEW l \in SignIns
             PROVE  /\ acct'[l] = acct[l] /\ call'[l].client = call[l].client
                    /\ call'[l].kind = call[l].kind
  OBVIOUS
<1>1. acct'[l] = acct[l]
  BY Writes DEF SignIns, PosInv, Young
<1>2. CASE l # r
  BY <1>1, <1>2, Writes DEF SignIns
<1>3. CASE l = r
  <2>1. CASE Arrive(r)
    BY <1>3, <2>1, ArriveEffect DEF SignIns, PosInv, Young
  <2>2. CASE Answer(r) \/ Fail(r)
    BY <1>1, <1>3, <2>2, ForgetEffect DEF SignIns, Answer, Fail
  <2> QED
    BY <1>1, <2>1, <2>2, Writes
<1> QED
  BY <1>2, <1>3

\* A request moves on as its route has it.
LEMMA PosStep ==
  ASSUME TypeOK, PosInv, TypeOK',
         NEW r \in Requests, Layers(r) \/ Handlers(r) \/ Sessioning(r)
  PROVE PosInv'
<1> USE AuthAssumption DEF TypeOK, SignIns, Ids, Users, Young, SigningIn, Starts, Redeems, Busy,
        Position, Kinds
<1>1. CASE Arrive(r)
  BY <1>1 DEF Arrive, PosInv, Advance, tables, Young, SigningIn, Starts, Redeems, Busy,
         Position
<1>2. CASE Identity(r)
  BY <1>2 DEF Identity, PosInv, Advance, tables, Handler
<1>3. CASE Refuse(r)
  BY <1>3 DEF Refuse, PosInv, Advance, tables
<1>4. CASE Answer(r)
  BY <1>4 DEF Answer, PosInv, Advance, tables, Forget, NoCall
<1>5. CASE Fail(r)
  BY <1>5 DEF Fail, PosInv, Advance, tables, Forget, NoCall
<1>6. CASE InsertAttempt(r)
  BY <1>6 DEF InsertAttempt, PosInv, Advance, tables
<1>7. CASE RedeemAttempt(r)
  BY <1>7 DEF RedeemAttempt, PosInv, Advance, tables, AttemptMatches
<1>8. CASE Decline(r)
  BY <1>8 DEF Decline, PosInv, Advance, tables
<1>9. CASE Authenticate(r)
  BY <1>9 DEF Authenticate, PosInv, Advance, tables
<1>10. CASE InsertHandoff(r)
  BY <1>10 DEF InsertHandoff, PosInv, Advance, tables
<1>11. CASE RedeemHandoff(r)
  <2>1. /\ at[r] = "redeem" /\ UNCHANGED call /\ call[r].kind = "exchange"
        /\ \A q \in Requests \ {r} : at'[q] = at[q] /\ acct'[q] = acct[q] /\ won'[q] = won[q]
        /\ \/ at'[r] = "revoke" /\ won'[r] = call[r].asks /\ acct'[r] = acct[call[r].asks]
              /\ call[r].asks \in handoffs
           \/ at'[r] = "answer" /\ won'[r] = None /\ acct'[r] = None
    BY <1>11 DEF RedeemHandoff, Advance, HandoffMatches
  <2>2. \A h \in handoffs : h # None /\ acct[h] # None
    OBVIOUS
  <2> QED
    BY <2>1, <2>2 DEF PosInv
<1>12. CASE Revoke(r)
  BY <1>12 DEF Revoke, PosInv, Advance, tables
<1>13. CASE Flush(r)
  BY <1>13 DEF Flush, PosInv, Advance, tables
<1>14. CASE Login(r)
  BY <1>14 DEF Login, PosInv, Advance, tables
<1>15. CASE Save(r)
  BY <1>15 DEF Save, PosInv, Advance, tables
<1>16. CASE Activate(r)
  BY <1>16 DEF Activate, PosInv, Advance, tables
<1> QED
  BY <1>1, <1>2, <1>3, <1>4, <1>5, <1>6, <1>7, <1>8,
     <1>9, <1>10, <1>11, <1>12, <1>13, <1>14, <1>15, <1>16
     DEF Layers, Handlers, Sessioning

\* A secret is drawn by a request that is not over, and taken by one.
LEMMA SecretStep ==
  ASSUME TypeOK, PosInv, SecretInv, TypeOK',
         NEW r \in Requests, Layers(r) \/ Handlers(r) \/ Sessioning(r)
  PROVE SecretInv'
<1> USE AuthAssumption DEF TypeOK, SignIns, Ids, Users
<1>1. CASE Arrive(r)
  BY <1>1
     DEF Arrive, SecretInv, SingleUse, PosInv, Advance, tables, Over, Busy, Starts, Young,
         Known
<1>2. CASE Identity(r)
  BY <1>2 DEF Identity, SecretInv, SingleUse, PosInv, Advance, tables, Over, Busy, Starts,
         Young
<1>3. CASE Refuse(r)
  BY <1>3
     DEF Refuse, SecretInv, SingleUse, PosInv, Advance, tables, Over, Busy, Starts, Young
<1>4. CASE Answer(r)
  BY <1>4
     DEF Answer, SecretInv, SingleUse, PosInv, Advance, tables, Over, Busy, Starts, Young,
         Forget, NoCall
<1>5. CASE Fail(r)
  BY <1>5
     DEF Fail, SecretInv, SingleUse, PosInv, Advance, tables, Over, Busy, Starts, Young,
         Forget, NoCall
<1>6. CASE InsertAttempt(r)
  BY <1>6
     DEF InsertAttempt, SecretInv, SingleUse, PosInv, Advance, tables, Over, Busy, Starts,
         Young
<1>7. CASE RedeemAttempt(r)
  <2> DEFINE q == call[r].asks
  <2>1. /\ at[r] = "redeem" /\ at' \in {[at EXCEPT ![r] = "provider"], [at EXCEPT ![r] = "answer"]}
        /\ UNCHANGED <<call, handoffs>> /\ attempts' \subseteq attempts
        /\ \A p \in Requests \ {r} : won'[p] = won[p]
        /\ won'[r] = None \/ (won'[r] = q /\ q \in attempts /\ q \notin attempts')
    BY ZenonT(30), <1>7 DEF RedeemAttempt, Advance, AttemptMatches
  <2>2. \A p \in Requests \ {r} : at'[p] = at[p]
    BY <2>1
  <2>3. at[r] \notin Over /\ r \notin attempts \cup handoffs
    BY <2>1 DEF SecretInv, Over
  <2>4. /\ \A p \in attempts' : at'[p] \in Over /\ call'[p].kind \in Starts
        /\ \A h \in handoffs' : at'[h] \in Over /\ call'[h].kind = "callback" /\ h \notin Earlier
    BY <2>1, <2>2, <2>3 DEF SecretInv
  <2>5. \A p \in Requests : call'[p].asks # None => at'[call'[p].asks] = "done"
    BY <2>1, <2>2 DEF SecretInv
  <2>6. q \in attempts \cup handoffs => at[q] = "done" /\ q \notin attempts \cap handoffs
    BY DEF SecretInv, Starts
  <2>7. \A p \in Requests : won'[p] # None =>
          at'[won'[p]] = "done" /\ won'[p] \notin attempts' \cup handoffs'
    BY <2>1, <2>2, <2>6 DEF SecretInv
  <2>8. SingleUse'
    BY <2>1 DEF SecretInv, SingleUse
  <2> QED
    BY <2>4, <2>5, <2>7, <2>8 DEF SecretInv
<1>8. CASE Decline(r)
  BY <1>8
     DEF Decline, SecretInv, SingleUse, PosInv, Advance, tables, Over, Busy, Starts, Young
<1>9. CASE Authenticate(r)
  BY <1>9
     DEF Authenticate, SecretInv, SingleUse, PosInv, Advance, tables, Over, Busy, Starts,
         Young
<1>10. CASE InsertHandoff(r)
  BY <1>10
     DEF InsertHandoff, SecretInv, SingleUse, PosInv, Advance, tables, Over, Busy, Starts,
         Young
<1>11. CASE RedeemHandoff(r)
  <2> DEFINE q == call[r].asks
  <2>1. /\ at[r] = "redeem" /\ at' \in {[at EXCEPT ![r] = "revoke"], [at EXCEPT ![r] = "answer"]}
        /\ UNCHANGED <<call, attempts>> /\ handoffs' \subseteq handoffs
        /\ \A p \in Requests \ {r} : won'[p] = won[p]
        /\ won'[r] = None \/ (won'[r] = q /\ q \in handoffs /\ q \notin handoffs')
    BY ZenonT(30), <1>11 DEF RedeemHandoff, Advance, HandoffMatches
  <2>2. \A p \in Requests \ {r} : at'[p] = at[p]
    BY <2>1
  <2>3. at[r] \notin Over /\ r \notin attempts \cup handoffs
    BY <2>1 DEF SecretInv, Over
  <2>4. /\ \A p \in attempts' : at'[p] \in Over /\ call'[p].kind \in Starts
        /\ \A h \in handoffs' : at'[h] \in Over /\ call'[h].kind = "callback" /\ h \notin Earlier
    BY <2>1, <2>2, <2>3 DEF SecretInv
  <2>5. \A p \in Requests : call'[p].asks # None => at'[call'[p].asks] = "done"
    BY <2>1, <2>2 DEF SecretInv
  <2>6. q \in attempts \cup handoffs => at[q] = "done" /\ q \notin attempts \cap handoffs
    BY DEF SecretInv, Starts
  <2>7. \A p \in Requests : won'[p] # None =>
          at'[won'[p]] = "done" /\ won'[p] \notin attempts' \cup handoffs'
    BY <2>1, <2>2, <2>6 DEF SecretInv
  <2>8. SingleUse'
    BY <2>1 DEF SecretInv, SingleUse
  <2> QED
    BY <2>4, <2>5, <2>7, <2>8 DEF SecretInv
<1>12. CASE Revoke(r)
  BY <1>12
     DEF Revoke, SecretInv, SingleUse, PosInv, Advance, tables, Over, Busy, Starts, Young
<1>13. CASE Flush(r)
  BY <1>13
     DEF Flush, SecretInv, SingleUse, PosInv, Advance, tables, Over, Busy, Starts, Young
<1>14. CASE Login(r)
  BY <1>14
     DEF Login, SecretInv, SingleUse, PosInv, Advance, tables, Over, Busy, Starts, Young
<1>15. CASE Save(r)
  BY <1>15
     DEF Save, SecretInv, SingleUse, PosInv, Advance, tables, Over, Busy, Starts, Young
<1>16. CASE Activate(r)
  BY <1>16 DEF Activate, SecretInv, SingleUse, PosInv, Advance, tables, Over, Busy, Starts,
         Young
<1> QED
  BY <1>1, <1>2, <1>3, <1>4, <1>5, <1>6, <1>7, <1>8,
     <1>9, <1>10, <1>11, <1>12, <1>13, <1>14, <1>15, <1>16
     DEF Layers, Handlers, Sessioning

\* Only the answer of the request that drew an id makes it known.
LEMMA HeldStep ==
  ASSUME TypeOK, PosInv, HeldInv, TypeOK',
         NEW r \in Requests, Layers(r) \/ Handlers(r) \/ Sessioning(r)
  PROVE HeldInv'
<1> USE AuthAssumption DEF TypeOK, SignIns, Ids, Users
<1>1. CASE Arrive(r)
  <2>1. PICK k \in Routes, c \in Clients : \E s \in held[c] \cup {None}, q \in Known(k) :
          Carries(r, k, c, s, q)
    BY <1>1, ArriveEffect
  <2>2. PICK s \in held[c] \cup {None}, q \in Known(k) : Carries(r, k, c, s, q)
    BY <2>1
  <2>3. /\ at[r] = "idle" /\ at' = [at EXCEPT ![r] = "loaded"]
        /\ \A q1 \in Requests \ {r} : session'[q1] = session[q1] /\ call'[q1] = call[q1]
        /\ UNCHANGED <<record, active, attempts, handoffs, held, won, acct, lease, ended>>
    BY <1>1, ArriveEffect
  <2>4. HeldDone'
    BY <2>2, <2>3 DEF HeldInv, HeldDone, HeldOnce, HeldBy, IdKnown, UserHasId, Carries
  <2>5. HeldOnce'
    BY <2>2, <2>3 DEF HeldInv, HeldDone, HeldOnce, HeldBy, IdKnown, UserHasId, Carries
  <2>6. HeldBy'
    BY <2>2, <2>3 DEF HeldInv, HeldDone, HeldOnce, HeldBy, IdKnown, UserHasId, Carries
  <2>7. IdKnown'
    BY <2>2, <2>3 DEF HeldInv, HeldDone, HeldOnce, HeldBy, IdKnown, UserHasId, Carries
  <2>8. UserHasId'
    BY <2>2, <2>3 DEF HeldInv, HeldDone, HeldOnce, HeldBy, IdKnown, UserHasId, Carries
  <2> QED
    BY <2>4, <2>5, <2>6, <2>7, <2>8 DEF HeldInv
<1>2. CASE Answer(r)
  <2>1. /\ session'[r].id = None /\ session'[r].user = None
        /\ r \in attempts \/ acct[r] # None => call'[r].client = call[r].client
        /\ \A q \in Requests \ {r} : session'[q] = session[q] /\ call'[q] = call[q]
    BY <1>2, ForgetEffect DEF Answer
  <2>2. /\ at[r] = "answer" /\ at' = [at EXCEPT ![r] = "done"] /\ acct' = acct
        /\ call[r].client \in Clients
        /\ held' = held \/ \E id \in Requests : Saves(r, id)
    BY <1>2, AnswerEffect
  <2>3. PICK c \in Clients, id \in Requests :
          /\ c = call[r].client /\ (id = r \/ id = session[r].id)
          /\ \A d \in Clients : held[d] \subseteq held'[d]
          /\ \A d \in Clients : \A s \in held'[d] : s \in held[d] \/ (d = c /\ s = id)
    BY <2>2 DEF Saves
  <2>4. id = r \/ id \in held[c]
    BY <2>3 DEF HeldInv, IdKnown
  <2>5. \A d \in Clients : r \notin held[d]
    BY <2>2 DEF HeldInv, HeldDone
  <2>6. \A d \in Clients : \A s \in held[d] : s # r /\ s \in Requests
    BY <2>5
  <2>7. HeldDone'
    BY <2>1, <2>2, <2>3, <2>4, <2>6
       DEF HeldInv, HeldDone, HeldOnce, HeldBy, IdKnown, UserHasId
  <2>8. HeldOnce'
    BY <2>1, <2>2, <2>3, <2>4, <2>6
       DEF HeldInv, HeldDone, HeldOnce, HeldBy, IdKnown, UserHasId
  <2>9. HeldBy'
    <3> SUFFICES ASSUME NEW d \in Clients, NEW s \in held'[d], acct[s] # None
                 PROVE  call'[s].client = d
      BY <2>2 DEF HeldBy
    <3>1. CASE s \in held[d]
      BY <2>1, <2>6, <3>1 DEF HeldInv, HeldBy
    <3>2. CASE d = c /\ s = id /\ id = r
      BY <2>1, <2>3, <3>2
    <3> QED
      BY <2>3, <2>4, <3>1, <3>2
  <2>10. IdKnown'
    BY SMTT(30), <2>1, <2>3 DEF HeldInv, IdKnown
  <2>11. UserHasId'
    BY <2>1, <2>2, <2>3, <2>4, <2>6
       DEF HeldInv, HeldDone, HeldOnce, HeldBy, IdKnown, UserHasId
  <2> QED
    BY <2>7, <2>8, <2>9, <2>10, <2>11 DEF HeldInv
<1>3. CASE Fail(r)
  <2>1. /\ session'[r].id = None /\ session'[r].user = None
        /\ r \in attempts \/ acct[r] # None => call'[r].client = call[r].client
        /\ \A q \in Requests \ {r} : session'[q] = session[q] /\ call'[q] = call[q]
    BY <1>3, ForgetEffect DEF Fail
  <2>2. at[r] # "done" /\ at' = [at EXCEPT ![r] = "failed"] /\ held' = held /\ acct' = acct
    BY <1>3 DEF Fail, Advance, tables, PosInv, Busy, Position
  <2>3. HeldDone'
    BY <2>1, <2>2 DEF HeldInv, HeldDone, HeldOnce, HeldBy, IdKnown, UserHasId
  <2>4. HeldOnce'
    BY <2>1, <2>2 DEF HeldInv, HeldDone, HeldOnce, HeldBy, IdKnown, UserHasId
  <2>5. HeldBy'
    BY <2>1, <2>2 DEF HeldInv, HeldDone, HeldOnce, HeldBy, IdKnown, UserHasId
  <2>6. IdKnown'
    BY <2>1, <2>2 DEF HeldInv, HeldDone, HeldOnce, HeldBy, IdKnown, UserHasId
  <2>7. UserHasId'
    BY <2>1, <2>2 DEF HeldInv, HeldDone, HeldOnce, HeldBy, IdKnown, UserHasId
  <2> QED
    BY <2>3, <2>4, <2>5, <2>6, <2>7 DEF HeldInv
<1>4. CASE Flush(r)
  <2>1. /\ call[r].kind = "logout" => session'[r].id = None /\ session'[r].user = None
        /\ call[r].kind # "logout" =>
             session'[r].id = session[r].id /\ session'[r].user = session[r].user
        /\ \A q \in Requests \ {r} : session'[q] = session[q]
    BY <1>4, FlushEffect
  <2>2. at[r] = "flush" /\ held' = held /\ acct' = acct /\ call' = call
        /\ at' \in {[at EXCEPT ![r] = "answer"], [at EXCEPT ![r] = "login"]}
    BY <1>4 DEF Flush, Advance
  <2>3. HeldDone'
    BY <2>1, <2>2 DEF HeldInv, HeldDone, HeldOnce, HeldBy, IdKnown, UserHasId
  <2>4. HeldOnce'
    BY <2>1, <2>2 DEF HeldInv, HeldDone, HeldOnce, HeldBy, IdKnown, UserHasId
  <2>5. HeldBy'
    BY <2>1, <2>2 DEF HeldInv, HeldDone, HeldOnce, HeldBy, IdKnown, UserHasId
  <2>6. IdKnown'
    BY <2>1, <2>2 DEF HeldInv, HeldDone, HeldOnce, HeldBy, IdKnown, UserHasId
  <2>7. UserHasId'
    BY <2>1, <2>2 DEF HeldInv, HeldDone, HeldOnce, HeldBy, IdKnown, UserHasId
  <2> QED
    BY <2>3, <2>4, <2>5, <2>6, <2>7 DEF HeldInv
<1>5. CASE Login(r)
  BY <1>5
     DEF Login, HeldInv, HeldDone, HeldOnce, HeldBy, IdKnown, UserHasId, PosInv, Advance,
         tables, Busy, Sessions, Over, Young
<1>6. CASE Save(r)
  BY <1>6
     DEF Save, HeldInv, HeldDone, HeldOnce, HeldBy, IdKnown, UserHasId, PosInv, Advance,
         tables, Busy, Sessions, Over, Young
<1>7. CASE /\ held' = held /\ call' = call /\ at[r] # "done"
           /\ session'[r].id = session[r].id /\ session'[r].user = session[r].user
  <2>1. \A q \in Requests \ {r} : /\ at'[q] = at[q] /\ acct'[q] = acct[q]
                                 /\ session'[q] = session[q]
    BY SMTT(30), Others, Writes
  <2>2. \A c \in Clients : \A s \in held[c] : s \in Requests \ {r}
    BY <1>7 DEF HeldInv, HeldDone
  <2>3. HeldDone' /\ HeldOnce' /\ HeldBy'
    BY <1>7, <2>1, <2>2 DEF HeldInv, HeldDone, HeldOnce, HeldBy
  <2>4. IdKnown' /\ UserHasId'
    BY <1>7, <2>1 DEF HeldInv, IdKnown, UserHasId
  <2> QED
    BY <2>3, <2>4 DEF HeldInv
<1> QED
  BY <1>1, <1>2, <1>3, <1>4, <1>5, <1>6, <1>7, Writes, Others

\* A binding is written where its start was, and read where it was written.
LEMMA BindStep ==
  ASSUME TypeOK, PosInv, SecretInv, HeldInv, BindInv, SignedIn, TypeOK',
         NEW r \in Requests, Layers(r) \/ Handlers(r) \/ Sessioning(r)
  PROVE BindInv'
<1> USE AuthAssumption
<1>1. /\ \A q \in Requests : at[q] \in Over => at'[q] \in Over
      /\ \A q \in Requests \ {r} : session'[q] = session[q] /\ call'[q] = call[q]
  BY Others, Writes
<1>2. attempts \subseteq Requests /\ None \notin attempts
  BY DEF TypeOK
<1>3. /\ \A q \in Requests : session[q].bind # None => at'[session[q].bind] \in Over
      /\ \A s \in Requests :
           record[s] # None /\ record[s].bind # None => at'[record[s].bind] \in Over
  BY <1>1, Fields DEF BindInv, BindDrawn, Ids
\* An attempt is of a request that is over, whose client is not forgotten.
<1>4. \A p \in attempts : call'[p].client = call[p].client
  <2>1. CASE Arrive(r)
    <3>1. r \notin attempts
      BY <2>1, ArriveEffect DEF SecretInv, Over
    <3> QED
      BY <1>1, <1>2, <3>1
  <2>2. CASE Answer(r) \/ Fail(r)
    <3>1. r \in attempts => call'[r].client = call[r].client
      BY <2>2, ForgetEffect DEF Answer, Fail
    <3> QED
      BY <1>1, <1>2, <3>1
  <2> QED
    BY <2>1, <2>2, Writes
\* What r writes into a record is its own binding, under an id of its client.
<1>5. CASE Answer(r) \/ Save(r)
  <2>1. /\ attempts' = attempts /\ session'[r].bind \in {session[r].bind, None}
        /\ call'[r].client = call[r].client \/ session'[r].bind = None
    <3>1. CASE Answer(r)
      BY <3>1, ForgetEffect DEF Answer
    <3>2. CASE Save(r)
      <4>1. session[r].id # None
        BY <3>2 DEF Save, Advance, SignedIn
      <4> QED
        BY <3>2, <4>1, SaveEffect DEF Save
    <3> QED
      BY <1>5, <3>1, <3>2
  <2>2. \/ record' = record /\ held' = held
        \/ \E id \in Requests :
             /\ record'[id] # None => record'[id].bind = session[r].bind
             /\ \A s \in Requests : s # id => record'[s] = record[s]
             /\ \A c \in Clients : held[c] \subseteq held'[c]
             /\ \A c \in Clients : \A s \in held'[c] :
                  s \in held[c] \/ (c = call[r].client /\ s = id)
             /\ \A c \in Clients : id \in held[c] => c = call[r].client
    <3>1. at[r] # "done" /\ \A c \in Clients : r \notin held[c]
      BY Others DEF HeldInv, HeldDone
    <3>2. \A c \in Clients : session[r].id # None /\ session[r].id \in held[c] =>
            c = call[r].client
      BY <3>1 DEF HeldInv, IdKnown, HeldOnce
    <3>3. CASE Answer(r)
      <4>1. CASE record' = record /\ held' = held
        BY <4>1
      <4>2. CASE \E id \in Requests : Saves(r, id)
        <5>1. PICK id \in Requests : Saves(r, id)
          BY <4>2
        <5>2. \A c \in Clients : id \in held[c] => c = call[r].client
          BY <3>1, <3>2, <5>1 DEF Saves
        <5> QED
          BY <5>1, <5>2 DEF Saves
      <4> QED
        BY <3>3, <4>1, <4>2, AnswerEffect
    <3>4. CASE Save(r)
      <4>1. session[r].id # None /\ held' = held
        BY <3>4 DEF Save, Advance, SignedIn
      <4>2. \A c \in Clients : session'[r].id \in held[c] => c = call[r].client
        BY <3>1, <3>2, <3>4, <4>1, SaveEffect
      <4> QED
        BY <3>4, <4>1, <4>2, SaveEffect
    <3> QED
      BY <1>5, <3>3, <3>4
  <2>3. BindDrawn'
    BY <1>1, <1>3, <2>1, <2>2 DEF BindDrawn
  <2>4. BindCarried'
    BY <1>1, <1>2, <1>4, <2>1 DEF BindInv, BindCarried
  <2>5. BindStored'
    BY <1>2, <1>4, <2>1, <2>2 DEF BindInv, BindCarried, BindStored
  <2> QED
    BY <2>3, <2>4, <2>5 DEF BindInv
<1>6. CASE Arrive(r)
  <2>1. PICK k \in Routes, c \in Clients : \E s \in held[c] \cup {None}, q \in Known(k) :
          Carries(r, k, c, s, q)
    BY <1>6, ArriveEffect
  <2>2. PICK s \in held[c] \cup {None}, q \in Known(k) : Carries(r, k, c, s, q)
    BY <2>1
  <2>3. UNCHANGED <<record, attempts, held>>
    BY <1>6, ArriveEffect
  <2>4. BindDrawn'
    BY <1>1, <1>3, <2>2, <2>3 DEF BindDrawn, Carries
  <2>5. BindCarried'
    <3>1. session'[r].bind \in attempts =>
            call[session'[r].bind].client = c /\ call'[r].client = c
      BY <1>2, <2>2 DEF BindInv, BindStored, Carries
    <3> QED
      BY <1>1, <1>2, <1>4, <2>3, <3>1 DEF BindInv, BindCarried
  <2>6. BindStored'
    BY <1>2, <1>4, <2>3 DEF BindInv, BindStored
  <2> QED
    BY <2>4, <2>5, <2>6 DEF BindInv
<1>7. CASE InsertAttempt(r)
  <2>1. /\ session'[r].bind = r /\ call' = call /\ attempts' = attempts \cup {r}
        /\ UNCHANGED <<record, held>> /\ at'[r] = "answer" /\ at[r] \notin Over
    BY <1>7 DEF InsertAttempt, Advance, TypeOK, Sessions, Over
  <2>2. \A q \in Requests : session[q].bind # r
    BY <2>1 DEF BindInv, BindDrawn
  <2>3. \A s \in Requests : record[s] # None => record[s].bind # r
    BY <2>1 DEF BindInv, BindDrawn
  <2>4. BindDrawn'
    BY <1>1, <1>3, <2>1 DEF BindDrawn, Over
  <2>5. BindCarried'
    BY <1>1, <2>1, <2>2 DEF BindInv, BindCarried
  <2>6. BindStored'
    BY <2>1, <2>3 DEF BindInv, BindStored
  <2> QED
    BY <2>4, <2>5, <2>6 DEF BindInv
<1>8. CASE /\ attempts' \subseteq attempts /\ held' = held
           /\ \A s \in Requests : record'[s] # None => record'[s] = record[s]
           /\ session'[r].bind \in {session[r].bind, None}
           /\ call'[r].client = call[r].client \/ session'[r].bind = None
  <2>1. BindDrawn'
    BY <1>1, <1>3, <1>8 DEF BindDrawn
  <2>2. BindCarried'
    BY <1>1, <1>2, <1>4, <1>8 DEF BindInv, BindCarried
  <2>3. BindStored'
    BY <1>2, <1>4, <1>8 DEF BindInv, BindStored
  <2> QED
    BY <2>1, <2>2, <2>3 DEF BindInv
<1>9. CASE Fail(r)
  <2>1. session'[r].bind = None
    BY <1>9, ForgetEffect DEF Fail
  <2> QED
    BY <1>8, <1>9, <2>1 DEF Fail, tables
<1> QED
  BY <1>5, <1>6, <1>7, <1>8, <1>9, Writes

\* A redemption compares the client with the one that began.
LEMMA ChainStep ==
  ASSUME TypeOK, PosInv, SecretInv, BindInv, ChainInv, TypeOK',
         NEW r \in Requests, Layers(r) \/ Handlers(r) \/ Sessioning(r)
  PROVE ChainInv'
<1> USE AuthAssumption DEF TypeOK, SignIns, Ids, Users
<1>1. CASE Arrive(r)
  <2>1. PICK k \in Routes, c \in Clients : \E s \in held[c] \cup {None}, q \in Known(k) :
          Carries(r, k, c, s, q)
    BY <1>1, ArriveEffect
  <2>2. PICK s \in held[c] \cup {None}, q \in Known(k) : Carries(r, k, c, s, q)
    BY <2>1
  <2>3. /\ at[r] = "idle" /\ at' = [at EXCEPT ![r] = "loaded"]
        /\ \A q1 \in Requests \ {r} : session'[q1] = session[q1] /\ call'[q1] = call[q1]
        /\ UNCHANGED <<record, active, attempts, handoffs, held, won, acct, lease, ended>>
    BY <1>1, ArriveEffect
  <2>4. \A p \in Requests : won[p] # r
    BY <2>3 DEF SecretInv
  <2>5. won[r] = None
    BY <2>3 DEF ChainInv
  <2> QED
    BY <2>3, <2>4, <2>5 DEF ChainInv
<1>2. CASE Answer(r)
  <2>1. /\ call'[r].kind \in Redeems =>
             call'[r].kind = call[r].kind /\ call'[r].client = call[r].client
        /\ \A q \in Requests \ {r} : call'[q] = call[q]
    BY <1>2, ForgetEffect DEF Answer, Redeems
  <2>2. won' = won /\ at'[r] \in {"done", "failed"}
    BY <1>2 DEF Answer, Advance
  <2>3. \A q \in Requests : won[q] # r
    BY <1>2, Others DEF SecretInv, Layers
  <2> QED
    <3>1. \A q \in Requests \ {r} : at'[q] = at[q]
      BY <1>2, Others DEF Layers
    <3>2. \A q \in Requests : won[q] # None => call'[won[q]] = call[won[q]] /\ won[won[q]] # r
      BY <2>1, <2>3 DEF SecretInv
    <3>3. won[r] # None /\ call'[r].kind = "callback" => call'[won[r]].client = call'[r].client
      BY <2>1, <3>2 DEF ChainInv, Redeems
    <3>4. won[r] # None /\ call'[r].kind = "exchange" =>
            won[won[r]] # None /\ call'[won[won[r]]].client = call'[r].client
      BY <2>1, <2>3, <3>2 DEF ChainInv, Redeems
    <3>5. \A q \in Requests \ {r} : won[q] # None /\ won[won[q]] # None =>
            call'[won[won[q]]] = call[won[won[q]]]
      BY <2>1, <3>2
    <3> QED
      BY <2>1, <2>2, <3>1, <3>2, <3>3, <3>4, <3>5 DEF ChainInv
<1>3. CASE Fail(r)
  <2>1. /\ call'[r].kind \in Redeems =>
             call'[r].kind = call[r].kind /\ call'[r].client = call[r].client
        /\ \A q \in Requests \ {r} : call'[q] = call[q]
    BY <1>3, ForgetEffect DEF Fail, Redeems
  <2>2. won' = won /\ at'[r] \in {"done", "failed"}
    BY <1>3 DEF Fail, Advance
  <2>3. \A q \in Requests : won[q] # r
    BY <1>3, Others DEF SecretInv, Layers
  <2> QED
    <3>1. \A q \in Requests \ {r} : at'[q] = at[q]
      BY <1>3, Others DEF Layers
    <3>2. \A q \in Requests : won[q] # None => call'[won[q]] = call[won[q]] /\ won[won[q]] # r
      BY <2>1, <2>3 DEF SecretInv
    <3>3. won[r] # None /\ call'[r].kind = "callback" => call'[won[r]].client = call'[r].client
      BY <2>1, <3>2 DEF ChainInv, Redeems
    <3>4. won[r] # None /\ call'[r].kind = "exchange" =>
            won[won[r]] # None /\ call'[won[won[r]]].client = call'[r].client
      BY <2>1, <2>3, <3>2 DEF ChainInv, Redeems
    <3>5. \A q \in Requests \ {r} : won[q] # None /\ won[won[q]] # None =>
            call'[won[won[q]]] = call[won[won[q]]]
      BY <2>1, <3>2
    <3> QED
      BY <2>1, <2>2, <3>1, <3>2, <3>3, <3>4, <3>5 DEF ChainInv
<1>4. CASE RedeemAttempt(r)
  <2> DEFINE q == call[r].asks
  <2>1. /\ \A p \in Requests \ {r} : won'[p] = won[p]
        /\ UNCHANGED call /\ call[r].kind = "callback"
        /\ at' \in {[at EXCEPT ![r] = "provider"], [at EXCEPT ![r] = "answer"]}
        /\ \/ won'[r] = None
           \/ won'[r] = q /\ q \in attempts /\ session[r].bind = q
    BY ZenonT(30), <1>4 DEF RedeemAttempt, Advance, AttemptMatches
  <2>2. \A p \in Requests : won[p] # r
    BY <1>4, Others DEF SecretInv, Handlers
  <2>3. won'[r] # None => call[won'[r]].client = call[r].client
    BY <2>1 DEF BindInv, BindCarried
  <2> QED
    BY <2>1, <2>2, <2>3 DEF ChainInv
<1>5. CASE RedeemHandoff(r)
  <2> DEFINE h == call[r].asks
  <2>1. /\ \A p \in Requests \ {r} : won'[p] = won[p]
        /\ UNCHANGED call /\ call[r].kind = "exchange"
        /\ at' \in {[at EXCEPT ![r] = "revoke"], [at EXCEPT ![r] = "answer"]}
        /\ \/ won'[r] = None
           \/ won'[r] = h /\ h \in handoffs /\ call[won[h]].client = call[r].client
    BY ZenonT(30), <1>5 DEF RedeemHandoff, Advance, HandoffMatches
  <2>2. \A p \in Requests : won[p] # r
    BY <1>5, Others DEF SecretInv, Handlers
  <2>3. \A p \in handoffs : p # r /\ won[p] # None
    BY <1>5 DEF SecretInv, PosInv, Over, RedeemHandoff, Advance
  <2> QED
    BY <2>1, <2>2, <2>3 DEF ChainInv
<1>6. CASE won' = won /\ call' = call /\ at'[r] \notin {"idle", "loaded"}
  BY <1>6, Others, Writes DEF ChainInv
<1> QED
  BY <1>1, <1>2, <1>3, <1>4, <1>5, <1>6, Writes, Others

\* Rows and leases keep the client of their sign-in, and what is revoked is shut.
LEMMA AccessStep ==
  ASSUME TypeOK, PosInv, HeldInv, AccessInv, TypeOK',
         NEW r \in Requests, Layers(r) \/ Handlers(r) \/ Sessioning(r)
  PROVE AccessInv'
<1> USE AuthAssumption DEF AccessInv
<1>1. \A c \in Clients : held[c] \subseteq held'[c]
  BY Writes, AnswerEffect DEF Saves
<1>2. \A s \in Requests : active[s] # None => active[s] \in SignIns
  BY DEF TypeOK
<1>3. RowBy'
  <2>1. CASE active' = active
    BY <1>1, <1>2, <2>1, SignInLasts DEF RowBy
  <2>2. CASE Revoke(r)
    BY <1>1, <1>2, <2>2, SignInLasts DEF RowBy, Revoke
  <2>3. CASE Activate(r)
    BY <1>1, <1>2, <2>3, SignInLasts DEF RowBy, Activate, TypeOK, HeldInv, IdKnown
  <2> QED
    BY <2>1, <2>2, <2>3, Writes
<1>4. LeaseBy'
  <2>1. \A q \in Requests \ {r} : at'[q] = at[q] /\ call'[q] = call[q]
    BY Others, Writes
  <2>2. \A q \in Requests : lease[q] # None => lease[q] \in SignIns
    BY DEF TypeOK
  <2>3. CASE Identity(r)
    <3>1. /\ lease' = [lease EXCEPT ![r] = LeaseOf(session[r])] /\ call' = call
          /\ at[r] = "loaded" /\ at'[r] \notin {"idle", "loaded"}
      BY <2>3 DEF Identity, Advance, Handler, TypeOK
    <3>2. LeaseOf(session[r]) # None => call[LeaseOf(session[r])].client = call[r].client
      <4> SUFFICES ASSUME LeaseOf(session[r]) # None
                   PROVE  call[LeaseOf(session[r])].client = call[r].client
        OBVIOUS
      <4> DEFINE id == session[r].id
      <4>1. id \in Requests /\ active[id] # None /\ LeaseOf(session[r]) = active[id]
        BY Fields DEF LeaseOf, Ids
      <4>2. acct[r] = None
        BY <3>1 DEF PosInv, Young
      <4>3. \/ active[id] = id
            \/ \E c \in Clients : call[active[id]].client = c /\ id \in held[c]
        BY <4>1 DEF RowBy
      <4>4. \A c \in Clients : r \notin held[c]
        BY <3>1 DEF HeldInv, HeldDone
      <4>5. id # r
        BY <1>2, <4>1, <4>2, <4>3, <4>4 DEF SignIns
      <4>6. PICK c \in Clients : call[r].client = c /\ id \in held[c]
        BY <4>1, <4>5 DEF HeldInv, IdKnown
      <4>7. CASE active[id] = id
        BY <1>2, <4>1, <4>6, <4>7 DEF SignIns, HeldInv, HeldBy
      <4> QED
        BY <4>1, <4>3, <4>6, <4>7 DEF HeldInv, HeldOnce
    <3> QED
      BY <2>1, <3>1, <3>2 DEF LeaseBy, TypeOK
  <2>4. CASE Arrive(r)
    <3>1. at[r] = "idle" /\ lease' = lease
      BY <2>4, ArriveEffect
    <3> QED
      BY <2>1, <2>2, <3>1, SignInLasts DEF LeaseBy
  <2>5. CASE Answer(r) \/ Fail(r)
    <3>1. lease'[r] = None /\ \A q \in Requests \ {r} : lease'[q] = lease[q]
      BY <2>5, ForgetEffect DEF Answer, Fail
    <3> QED
      BY <2>1, <2>2, <3>1, SignInLasts DEF LeaseBy
  <2>6. CASE lease' = lease /\ call' = call /\ at'[r] \notin {"idle", "loaded"}
    BY <2>1, <2>6 DEF LeaseBy
  <2> QED
    BY <2>3, <2>4, <2>5, <2>6, Writes
<1>5. EndedShut'
  BY Writes DEF EndedShut, Revoke, Activate, TypeOK
<1> QED
  BY <1>3, <1>4, <1>5

\* The id of a request that is not over is in no other session.
LEMMA OwnId ==
  ASSUME TypeOK, HeldInv, NEW r \in Requests, NEW q \in Requests \ {r}, at[r] # "done"
  PROVE session[q].id # r
BY AuthAssumption DEF HeldInv, HeldDone, IdKnown

\* The row of a first sign-in is inserted by it alone.
LEMMA RowOpened ==
  ASSUME TypeOK, PosInv, NEW r \in Requests, Layers(r) \/ Handlers(r) \/ Sessioning(r),
         NEW s \in Requests, active'[s] = s
  PROVE active[s] = s \/ (Activate(r) /\ s = r /\ session[r].id = r)
BY AuthAssumption, Writes DEF Revoke, Activate, TypeOK

\* What a request that is revoking or signing in does to its own session.
LEMMA RevokedSteps ==
  ASSUME TypeOK, PosInv, HeldInv, RecordInv,
         NEW r \in Requests, Layers(r) \/ Handlers(r) \/ Sessioning(r)
  PROVE /\ at'[r] \in Revoked => Revoke(r) \/ Flush(r) \/ Login(r) \/ Save(r)
        /\ at'[r] \in {"save", "activate"} => Login(r) \/ Save(r)
        /\ at'[r] = "activate" => Save(r)
        /\ Flush(r) \/ Login(r) \/ Save(r) =>
             /\ active' = active /\ acct' = acct
             /\ at'[r] # "answer" => session'[r].id \in {session[r].id, r}
             /\ session[r].id # None => active[session[r].id] # session[r].id
             /\ active[r] # r
<1>1. /\ at'[r] \in Revoked => Revoke(r) \/ Flush(r) \/ Login(r) \/ Save(r)
      /\ at'[r] \in {"save", "activate"} => Login(r) \/ Save(r)
      /\ at'[r] = "activate" => Save(r)
  <2>1. CASE Layers(r)
    BY <2>1 DEF Layers, Arrive, Identity, Refuse, Answer, Fail, Advance, Handler, TypeOK,
                Revoked, SigningIn
  <2>2. CASE Handlers(r)
    BY <2>2
       DEF Handlers, InsertAttempt, RedeemAttempt, Decline, Authenticate, InsertHandoff,
                RedeemHandoff, Advance, TypeOK, Revoked, SigningIn
  <2>3. CASE Sessioning(r)
    BY <2>3 DEF Sessioning, Revoke, Flush, Login, Save, Activate, Advance, TypeOK,
                Revoked, SigningIn
  <2> QED
    BY <2>1, <2>2, <2>3
<1>2. ASSUME Flush(r) \/ Login(r) \/ Save(r)
      PROVE  /\ active' = active /\ acct' = acct
             /\ at'[r] # "answer" => session'[r].id \in {session[r].id, r}
             /\ session[r].id # None => active[session[r].id] # session[r].id
             /\ active[r] # r
  <2>1. at[r] \in Revoked /\ at[r] \notin Over /\ active' = active /\ acct' = acct
    BY <1>2 DEF Flush, Login, Save, Advance, Revoked, SigningIn, Over
  <2>2. active[r] # r /\ (session[r].id # None => active[session[r].id] # session[r].id)
    BY <2>1 DEF RecordInv, OwnRow, RevokedRow
  <2>3. CASE Flush(r)
    <3>1. at'[r] # "answer" => call[r].kind # "logout"
      BY <2>3 DEF Flush, Advance, TypeOK
    <3> QED
      BY <2>1, <2>2, <2>3, <3>1, FlushEffect
  <2>4. CASE Login(r)
    BY <2>1, <2>2, <2>4, LoginEffect
  <2>5. CASE Save(r)
    <3>1. session[r].id # None
      BY <2>5 DEF Save, Advance, RecordInv, SignedIn
    <3> QED
      BY <2>1, <2>2, <2>5, <3>1, SaveEffect
  <2> QED
    BY <1>2, <2>3, <2>4, <2>5
<1> QED
  BY <1>1, <1>2

LEMMA OwnRowStep ==
  ASSUME TypeOK, PosInv, HeldInv, RecordInv, TypeOK',
         NEW r \in Requests, Layers(r) \/ Handlers(r) \/ Sessioning(r)
  PROVE OwnRow'
<1> SUFFICES ASSUME NEW q \in Requests, active'[q] = q
             PROVE  at'[q] \in Over /\ (at'[q] = "answer" => session'[q].id = q)
  BY DEF OwnRow
<1>1. CASE active[q] = q
  BY <1>1, Others, Writes DEF RecordInv, OwnRow, Over
<1>2. CASE Activate(r) /\ q = r /\ session[r].id = r
  BY <1>2 DEF Activate, Advance, TypeOK, Over
<1> QED
  BY <1>1, <1>2, RowOpened

LEMMA RevokedRowStep ==
  ASSUME TypeOK, PosInv, HeldInv, RecordInv, TypeOK',
         NEW r \in Requests, Layers(r) \/ Handlers(r) \/ Sessioning(r)
  PROVE RevokedRow'
<1> SUFFICES ASSUME NEW q \in Requests, at'[q] \in Revoked, session'[q].id # None,
                    active'[session'[q].id] = session'[q].id
             PROVE  FALSE
  BY DEF RevokedRow
<1> DEFINE s == session'[q].id
<1>1. s \in Requests
  BY DEF TypeOK, Sessions, Ids
<1>2. active[s] = s \/ (Activate(r) /\ s = r)
  BY <1>1, RowOpened
<1>3. CASE q # r
  <2>1. at[q] \in Revoked /\ session[q].id = s
    BY <1>3, Others, Writes
  <2>2. active[s] # s
    BY <1>1, <2>1, AuthAssumption DEF RecordInv, RevokedRow
  <2>3. at[r] # "done"
    BY Others
  <2> QED
    BY <1>2, <1>3, <2>1, <2>2, <2>3, OwnId
<1>4. CASE q = r
  <2>1. CASE Revoke(r)
    BY <1>1, <1>4, <2>1, AuthAssumption DEF Revoke
  <2>2. CASE Flush(r) \/ Login(r) \/ Save(r)
    <3>1. at'[r] # "answer"
      BY <1>4 DEF Revoked, SigningIn
    <3> QED
      BY <1>1, <1>4, <2>2, <3>1, RevokedSteps
  <2> QED
    BY <1>4, <2>1, <2>2, RevokedSteps
<1> QED
  BY <1>3, <1>4

LEMMA SignedInStep ==
  ASSUME TypeOK, PosInv, HeldInv, RecordInv, TypeOK',
         NEW r \in Requests, Layers(r) \/ Handlers(r) \/ Sessioning(r)
  PROVE SignedIn'
<1> SUFFICES ASSUME NEW q \in Requests, at'[q] \in {"save", "activate"}
             PROVE  session'[q].id # None /\ session'[q].user = acct'[q]
  BY DEF SignedIn
<1>1. CASE q # r
  BY <1>1, Others, Writes DEF RecordInv, SignedIn
<1>2. CASE q = r /\ Login(r)
  <2>1. session[r].user # None => session[r].id # None
    BY DEF HeldInv, UserHasId
  <2> QED
    BY <1>2, <2>1, LoginEffect, RevokedSteps, AuthAssumption
<1>3. CASE q = r /\ Save(r)
  <2>1. session[r].id # None /\ session[r].user = acct[r]
    BY <1>3 DEF Save, Advance, RecordInv, SignedIn
  <2> QED
    BY <1>3, <2>1, SaveEffect, RevokedSteps, AuthAssumption
<1> QED
  BY <1>1, <1>2, <1>3, RevokedSteps

\* Nobody else writes the record of a request that is not over.
LEMMA OwnRecord ==
  ASSUME TypeOK, PosInv, HeldInv, RecordInv,
         NEW r \in Requests, Layers(r) \/ Handlers(r) \/ Sessioning(r),
         NEW q \in Requests \ {r}, at[q] # "done"
  PROVE record'[q] = record[q]
<1>1. session[r].id # q
  BY OwnId
<1>2. CASE Answer(r)
  BY <1>1, <1>2, AnswerEffect DEF Saves
<1>3. CASE Flush(r)
  BY <1>1, <1>3 DEF Flush
<1>4. CASE Login(r)
  BY <1>1, <1>4, LoginEffect
<1>5. CASE Save(r)
  <2>1. session[r].id # None
    BY <1>5 DEF Save, Advance, RecordInv, SignedIn
  <2> QED
    BY <1>1, <1>5, <2>1, SaveEffect
<1> QED
  BY <1>2, <1>3, <1>4, <1>5, Writes

LEMMA SavedStep ==
  ASSUME TypeOK, PosInv, HeldInv, RecordInv, TypeOK',
         NEW r \in Requests, Layers(r) \/ Handlers(r) \/ Sessioning(r)
  PROVE Saved'
<1> SUFFICES ASSUME NEW q \in Requests, at'[q] = "activate"
             PROVE  session'[q].until = q /\ (session'[q].id = q => Good(q)')
  BY DEF Saved
<1>1. CASE q # r
  <2>1. at[q] = "activate" /\ session'[q] = session[q] /\ acct'[q] = acct[q]
    BY <1>1, Others, Writes
  <2>2. record'[q] = record[q]
    BY <1>1, <2>1, OwnRecord
  <2> QED
    BY <2>1, <2>2 DEF RecordInv, Saved, Good
<1>2. CASE q = r
  <2>1. Save(r)
    BY <1>2, RevokedSteps
  <2>2. session[r].id # None /\ session[r].user = acct[r] /\ acct' = acct
    BY <2>1 DEF Save, Advance, RecordInv, SignedIn
  <2> QED
    BY <1>2, <2>1, <2>2, SaveEffect DEF Good
<1> QED
  BY <1>1, <1>2

LEMMA CarriedStep ==
  ASSUME TypeOK, PosInv, HeldInv, RecordInv, TypeOK',
         NEW r \in Requests, Layers(r) \/ Handlers(r) \/ Sessioning(r)
  PROVE Carried'
<1> SUFFICES ASSUME NEW q \in Requests, NEW s \in Requests, active'[s] = s, session'[q].id = s
             PROVE  /\ session'[q].user = acct'[s]
                    /\ session'[q].dirty \/ at'[q] \notin {"loaded", "answer"} =>
                         session'[q].until = s
  BY DEF Carried
<1>1. CASE Activate(r) /\ s = r
  <2>1. at[r] = "activate" /\ session' = session /\ acct' = acct
    BY <1>1 DEF Activate, Advance
  <2>2. q = r
    BY <1>1, <2>1, OwnId
  <2> QED
    BY <1>1, <2>1, <2>2 DEF RecordInv, SignedIn, Saved
<1>2. CASE active[s] = s
  <2>1. acct[s] # None /\ s \in SignIns
    BY <1>2, AuthAssumption DEF TypeOK, SignIns
  <2>2. acct'[s] = acct[s]
    BY <2>1, SignInLasts
  <2>3. CASE q # r
    BY <1>2, <2>2, <2>3, Others, Writes DEF RecordInv, Carried
  <2>4. CASE q = r /\ Arrive(r)
    <3>1. PICK k \in Routes, c \in Clients : \E i \in held[c] \cup {None}, x \in Known(k) :
            Carries(r, k, c, i, x)
      BY <2>4, ArriveEffect
    <3>2. session'[r].dirty = FALSE /\ session'[r].user = record[s].user
      BY <2>4, <3>1, AuthAssumption DEF Carries
    <3>3. record[s].user = acct[s] /\ at'[r] = "loaded"
      BY <1>2, <2>4 DEF RecordInv, RecordOutlivesLease, Arrive, Advance, TypeOK
    <3> QED
      BY <2>2, <2>4, <3>2, <3>3
  <2>5. CASE q = r /\ Identity(r)
    <3>1. session[r].id = s /\ session'[r].user = session[r].user
      BY <2>5, IdentityEffect
    <3>2. session[r].user = acct[s]
      BY <1>2, <3>1 DEF RecordInv, Carried
    <3>3. LeaseOf(session[r]) = s
      BY <1>2, <2>1, <3>1, <3>2, AuthAssumption DEF LeaseOf
    <3> QED
      BY <2>2, <2>5, <3>1, <3>2, <3>3, IdentityEffect
  <2>6. CASE q = r /\ Refuse(r)
    BY <1>2, <2>2, <2>6 DEF Refuse, Advance, TypeOK, RecordInv, Carried
  <2>7. CASE q = r /\ (Answer(r) \/ Fail(r))
    BY <2>7, ForgetEffect, AuthAssumption DEF Answer, Fail
  <2>8. CASE q = r /\ Handlers(r)
    <3>1. /\ session'[r].id = session[r].id /\ session'[r].user = session[r].user
          /\ session'[r].until = session[r].until
      BY <2>8 DEF Handlers, InsertAttempt, RedeemAttempt, Decline, Authenticate,
                  InsertHandoff, RedeemHandoff, TypeOK, Sessions
    <3>2. at[r] \notin {"loaded", "answer"}
      BY <2>8 DEF Handlers, InsertAttempt, RedeemAttempt, Decline, Authenticate,
                  InsertHandoff, RedeemHandoff, Advance
    <3> QED
      BY <1>2, <2>2, <2>8, <3>1, <3>2 DEF RecordInv, Carried
  <2>9. CASE q = r /\ Revoke(r)
    BY <2>9, AuthAssumption DEF Revoke
  <2>10. CASE q = r /\ (Flush(r) \/ Login(r) \/ Save(r))
    <3>1. at'[r] = "answer" => Flush(r) /\ call[r].kind = "logout"
      BY <2>10 DEF Flush, Login, Save, Advance, TypeOK
    <3>2. CASE at'[r] = "answer"
      BY <2>10, <3>1, <3>2, FlushEffect, AuthAssumption
    <3>3. CASE at'[r] # "answer"
      BY <1>2, <2>10, <3>3, RevokedSteps, AuthAssumption
    <3> QED
      BY <3>2, <3>3
  <2>11. CASE q = r /\ Activate(r)
    <3>1. session[r].id = s /\ active'[s] = r
      BY <2>11 DEF Activate, TypeOK
    <3> QED
      BY <1>1, <2>11, <3>1
  <2> QED
    BY <2>3, <2>4, <2>5, <2>6, <2>7, <2>8, <2>9, <2>10, <2>11 DEF Layers, Sessioning
<1> QED
  BY <1>1, <1>2, RowOpened

LEMMA OutlivesStep ==
  ASSUME TypeOK, PosInv, HeldInv, RecordInv, TypeOK',
         NEW r \in Requests, Layers(r) \/ Handlers(r) \/ Sessioning(r)
  PROVE RecordOutlivesLease'
<1> SUFFICES ASSUME NEW s \in Requests, active'[s] = s
             PROVE  Good(s)'
  BY DEF RecordOutlivesLease, Good
<1>1. CASE Activate(r) /\ s = r /\ session[r].id = r
  BY <1>1 DEF Activate, Advance, RecordInv, Saved, Good
<1>2. CASE active[s] = s
  <2>1. s \in SignIns /\ Good(s)
    BY <1>2, AuthAssumption DEF TypeOK, SignIns, RecordInv, RecordOutlivesLease, Good
  <2>2. acct'[s] = acct[s]
    BY <2>1, SignInLasts
  <2>3. CASE record' = record
    BY <2>1, <2>2, <2>3 DEF Good
  <2>4. CASE Answer(r) /\ \E id \in Requests : Saves(r, id)
    <3>1. PICK id \in Requests : Saves(r, id)
      BY <2>4
    <3>2. CASE s = id
      <4>1. at[r] = "answer"
        BY <2>4 DEF Answer, Advance
      <4>2. session[r].id = s
        BY <1>2, <3>1, <3>2, <4>1, AuthAssumption DEF Saves, RecordInv, OwnRow
      <4>3. session[r].user = acct[s] /\ session[r].until = s
        BY <1>2, <3>1, <4>2 DEF Saves, RecordInv, Carried
      <4> QED
        BY <2>2, <3>1, <3>2, <4>3 DEF Saves, Good
    <3>3. CASE s # id
      BY <2>1, <2>2, <3>1, <3>3 DEF Saves, Good
    <3> QED
      BY <3>2, <3>3
  <2>5. CASE Flush(r) \/ Login(r) \/ Save(r)
    <3>1. s # r /\ s # session[r].id
      BY <1>2, <2>5, RevokedSteps, AuthAssumption
    <3>2. CASE Flush(r)
      BY <2>1, <2>2, <3>1, <3>2 DEF Flush, Good
    <3>3. CASE Login(r)
      BY <2>1, <2>2, <3>1, <3>3, LoginEffect DEF Good
    <3>4. CASE Save(r)
      <4>1. session[r].id # None
        BY <3>4 DEF Save, Advance, RecordInv, SignedIn
      <4> QED
        BY <2>1, <2>2, <3>1, <3>4, <4>1, SaveEffect DEF Good
    <3> QED
      BY <2>5, <3>2, <3>3, <3>4
  <2> QED
    BY <2>3, <2>4, <2>5, Writes, AnswerEffect
<1> QED
  BY <1>1, <1>2, RowOpened

LEMMA RecordStep ==
  ASSUME TypeOK, PosInv, HeldInv, RecordInv, TypeOK',
         NEW r \in Requests, Layers(r) \/ Handlers(r) \/ Sessioning(r)
  PROVE RecordInv'
BY OwnRowStep, RevokedRowStep, SignedInStep, SavedStep, CarriedStep, OutlivesStep
   DEF RecordInv

\* Expiry takes a row only with its record, and closes what it takes.
LEMMA ExpireStep ==
  ASSUME IInv, NEW q \in Requests, Expire(q)
  PROVE IInv'
<1> USE AuthAssumption DEF IInv
<1>1. UNCHANGED <<held, at, call, session, won, acct, lease, ended>>
  BY DEF Expire, ExpireAttempt, ExpireHandoff, ExpireIdle, ExpireSignIn, request
<1>2. attempts' \subseteq attempts /\ handoffs' \subseteq handoffs
  BY DEF Expire, ExpireAttempt, ExpireHandoff, ExpireIdle, ExpireSignIn
<1>3. /\ active' \in [Requests -> SignIns \cup {None}]
      /\ \A s \in Requests : active'[s] # None => active'[s] = active[s]
  BY DEF Expire, ExpireAttempt, ExpireHandoff, ExpireIdle, ExpireSignIn, TypeOK
<1>4. /\ record' \in [Requests -> Records \cup {None}]
      /\ \A s \in Requests : record'[s] # None => record'[s] = record[s]
  BY DEF Expire, ExpireAttempt, ExpireHandoff, ExpireIdle, ExpireSignIn, TypeOK
<1>5. ASSUME NEW s \in Requests, Good(s), at[s] \notin {"done", "failed"} \/ active'[s] = s
      PROVE  Good(s)'
  <2>1. acct'[s] = acct[s] /\ record[s].until = s
    BY <1>1, <1>5 DEF Good
  <2>2. record'[s] = record[s]
    <3>1. CASE ExpireAttempt(q) \/ ExpireHandoff(q)
      BY <3>1 DEF ExpireAttempt, ExpireHandoff
    <3>2. CASE ExpireIdle(q)
      BY <2>1, <3>2 DEF ExpireIdle, TypeOK
    <3>3. CASE ExpireSignIn(q)
      <4>1. s # q
        BY <1>5, <3>3 DEF ExpireSignIn
      <4> QED
        BY <2>1, <3>3, <4>1 DEF ExpireSignIn
    <3> QED
      BY <3>1, <3>2, <3>3 DEF Expire
  <2> QED
    BY <1>5, <2>1, <2>2 DEF Good
<1>6. TypeOK'
  BY <1>1, <1>2, <1>3, <1>4 DEF TypeOK, SignIns
<1>7. PosInv'
  BY <1>1 DEF PosInv
<1>8. SecretInv'
  BY <1>1, <1>2 DEF SecretInv, SingleUse
<1>9. HeldInv'
  BY <1>1 DEF HeldInv, HeldDone, HeldOnce, HeldBy, IdKnown, UserHasId
<1>10. BindInv'
  BY <1>1, <1>2, <1>4 DEF BindInv, BindDrawn, BindCarried, BindStored
<1>11. ChainInv'
  BY <1>1 DEF ChainInv
<1>12. AccessInv'
  BY <1>1, <1>3 DEF AccessInv, RowBy, LeaseBy, EndedShut, TypeOK
<1>13. RecordInv'
  <2>1. OwnRow' /\ SignedIn' /\ Carried'
    BY <1>1, <1>3 DEF RecordInv, OwnRow, SignedIn, Carried
  <2>2. RevokedRow'
    BY <1>1, <1>3, Fields DEF RecordInv, RevokedRow, Ids
  <2>3. Saved'
    BY <1>1, <1>5 DEF RecordInv, Saved
  <2>4. RecordOutlivesLease'
    <3> SUFFICES ASSUME NEW s \in Requests, active'[s] = s
                 PROVE  Good(s)'
      BY DEF RecordOutlivesLease, Good
    <3>1. Good(s)
      BY <1>3 DEF RecordInv, RecordOutlivesLease, Good
    <3> QED
      BY <1>5, <3>1
  <2> QED
    BY <2>1, <2>2, <2>3, <2>4 DEF RecordInv
<1> QED
  BY <1>6, <1>7, <1>8, <1>9, <1>10, <1>11, <1>12, <1>13

LEMMA StutterStep ==
  ASSUME IInv, UNCHANGED vars
  PROVE IInv'
BY DEF IInv, vars, tables, request, TypeOK, SignIns, PosInv, SecretInv, SingleUse,
       HeldInv, HeldDone, HeldOnce, HeldBy, IdKnown, UserHasId,
       BindInv, BindDrawn, BindCarried, BindStored, ChainInv,
       AccessInv, RowBy, LeaseBy, EndedShut,
       RecordInv, OwnRow, RevokedRow, SignedIn, Saved, Good, Carried, RecordOutlivesLease

\* Earlier requests are over: each left a sign-in of its own, or a binding.
LEMMA Initially == Init => IInv
<1> SUFFICES ASSUME Init PROVE IInv
  OBVIOUS
<1> USE AuthAssumption
<1>1. PICK of \in [Earlier -> Clients], who \in [Earlier -> Users] :
    LET Past == {s \in Earlier : who[s] # None} IN
    /\ record = [s \in Requests |->
                   CASE s \in Past    -> [user |-> who[s], bind |-> None, until |-> s]
                     [] s \in Earlier \ Past -> [user |-> None, bind |-> s, until |-> None]
                     [] OTHER         -> None]
    /\ active = [s \in Requests |-> IF s \in Past THEN s ELSE None]
    /\ attempts = Earlier \ Past /\ handoffs = {}
    /\ held = [c \in Clients |-> {s \in Earlier : of[s] = c}]
    /\ at = [r \in Requests |-> IF r \in Earlier THEN "done" ELSE "idle"]
    /\ call = [r \in Requests |->
                 IF r \in Earlier
                 THEN [kind |-> IF r \in Past THEN "callback" ELSE "startNative",
                       client |-> of[r], asks |-> None]
                 ELSE NoCall]
    /\ session = [r \in Requests |-> NoSession]
    /\ won = [r \in Requests |-> None]
    /\ acct = [r \in Requests |-> IF r \in Earlier THEN who[r] ELSE None]
    /\ lease = [r \in Requests |-> None]
    /\ ended = {}
  BY DEF Init
<1> DEFINE Past == {s \in Earlier : who[s] # None}
<1>2. \A s \in Requests :
        /\ s \in Past => record[s] = [user |-> who[s], bind |-> None, until |-> s]
                         /\ active[s] = s
        /\ s \in Earlier \ Past => record[s] = [user |-> None, bind |-> s, until |-> None]
        /\ s \notin Earlier => record[s] = None
        /\ s \notin Past => active[s] = None
  BY <1>1
<1>3. \A r \in Requests :
        /\ r \in Earlier => at[r] = "done" /\ acct[r] = who[r] /\ call[r].client = of[r]
        /\ r \in Past => call[r].kind = "callback"
        /\ r \in Earlier \ Past => call[r].kind = "startNative"
        /\ r \notin Earlier => at[r] = "idle" /\ acct[r] = None /\ call[r] = NoCall
        /\ call[r].asks = None /\ session[r] = NoSession /\ won[r] = None /\ lease[r] = None
  BY <1>1 DEF NoCall
<1>4. attempts = Earlier \ Past /\ handoffs = {} /\ ended = {}
      /\ \A c \in Clients : held[c] = {s \in Earlier : of[s] = c}
  BY <1>1
<1>5. TypeOK
  <2>1. \A s \in Requests : record[s] \in Records \cup {None}
    <3> SUFFICES ASSUME NEW s \in Requests PROVE record[s] \in Records \cup {None}
      OBVIOUS
    <3>1. CASE s \in Past
      <4>1. who[s] \in Users
        BY <3>1
      <4>2. [user |-> who[s], bind |-> None, until |-> s] \in Records
        BY <4>1 DEF Records, Ids, Users
      <4> QED
        BY <1>2, <3>1, <4>2
    <3>2. CASE s \in Earlier \ Past
      <4>1. [user |-> None, bind |-> s, until |-> None] \in Records
        BY DEF Records, Ids, Users
      <4> QED
        BY <1>2, <3>2, <4>1
    <3> QED
      BY <1>2, <3>1, <3>2
  <2>2. record \in [Requests -> Records \cup {None}]
    BY <1>1, <2>1
  <2>3. \A r \in Requests : call[r] \in Calls
    BY <1>1 DEF Calls, NoCall, Kinds, Ids
  <2>4. call \in [Requests -> Calls]
    BY <1>1, <2>3
  <2>5. NoSession \in Sessions
    BY DEF NoSession, Sessions, Ids, Users
  <2>6. acct \in [Requests -> Users] /\ active \in [Requests -> SignIns \cup {None}]
    BY <1>1, <1>3 DEF Users, SignIns
  <2> QED
    BY <1>1, <2>2, <2>4, <2>5, <2>6 DEF TypeOK, Calls, Ids, Position
<1>6. PosInv
  BY <1>3 DEF PosInv, Young, SigningIn, Starts, Redeems, Busy
<1>7. SecretInv
  BY <1>3, <1>4 DEF SecretInv, SingleUse, Over, Starts
<1>8. HeldInv
  BY <1>3, <1>4 DEF HeldInv, HeldDone, HeldOnce, HeldBy, IdKnown, UserHasId, NoSession
<1>9. BindInv
  <2>1. \A r \in Requests : session[r].bind = None
    BY <1>3 DEF NoSession
  <2>2. \A s \in Requests :
          record[s] # None => record[s].bind = None \/ (s \in Earlier /\ record[s].bind = s)
    <3> SUFFICES ASSUME NEW s \in Requests, record[s] # None
                 PROVE  record[s].bind = None \/ (s \in Earlier /\ record[s].bind = s)
      OBVIOUS
    <3>1. CASE s \in Past
      <4>1. record[s] = [user |-> who[s], bind |-> None, until |-> s]
        BY <1>2, <3>1
      <4> QED
        BY <4>1
    <3>2. CASE s \in Earlier \ Past
      <4>1. record[s] = [user |-> None, bind |-> s, until |-> None]
        BY <1>2, <3>2
      <4> QED
        BY <3>2, <4>1
    <3> QED
      BY <1>2, <3>1, <3>2
  <2>3. BindDrawn /\ BindCarried
    BY <1>3, <1>4, <2>1, <2>2 DEF BindDrawn, BindCarried, Over
  <2>4. BindStored
    BY <1>3, <1>4, <2>2 DEF BindStored
  <2> QED
    BY <2>3, <2>4 DEF BindInv
<1>10. ChainInv /\ AccessInv
  BY <1>2, <1>3, <1>4 DEF ChainInv, AccessInv, RowBy, LeaseBy, EndedShut
<1>11. RecordInv
  <2>1. \A r \in Requests : session[r].id = None /\ at[r] \in {"idle", "done"}
    BY <1>3 DEF NoSession
  <2>2. \A s \in Requests : active[s] = s => s \in Past
    BY <1>2
  <2>3. OwnRow
    BY <1>3, <2>2 DEF OwnRow, Over
  <2>4. RevokedRow /\ SignedIn /\ Saved /\ Carried
    BY <2>1 DEF RevokedRow, SignedIn, Saved, Carried, Revoked, SigningIn
  <2>5. RecordOutlivesLease
    <3> SUFFICES ASSUME NEW s \in Past PROVE Good(s)
      BY <2>2 DEF RecordOutlivesLease, Good
    <3>1. record[s] = [user |-> who[s], bind |-> None, until |-> s] /\ acct[s] = who[s]
      BY <1>2, <1>3
    <3>2. record[s] \in Records
      BY <3>1 DEF Records, Ids, Users
    <3> QED
      BY <3>1, <3>2, RecordAssumption DEF Good
  <2> QED
    BY <2>3, <2>4, <2>5 DEF RecordInv
<1> QED
  BY <1>5, <1>6, <1>7, <1>8, <1>9, <1>10, <1>11 DEF IInv

LEMMA Inductive ==
  ASSUME IInv, [Next]_vars
  PROVE IInv'
<1>1. ASSUME NEW r \in Requests, Layers(r) \/ Handlers(r) \/ Sessioning(r)
      PROVE  IInv'
  <2>1. TypeOK'
    BY <1>1, TypeStep DEF IInv
  <2>2. PosInv'
    BY <1>1, <2>1, PosStep DEF IInv
  <2>3. SecretInv'
    BY <1>1, <2>1, SecretStep DEF IInv
  <2>4. HeldInv'
    BY <1>1, <2>1, HeldStep DEF IInv
  <2>5. BindInv'
    BY <1>1, <2>1, BindStep DEF IInv, RecordInv
  <2>6. ChainInv'
    BY <1>1, <2>1, ChainStep DEF IInv
  <2>7. AccessInv'
    BY <1>1, <2>1, AccessStep DEF IInv
  <2>8. RecordInv'
    BY <1>1, <2>1, RecordStep DEF IInv
  <2> QED
    BY <2>1, <2>2, <2>3, <2>4, <2>5, <2>6, <2>7, <2>8 DEF IInv
<1>2. ASSUME NEW q \in Requests, Expire(q)
      PROVE  IInv'
  BY <1>2, ExpireStep
<1>3. CASE UNCHANGED vars
  BY <1>3, StutterStep
<1> QED
  BY <1>1, <1>2, <1>3 DEF Next, AllAnswered

THEOREM Invariance == Spec => []IInv
<1> QED
  BY Initially, Inductive, PTL DEF Spec

-----------------------------------------------------------------------------
(* What a run checks, for every instance.                                    *)

\* Every variable keeps its type, and the rows that open access, the handoffs
\* and the lifetimes are of sign-ins only.
THEOREM TypeCorrect == Spec => []TypeOK
<1>1. IInv => TypeOK
  BY DEF IInv
<1> QED
  BY <1>1, Invariance, PTL

\* AuthService::callback and native_exchange: whatever requests present an
\* attempt or a handoff, and however their DELETE ... RETURNING interleave with
\* expiry and failures, at most one of them redeems it.
THEOREM AtMostOneRedeems == Spec => []SingleUse
<1>1. IInv => SingleUse
  BY DEF IInv, SecretInv
<1> QED
  BY <1>1, Invariance, PTL

\* The browser binding and the native proof: a row that opens access, and the
\* lease of any request, are of the client that began the sign-in.
THEOREM ReturnsToStarter == Spec => []SignInReturnsToStarter
<1>1. IInv => SignInReturnsToStarter
  <2> SUFFICES ASSUME IInv PROVE SignInReturnsToStarter
    OBVIOUS
  <2>1. ASSUME NEW l \in SignIns
        PROVE  Starter(l) = call[l].client
    <3>1. CASE l \in Earlier
      BY <3>1 DEF Starter, IInv, PosInv, SignIns
    <3>2. CASE l \notin Earlier
      <4>1. won[l] # None /\ call[l].kind \in Redeems
        BY <3>2 DEF IInv, PosInv, SignIns
      <4> QED
        BY <2>1, <3>2, <4>1 DEF Starter, IInv, ChainInv, Redeems, SignIns
    <3> QED
      BY <3>1, <3>2
  <2> QED
    BY <2>1, AuthAssumption DEF IInv, TypeOK, AccessInv, LeaseBy, SignInReturnsToStarter
<1> QED
  BY <1>1, Invariance, PTL

\* AuthService::establish: as long as the row of a first sign-in stands, the
\* session record has its account and its lifetime.
THEOREM RecordStands == Spec => []RecordOutlivesLease
<1>1. IInv => RecordOutlivesLease
  BY DEF IInv, RecordInv
<1> QED
  BY <1>1, Invariance, PTL

\* The middleware gives nobody access through an id that was revoked, not even
\* after a save in flight restored the record.
THEOREM RevokedOpensNothing == Spec => NoAccessAfterLogout
<1>1. ASSUME IInv, [Next]_vars
      PROVE  [\A r \in Requests :
                lease[r] = None /\ lease'[r] # None => session[r].id \notin ended]_vars
  <2> SUFFICES ASSUME Next, NEW r \in Requests, lease[r] = None, lease'[r] # None
               PROVE  session[r].id \notin ended
    BY <1>1
  <2>1. Identity(r)
    <3>1. lease' # lease
      OBVIOUS
    <3>2. PICK q \in Requests : Layers(q) \/ Handlers(q) \/ Sessioning(q)
      BY <1>1, <3>1
         DEF Next, AllAnswered, vars, request, Expire, ExpireAttempt, ExpireHandoff,
                        ExpireIdle, ExpireSignIn
    <3>3. Identity(q) \/ Answer(q) \/ Fail(q)
      BY <1>1, <3>1, <3>2, Writes DEF IInv
    <3>4. CASE Identity(q)
      BY <1>1, <3>4 DEF Identity, IInv, TypeOK
    <3>5. CASE Answer(q) \/ Fail(q)
      BY <1>1, <3>5, ForgetEffect DEF Answer, Fail, IInv
    <3> QED
      BY <3>3, <3>4, <3>5
  <2>2. LeaseOf(session[r]) # None
    BY <2>1, <1>1 DEF Identity, IInv, TypeOK
  <2>3. active[session[r].id] # None
    BY <2>2 DEF LeaseOf
  <2> QED
    BY <1>1, <2>3 DEF IInv, AccessInv, EndedShut
<1> QED
  BY <1>1, Invariance, PTL DEF Spec, NoAccessAfterLogout
=============================================================================
