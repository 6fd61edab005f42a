------------------------- MODULE AuthControllerProofs -------------------------
(* What holds of the client's session for every number of credentials,       *)
(* refreshes and product requests, in every order of answers and of          *)
(* SecureStore's calls: answers and credentials belong to the session that   *)
(* is shown, and the screen that waits for the first one is left.            *)
EXTENDS AuthController, Integers, TLAPS

-----------------------------------------------------------------------------
(* The inductive invariant.                                                  *)

\* No save is queued; a session the server accepts is shown, and no 401
\* overtook its save.
NoSaves == \A i \in DOMAIN calls : calls[i].op # "save"
Stands  == shown \in valid /\ ~overtaken
Saved   == job[Action].pc = "save" /\ job[Action].io = "ok"

\* A save is queued behind the call of job j.
SaveBehind(j) ==
  \E i, k \in DOMAIN calls : i < k /\ calls[i].by = j /\ calls[k].op = "save"

\* Which awaits a job has.
PosOf(j) ==
  /\ j \in Refreshers => job[j].pc \in {"idle", "load", "ask", "clear"}
  /\ j \in Fetchers => job[j].pc \in {"idle", "send", "clear"}
  /\ j = Action => job[j].pc \notin {"load", "ask", "send"}
  /\ job[j].pc = "idle" => job[j] = Idle

\* A refresh is current alone, and beside no action.
PosInv ==
  /\ \A j \in Jobs : PosOf(j)
  /\ \A r \in Refreshers : job[r].live =>
       job[Action].pc = "idle" /\ \A s \in Refreshers : job[s].live => s = r

\* A queued call is the one its job waits for.
Fits(c) ==
  /\ job[c.by].io = "out"
  /\ c.op = "load" => job[c.by].pc = "load"
  /\ c.op = "save" => \/ job[c.by].pc = "clear" /\ c.val = None
                      \/ job[c.by].pc = "save" /\ c.val = job[c.by].val
  /\ c.op \in {"plan", "recall"} => job[c.by].pc = c.op
  /\ c.op = "forget" => job[c.by].pc \in {"drop", "forget"}
QueueInv ==
  /\ \A i \in DOMAIN calls : Fits(calls[i])
  /\ \A i, k \in DOMAIN calls : calls[i].by = calls[k].by => i = k

\* Nothing but the first refresh runs before the first answer.
BootInv ==
  status = "loading" =>
    job[Boot].live /\ ~armed /\ \A j \in Jobs \ {Boot} : job[j] = Idle

\* What is kept anywhere was issued.
Known == issued \cup {None}
IssuedInv == /\ mem \in Known /\ stored \in Known /\ shown \in Known
             /\ \A j \in Jobs : job[j].val \in Known

\* The session that is shown is the one in memory and in SecureStore, unless
\* the server has ended it; an action about to show another has stored that.
MemInv ==
  /\ shown # None => mem \in {None, shown}
  /\ Stands => mem = shown
StoreInv ==
  /\ shown # None => stored \in {None, shown} \/ Saved
  /\ Stands => stored = shown /\ NoSaves

\* What a current refresh loaded, and what its answer will set.
Refreshing(r) ==
  job[r].live =>
    /\ job[r].pc = "load" /\ SaveBehind(r) =>
         overtaken \/ (shown # None /\ shown \notin valid)
    /\ (job[r].pc = "load" /\ job[r].io = "ok") \/ job[r].pc = "ask" =>
         /\ job[r].val # None => {stored, shown} \subseteq {None, job[r].val}
         /\ job[r].val \in valid /\ ~overtaken => stored = job[r].val /\ NoSaves
         /\ Stands => job[r].val = shown
    /\ job[r].pc = "ask" /\ job[r].val # None =>
         /\ mem \in {None, job[r].val}
         /\ job[r].val \in valid /\ ~overtaken => mem = job[r].val

\* A product request bears the credential of the session that is shown.
Fetching(f) ==
  job[f].live =>
    /\ shown # None /\ job[f].val \in {None, shown}
    /\ job[f].pc = "send" /\ Stands => job[f].val = shown

\* An action ends the former session before it stores or removes anything.
Acting ==
  LET a == job[Action] IN
  /\ a.pc \in {"exchange", "revoke"} /\ a.io = "out" /\ a.live /\ Stands => a.val = shown
  /\ a.pc \in {"exchange", "revoke"} /\ a.io = "ok" => ~Stands
  /\ a.pc \in {"forget", "save", "clear"} => ~Stands
  /\ (a.pc = "exchange" /\ a.io = "ok") \/ a.pc \in {"forget", "save"} => a.val # None
  /\ a.pc = "save" /\ SaveBehind(Action) => overtaken
  /\ Saved => /\ stored \in {None, a.val}
              /\ ~overtaken => stored = a.val /\ NoSaves

JobOf(j) ==
  /\ j \in Refreshers => Refreshing(j)
  /\ j \in Fetchers => Fetching(j)
  /\ j = Action => Acting
JobInv == \A j \in Jobs : JobOf(j)

IInv == /\ TypeOK /\ PosInv /\ QueueInv /\ BootInv /\ IssuedInv
        /\ MemInv /\ StoreInv /\ JobInv

-----------------------------------------------------------------------------
(* Types.                                                                    *)

Values  == Creds \cup {None}
JobType == [pc : Places, io : {"out", "ok", "failed"}, val : Values, live : BOOLEAN]
Calls   == [by : Jobs, op : {"load", "save", "plan", "recall", "forget"}, val : Values]

LEMMA Distinct ==
  /\ Boot \in Refreshers /\ None \notin Creds
  /\ Refreshers \subseteq Jobs /\ Fetchers \subseteq Jobs /\ Action \in Jobs
  /\ \A r \in Refreshers : r \notin Fetchers /\ r # Action
  /\ \A f \in Fetchers : f \notin Refreshers /\ f # Action
BY ControllerAssumption DEF Jobs

\* What a job can become is a job.
LEMMA JobFields ==
  ASSUME TypeOK, NEW j \in Jobs, NEW p \in Places, NEW v \in Values
  PROVE  /\ Idle \in JobType /\ Begin(p, v) \in JobType /\ Wait(j, p, v) \in JobType
         /\ Dead(j) \in JobType
         /\ [job[j] EXCEPT !.io = "failed"] \in JobType
         /\ [job[j] EXCEPT !.io = "ok", !.val = v] \in JobType
<1> job[j] \in JobType
  BY DEF TypeOK, JobType, Values
<1>1. Idle \in JobType /\ Begin(p, v) \in JobType
  BY DEF Idle, Begin, JobType, Places, Values
<1>2. Wait(j, p, v) \in JobType /\ Dead(j) \in JobType
  BY DEF Wait, Dead, JobType
<1>3. [job[j] EXCEPT !.io = "failed"] \in JobType
  BY DEF JobType
<1>4. [job[j] EXCEPT !.io = "ok", !.val = v] \in JobType
  BY DEF JobType
<1> QED
  BY <1>1, <1>2, <1>3, <1>4

LEMMA AllFields ==
  ASSUME TypeOK
  PROVE  Invalidated \in [Jobs -> JobType] /\ Superseded \in [Jobs -> JobType]
<1>1. \A j \in Jobs : job[j] \in JobType
  BY DEF TypeOK, JobType, Values
<1>2. \A j \in Jobs : Dead(j) \in JobType
  BY <1>1 DEF Dead, JobType
<1>3. Idle \in JobType
  BY DEF Idle, JobType, Places, Values
<1> QED
  BY <1>1, <1>2, <1>3 DEF Invalidated, Superseded

LEMMA QueueFields ==
  ASSUME TypeOK, NEW j \in Jobs, NEW v \in Values,
         NEW op \in {"load", "save", "plan", "recall", "forget"}
  PROVE  Call(j, op, v) \in Seq(Calls)
<1>1. calls \in Seq(Calls) /\ [by |-> j, op |-> op, val |-> v] \in Calls
  BY DEF TypeOK, Calls, Values
<1> QED
  BY <1>1 DEF Call

LEMMA TypeStep == TypeOK /\ [Next]_vars => TypeOK'
<1> SUFFICES ASSUME TypeOK, [Next]_vars PROVE TypeOK'
  OBVIOUS
<1> USE Distinct
<1>1. /\ job \in [Jobs -> JobType] /\ calls \in Seq(Calls)
      /\ \A j \in Jobs : job[j] \in JobType /\ job[j].val \in Values
  BY DEF TypeOK, JobType, Calls, Values
<1> DEFINE Kept == job' \in [Jobs -> JobType] /\ calls' \in Seq(Calls)
           Screen == UNCHANGED <<status, shown>> /\ offered' \in BOOLEAN /\ armed' \in BOOLEAN
           Rest == /\ mem' \in Values /\ stored' \in Values /\ link' \in BOOLEAN
                   /\ overtaken' \in BOOLEAN /\ valid' \subseteq issued' /\ issued' \subseteq Creds
<1>2. ASSUME Kept, Screen, Rest PROVE TypeOK'
  BY <1>2 DEF TypeOK, JobType, Calls, Values
<1>3. ASSUME NEW j \in Jobs, NEW s \in Values, SetSession(j, s)
      PROVE  /\ job' \in [Jobs -> JobType] /\ shown' \in Values /\ armed' \in BOOLEAN
             /\ status' \in {"authenticated", "anonymous"} /\ offered' \in BOOLEAN
             /\ (status' = "authenticated") = (shown' # None)
  <2>1. job' \in [Jobs -> JobType]
    BY <1>3, AllFields, JobFields DEF SetSession, Places, Values
  <2> QED
    BY <1>3, <2>1 DEF SetSession, Values
<1>4. ASSUME NEW j \in Jobs, End(j) PROVE job' \in [Jobs -> JobType]
  BY <1>1, <1>4, JobFields DEF End, Places, Values
<1>5. ASSUME NEW j \in Jobs, NEW p \in Places, NEW v \in Values
      PROVE  [job EXCEPT ![j] = Wait(j, p, v)] \in [Jobs -> JobType]
  BY <1>1, JobFields
<1>6. ASSUME NEW j \in Jobs, NEW p \in Places, NEW v \in Values
      PROVE  /\ [job EXCEPT ![j] = Begin(p, v)] \in [Jobs -> JobType]
             /\ [Superseded EXCEPT ![j] = Begin(p, v)] \in [Jobs -> JobType]
  BY <1>1, JobFields, AllFields
<1>7. ASSUME NEW r \in Refreshers, StartRefresh(r) PROVE Kept
  <2>1. job' \in [Jobs -> JobType]
    BY <1>6, <1>7 DEF StartRefresh, Started, Places, Values
  <2> QED
    BY <1>7, <2>1, QueueFields DEF StartRefresh, Values
<1>8. ASSUME NEW r \in Refreshers, Refresh(r) PROVE TypeOK'
  <2>1. CASE TryAgain(r)
    BY <1>2, <1>7, <2>1 DEF TryAgain, screen, server, TypeOK, Values
  <2>2. CASE Superfluous(r)
    BY <1>1, <1>2, <1>4, <2>2 DEF Superfluous, screen, server, TypeOK, Values
  <2>3. CASE Unavailable(r)
    <3>1. Kept
      BY <1>1, <2>3, AllFields, JobFields DEF Unavailable, Places, Values
    <3> QED
      BY <2>3, <3>1 DEF Unavailable, server, TypeOK, JobType, Calls, Values
  <2>4. CASE Loaded(r)
    <3>1. Kept
      BY <1>1, <1>5, <2>4 DEF Loaded, Places
    <3> QED
      BY <1>1, <1>2, <2>4, <3>1 DEF Loaded, screen, server, TypeOK, Values
  <2>5. CASE Asked(r)
    <3>1. CASE SetSession(r, job[r].val) /\ UNCHANGED calls
      BY <1>1, <1>3, <2>5, <3>1 DEF Asked, server, TypeOK, JobType, Calls, Values
    <3>2. CASE UNCHANGED screen /\ calls' = Call(r, "save", None)
               /\ job' = [job EXCEPT ![r] = Wait(r, "clear", None)]
      <4>1. Kept
        BY <1>5, <3>2, QueueFields DEF Places, Values
      <4> QED
        BY <1>2, <2>5, <3>2, <4>1 DEF Asked, screen, server, TypeOK, Values
    <3> QED
      BY <2>5, <3>1, <3>2 DEF Asked
  <2>6. CASE Cleared(r)
    <3>1. None \in Values
      BY DEF Values
    <3>2. SetSession(r, None) /\ mem' = None /\ UNCHANGED <<stored, calls, server, link, overtaken>>
      BY <2>6 DEF Cleared
    <3> QED
      BY <1>1, <1>3, <3>1, <3>2 DEF server, TypeOK, JobType, Calls, Values
  <2> QED
    BY <1>8, <2>1, <2>2, <2>3, <2>4, <2>5, <2>6 DEF Refresh
<1>9. ASSUME NEW f \in Fetchers, Product(f) PROVE TypeOK'
  <2>1. CASE Fetch(f)
    <3>1. Kept
      BY <1>1, <1>6, <2>1 DEF Fetch, Places, TypeOK, Values
    <3> QED
      BY <1>2, <2>1, <3>1 DEF Fetch, screen, server, TypeOK, Values
  <2>2. CASE Deliver(f) \/ Reject(f)
    BY <1>1, <1>2, <1>4, <2>2 DEF Deliver, Reject, screen, server, TypeOK, Values
  <2>3. CASE Unauthorized(f)
    <3>1. Kept
      BY <1>5, <2>3, QueueFields DEF Unauthorized, Places, Values
    <3>2. Screen /\ Rest
      BY <2>3 DEF Unauthorized, screen, server, TypeOK, Values
    <3> QED
      BY <1>2, <3>1, <3>2
  <2>4. CASE SignedOut(f)
    <3>1. None \in Values
      BY DEF Values
    <3>2. SetSession(f, None) /\ UNCHANGED <<mem, stored, calls, server, link, overtaken>>
      BY <2>4 DEF SignedOut
    <3> QED
      BY <1>1, <1>3, <3>1, <3>2 DEF server, TypeOK, JobType, Calls, Values
  <2> QED
    BY <1>9, <2>1, <2>2, <2>3, <2>4 DEF Product
<1>10. ASSUME TimerFires PROVE TypeOK'
  BY <1>1, <1>2, <1>7, <1>10 DEF TimerFires, server, TypeOK, Values
<1>11. ASSUME Login \/ LinkOpens \/ Logout PROVE TypeOK'
  <2>1. CASE Login
    <3>1. Kept
      BY <1>6, <2>1, QueueFields DEF Login, Act, Places, Values
    <3> QED
      BY <1>2, <2>1, <3>1 DEF Login, screen, server, TypeOK, Values
  <2>2. CASE LinkOpens
    <3>1. Kept
      <4>1. CASE UNCHANGED <<job, calls>>
        BY <1>1, <4>1
      <4>2. CASE /\ job' = [Superseded EXCEPT ![Action] = Begin("recall", None)]
                 /\ calls' = Call(Action, "recall", None)
        <5>1. "recall" \in Places /\ None \in Values
          BY DEF Places, Values
        <5>2. job' \in [Jobs -> JobType]
          BY <1>6, <4>2, <5>1
        <5>3. calls' \in Seq(Calls)
          BY <4>2, <5>1, QueueFields
        <5> QED
          BY <5>2, <5>3
      <4> QED
        BY <2>2, <4>1, <4>2 DEF LinkOpens, Act
    <3> QED
      BY <1>2, <2>2, <3>1 DEF LinkOpens, screen, server, TypeOK, Values
  <2>3. CASE Logout
    <3>1. Kept
      BY <1>1, <1>6, <2>3 DEF Logout, Act, Places, TypeOK, Values
    <3> QED
      BY <1>2, <2>3, <3>1 DEF Logout, screen, server, TypeOK, Values
  <2> QED
    BY <1>11, <2>1, <2>2, <2>3
<1>12. ASSUME BrowserReturns PROVE TypeOK'
  <2>1. PICK op \in {"recall", "drop"} :
          /\ calls' = Call(Action, IF op = "drop" THEN "forget" ELSE op, None)
          /\ job' = [job EXCEPT ![Action] = Wait(Action, op, None)]
    BY <1>12 DEF BrowserReturns, Then
  <2>2. job' \in [Jobs -> JobType]
    BY <1>5, <2>1 DEF Places, Values
  <2>3. calls' \in Seq(Calls)
    BY <2>1, QueueFields DEF Values
  <2> QED
    BY <1>2, <1>12, <2>2, <2>3 DEF BrowserReturns, screen, server, TypeOK, Values
<1>13. ASSUME RunAction PROVE TypeOK'
  <2>1. CASE Planned \/ Recalled \/ Exchanged \/ Redeemed \/ Revoked
    <3>1. Kept
      <4>1. CASE Planned
        BY <1>1, <1>5, <4>1 DEF Planned, Then, Places, Values
      <4>2. CASE Recalled
        <5>1. mem \in Values
          BY DEF TypeOK, Values
        <5>2. CASE job' = [job EXCEPT ![Action] = Begin("exchange", mem)] /\ UNCHANGED calls
          BY <1>1, <1>6, <5>1, <5>2 DEF Places
        <5>3. CASE /\ job' = [job EXCEPT ![Action] = Wait(Action, "drop", None)]
                   /\ calls' = Call(Action, "forget", None)
          <6>1. "drop" \in Places /\ None \in Values
            BY DEF Places, Values
          <6>2. job' \in [Jobs -> JobType]
            BY <1>5, <5>3, <6>1
          <6>3. calls' \in Seq(Calls)
            BY <5>3, <6>1, QueueFields
          <6> QED
            BY <6>2, <6>3
        <5> QED
          BY <4>2, <5>2, <5>3 DEF Recalled, Then
      <4>3. CASE Exchanged
        BY <1>1, <1>5, <4>3, QueueFields DEF Exchanged, Then, Places, Values
      <4>4. CASE Redeemed
        BY <1>1, <1>5, <4>4, QueueFields DEF Redeemed, Then, Places
      <4>5. CASE Revoked
        BY <1>1, <1>5, <4>5, QueueFields DEF Revoked, Then, Places, Values
      <4> QED
        BY <2>1, <4>1, <4>2, <4>3, <4>4, <4>5
    <3>2. Screen /\ Rest
      BY <2>1
         DEF Planned, Recalled, Exchanged, Redeemed, Revoked, screen, server, TypeOK, Values
    <3> QED
      BY <1>2, <3>1, <3>2
  <2>2. CASE SignedIn \/ LoggedOut
    <3>1. PICK s \in Values : SetSession(Action, s) /\ mem' = s
      BY <1>1, <2>2 DEF SignedIn, LoggedOut, Values
    <3>2. UNCHANGED <<stored, calls, server, link, overtaken>>
      BY <2>2 DEF SignedIn, LoggedOut
    <3> QED
      BY <1>1, <1>3, <3>1, <3>2 DEF server, TypeOK, JobType, Calls, Values
  <2>3. CASE ActionFails
    BY <1>1, <1>2, <1>4, <2>3 DEF ActionFails, screen, server, TypeOK, Values
  <2> QED
    BY <1>13, <2>1, <2>2, <2>3 DEF RunAction
<1>14. ASSUME StorePerforms PROVE TypeOK'
  <2>1. calls # <<>> /\ Head(calls) \in Calls /\ Tail(calls) \in Seq(Calls)
    BY <1>1, <1>14 DEF StorePerforms
  <2>2. Head(calls).by \in Jobs /\ Head(calls).val \in Values
    BY <2>1 DEF Calls
  <2>3. stored' \in Values
    BY <1>14, <2>2 DEF StorePerforms, TypeOK, Values
  <2>4. job' \in [Jobs -> JobType]
    <3> DEFINE c == Head(calls)
               v == IF c.op = "load" /\ job[c.by].live THEN stored ELSE job[c.by].val
    <3>1. v \in Values
      BY <1>1, <2>2 DEF TypeOK, Values
    <3>2. \/ job' = [job EXCEPT ![c.by] = [job[c.by] EXCEPT !.io = "failed"]]
          \/ job' = [job EXCEPT ![c.by] = [job[c.by] EXCEPT !.io = "ok", !.val = v]]
      BY <1>1, <1>14, <2>2 DEF StorePerforms
    <3> HIDE DEF v
    <3>3. /\ [job[c.by] EXCEPT !.io = "failed"] \in JobType
          /\ [job[c.by] EXCEPT !.io = "ok", !.val = v] \in JobType
      <4>1. "idle" \in Places
        BY DEF Places
      <4> QED
        BY <2>2, <3>1, <4>1, JobFields
    <3> QED
      BY <1>1, <2>2, <3>2, <3>3
  <2> QED
    BY <1>2, <1>14, <2>1, <2>3, <2>4 DEF StorePerforms, screen, server, TypeOK, Values
<1>15. ASSUME NEW j \in Jobs, NEW v \in Values
       PROVE  /\ [job EXCEPT ![j].io = "failed"] \in [Jobs -> JobType]
              /\ [job EXCEPT ![j].io = "ok", ![j].val = v] \in [Jobs -> JobType]
  <2>1. /\ [job[j] EXCEPT !.io = "failed"] \in JobType
        /\ [job[j] EXCEPT !.io = "ok", !.val = v] \in JobType
    BY JobFields DEF Places
  <2> QED
    BY <1>1, <2>1
<1>16. ASSUME NEW j \in Refreshers \cup Fetchers, ServerAnswers(j) PROVE TypeOK'
  <2>1. Kept
    <3>1. \/ job' = [job EXCEPT ![j].io = "failed"]
          \/ \E v \in Values : job' = [job EXCEPT ![j].io = "ok", ![j].val = v]
      BY <1>1, <1>16 DEF ServerAnswers, Answered, Values, Jobs
    <3>2. job' \in [Jobs -> JobType]
      <4>1. j \in Jobs /\ None \in Values
        BY <1>16, Distinct DEF Values
      <4>2. PICK v \in Values : \/ job' = [job EXCEPT ![j].io = "failed"]
                               \/ job' = [job EXCEPT ![j].io = "ok", ![j].val = v]
        BY <3>1, <4>1
      <4> QED
        <5>1. /\ [job EXCEPT ![j].io = "failed"] \in [Jobs -> JobType]
              /\ [job EXCEPT ![j].io = "ok", ![j].val = v] \in [Jobs -> JobType]
          BY <1>15, <4>1
        <5> QED
          BY <4>2, <5>1
    <3> QED
      BY <1>1, <1>16, <3>2 DEF ServerAnswers
  <2> QED
    BY <1>2, <1>16, <2>1 DEF ServerAnswers, screen, server, TypeOK, Values
<1>17. ASSUME ServerExchanges \/ ServerRevokes PROVE TypeOK'
  <2>1. Kept
    <3>1. \/ job' = [job EXCEPT ![Action].io = "failed"]
          \/ \E v \in Values : job' = [job EXCEPT ![Action].io = "ok", ![Action].val = v]
      BY <1>17 DEF ServerExchanges, ServerRevokes, Answered, Values
    <3>2. job' \in [Jobs -> JobType]
      <4>1. None \in Values
        BY DEF Values
      <4>2. PICK v \in Values : \/ job' = [job EXCEPT ![Action].io = "failed"]
                               \/ job' = [job EXCEPT ![Action].io = "ok", ![Action].val = v]
        BY <3>1, <4>1
      <4> QED
        <5>1. /\ [job EXCEPT ![Action].io = "failed"] \in [Jobs -> JobType]
              /\ [job EXCEPT ![Action].io = "ok", ![Action].val = v] \in [Jobs -> JobType]
          BY <1>15
        <5> QED
          BY <4>2, <5>1
    <3> QED
      BY <1>1, <1>17, <3>2 DEF ServerExchanges, ServerRevokes
  <2>2. valid' \subseteq issued' /\ issued' \subseteq Creds
    BY <1>17 DEF ServerExchanges, ServerRevokes, TypeOK
  <2> QED
    BY <1>2, <1>17, <2>1, <2>2 DEF ServerExchanges, ServerRevokes, screen, TypeOK, Values
<1>18. ASSUME NEW c \in Creds, Lapse(c) PROVE TypeOK'
  BY <1>1, <1>2, <1>18 DEF Lapse, screen, TypeOK, Values
<1>19. CASE UNCHANGED vars
  BY <1>1, <1>2, <1>19 DEF vars, screen, server, TypeOK, Values
<1> QED
  BY <1>8, <1>9, <1>10, <1>11, <1>12, <1>13, <1>14, <1>16, <1>17, <1>18, <1>19 DEF Next

-----------------------------------------------------------------------------
(* The queue of SecureStore.                                                 *)

\* No call of job j is queued.
Free(j) == \A i \in DOMAIN calls : calls[i].by # j

LEMMA Queued ==
  ASSUME TypeOK
  PROVE  /\ calls \in Seq(Calls)
         /\ \A i \in DOMAIN calls : i \in Nat /\ i <= Len(calls) /\ calls[i] \in Calls
<1>1. calls \in Seq(Calls)
  BY DEF TypeOK, Calls, Values
<1> QED
  BY <1>1

LEMMA Busy ==
  ASSUME QueueInv, TypeOK, NEW j \in Jobs,
         job[j].io # "out" \/ job[j].pc \in {"idle", "ask", "send", "browse", "exchange", "revoke"}
  PROVE  Free(j)
<1> SUFFICES ASSUME NEW i \in DOMAIN calls, calls[i].by = j PROVE FALSE
  BY DEF Free
<1>1. calls[i] \in Calls /\ Fits(calls[i])
  BY Queued DEF QueueInv
<1> QED
  BY <1>1 DEF Fits, Calls

\* Job j queues a call: it is the last one.
LEMMA Appended ==
  ASSUME TypeOK, NEW c \in Calls, calls' = Append(calls, c)
  PROVE  \E n \in Nat :
           /\ n \notin DOMAIN calls /\ DOMAIN calls' = DOMAIN calls \cup {n}
           /\ \A i \in DOMAIN calls : i < n /\ calls'[i] = calls[i]
           /\ calls'[n] = c
<1>1. calls \in Seq(Calls)
  BY Queued
<1>2. DOMAIN calls = 1..Len(calls) /\ Len(calls) \in Nat
  BY <1>1
<1>3. DOMAIN calls' = 1..(Len(calls) + 1)
  BY <1>1
<1>4. calls'[Len(calls) + 1] = c /\ \A i \in DOMAIN calls : calls'[i] = calls[i]
  BY <1>1, <1>2
<1>5. Len(calls) + 1 \in Nat
  BY <1>2
<1> QED
  BY <1>2, <1>3, <1>4, <1>5

LEMMA AppendedSaves ==
  ASSUME TypeOK, NEW c \in Calls, calls' = Append(calls, c)
  PROVE  /\ NoSaves' <=> NoSaves /\ c.op # "save"
         /\ \A k \in Jobs : SaveBehind(k)' => SaveBehind(k) \/ c.op = "save"
         /\ Free(c.by) => ~SaveBehind(c.by)'
<1>1. PICK n \in Nat :
        /\ n \notin DOMAIN calls /\ DOMAIN calls' = DOMAIN calls \cup {n}
        /\ \A i \in DOMAIN calls : i < n /\ calls'[i] = calls[i]
        /\ calls'[n] = c
  BY Appended
<1>2. \A i \in DOMAIN calls : i \in Nat
  BY Queued
<1>3. NoSaves' <=> NoSaves /\ c.op # "save"
  BY <1>1 DEF NoSaves
<1>4. \A k \in Jobs : SaveBehind(k)' => SaveBehind(k) \/ c.op = "save"
  BY <1>1, <1>2 DEF SaveBehind
<1>5. Free(c.by) => ~SaveBehind(c.by)'
  BY <1>1, <1>2 DEF SaveBehind, Free
<1> QED
  BY <1>3, <1>4, <1>5

\* SecureStore takes the oldest call.
LEMMA Taken ==
  ASSUME TypeOK, calls # <<>>, calls' = Tail(calls)
  PROVE  /\ 1 \in DOMAIN calls /\ Head(calls) = calls[1]
         /\ \A i \in DOMAIN calls' :
              i \in Nat /\ i + 1 \in DOMAIN calls /\ calls'[i] = calls[i + 1] /\ 1 < i + 1
<1>1. calls \in Seq(Calls)
  BY Queued
<1>2. Len(calls) \in Nat \ {0} /\ DOMAIN calls = 1..Len(calls)
  BY <1>1
<1>3. 1 \in DOMAIN calls /\ Head(calls) = calls[1]
  BY <1>1, <1>2
<1>4. DOMAIN calls' = 1..(Len(calls) - 1)
  BY <1>1, <1>2
<1>5. \A i \in DOMAIN calls' : calls'[i] = calls[i + 1]
  BY <1>1, <1>2, <1>4
<1> QED
  BY <1>2, <1>3, <1>4, <1>5

LEMMA TakenSaves ==
  ASSUME TypeOK, calls # <<>>, calls' = Tail(calls)
  PROVE  /\ NoSaves => NoSaves'
         /\ \A k \in Jobs : SaveBehind(k)' => SaveBehind(k)
         /\ ~SaveBehind(Head(calls).by) => NoSaves'
<1>1. /\ 1 \in DOMAIN calls /\ Head(calls) = calls[1]
      /\ \A i \in DOMAIN calls' :
           i \in Nat /\ i + 1 \in DOMAIN calls /\ calls'[i] = calls[i + 1] /\ 1 < i + 1
  BY Taken
<1>2. NoSaves => NoSaves'
  BY <1>1 DEF NoSaves
<1>3. \A k \in Jobs : SaveBehind(k)' => SaveBehind(k)
  <2> SUFFICES ASSUME NEW k \in Jobs, SaveBehind(k)' PROVE SaveBehind(k)
    OBVIOUS
  <2>1. PICK i \in DOMAIN calls', l \in DOMAIN calls' :
          i < l /\ calls'[i].by = k /\ calls'[l].op = "save"
    BY DEF SaveBehind
  <2>2. i + 1 < l + 1
    BY <1>1, <2>1
  <2> QED
    BY <1>1, <2>1, <2>2 DEF SaveBehind
<1>4. ~SaveBehind(Head(calls).by) => NoSaves'
  BY <1>1 DEF NoSaves, SaveBehind
<1> QED
  BY <1>2, <1>3, <1>4

\* What Fits looks at.
SameCall(k) == job'[k].pc = job[k].pc /\ job'[k].io = job[k].io /\ job'[k].val = job[k].val

LEMMA QueueKept ==
  ASSUME TypeOK, QueueInv, calls' = calls,
         \A k \in Jobs : Free(k) \/ SameCall(k)
  PROVE  QueueInv'
<1>1. ASSUME NEW i \in DOMAIN calls PROVE Fits(calls[i])'
  <2>1. calls[i].by \in Jobs /\ Fits(calls[i]) /\ ~Free(calls[i].by)
    BY Queued DEF QueueInv, Calls, Free
  <2> QED
    BY <2>1 DEF Fits, SameCall
<1> QED
  BY <1>1 DEF QueueInv

LEMMA QueueGrows ==
  ASSUME TypeOK, QueueInv, NEW c \in Calls, calls' = Append(calls, c),
         \A k \in Jobs : Free(k) \/ SameCall(k), Free(c.by), Fits(c)'
  PROVE  QueueInv'
<1>1. PICK n \in Nat :
        /\ n \notin DOMAIN calls /\ DOMAIN calls' = DOMAIN calls \cup {n}
        /\ \A i \in DOMAIN calls : i < n /\ calls'[i] = calls[i]
        /\ calls'[n] = c
  BY Appended
<1>2. ASSUME NEW i \in DOMAIN calls PROVE Fits(calls[i])'
  <2>1. calls[i].by \in Jobs /\ Fits(calls[i]) /\ ~Free(calls[i].by)
    BY Queued DEF QueueInv, Calls, Free
  <2> QED
    BY <1>1, <2>1 DEF Fits, SameCall
<1>3. Fits(calls[n])'
  BY <1>1 DEF Fits
<1>4. \A i \in DOMAIN calls' : Fits(calls[i])'
  BY <1>1, <1>2, <1>3
<1>5. \A i, k \in DOMAIN calls' : calls'[i].by = calls'[k].by => i = k
  BY <1>1 DEF QueueInv, Free
<1> QED
  BY <1>4, <1>5 DEF QueueInv

-----------------------------------------------------------------------------
(* What a step of one job means to the others.                               *)

\* Nobody but job j moves.
Moves(j) == \A k \in Jobs : k # j => job'[k] = job[k]

\* No refresh but j is current.
Alone(j) == \A r \in Refreshers : r # j => ~job[r].live

\* The server accepts nothing again, and a 401 that overtook stays.
Forward == /\ \A v \in Known : v \in valid' => v \in valid
           /\ overtaken => overtaken'

\* What job j does to memory, SecureStore and the queue, next to what it
\* changes only when no other job depends on it.
MemFor(j) == \/ mem' = mem
             \/ mem' = None /\ ~Stands /\ shown # None
             \/ Alone(j)
StoredFor(j) == \/ stored' = stored
                \/ stored' = None /\ ~NoSaves
                \/ Alone(j) /\ j = Action
SavesFor(j) == \/ (NoSaves => NoSaves') /\ \A k \in Jobs : SaveBehind(k)' => SaveBehind(k)
               \/ /\ ~Stands /\ (shown # None \/ Alone(j))
                  /\ job[Action].pc = "save" => j = Action \/ overtaken'

LEMMA Others ==
  ASSUME IInv, NEW j \in Jobs, Moves(j), shown' = shown, Forward,
         MemFor(j), StoredFor(j), SavesFor(j)
  PROVE  \A k \in Jobs : k # j => JobOf(k)'
<1> USE Distinct
<1>1. /\ valid \subseteq Creds /\ shown \in Known /\ None \notin valid
      /\ \A k \in Jobs : job[k].val \in Known
  BY DEF IInv, TypeOK, IssuedInv
<1>2. Stands' => Stands
  BY <1>1 DEF Forward, Stands
<1>3. ~NoSaves => ~Stands
  BY DEF IInv, StoreInv
<1>4. ASSUME NEW r \in Refreshers, r # j PROVE Refreshing(r)'
  <2> SUFFICES ASSUME job[r].live PROVE Refreshing(r)'
    BY <1>4 DEF Moves, Refreshing
  <2>1. job'[r] = job[r] /\ Refreshing(r)
    BY <1>4 DEF Moves, IInv, JobInv, JobOf
  <2>2. ~Alone(j)
    BY <1>4 DEF Alone
  <2>3. SaveBehind(r)' /\ job[r].pc = "load" =>
          overtaken' \/ (shown' # None /\ shown' \notin valid')
    BY <1>1, <2>1, <2>2 DEF Refreshing, SavesFor, Stands, Forward
  <2>4. ASSUME (job[r].pc = "load" /\ job[r].io = "ok") \/ job[r].pc = "ask"
        PROVE  /\ job[r].val # None => {stored', shown'} \subseteq {None, job[r].val}
               /\ job[r].val \in valid' /\ ~overtaken' => stored' = job[r].val /\ NoSaves'
               /\ Stands' => job[r].val = shown'
    <3>1. job[r].val # None => {stored', shown'} \subseteq {None, job[r].val}
      BY <2>1, <2>2, <2>4 DEF Refreshing, StoredFor
    <3>2. ASSUME job[r].val \in valid', ~overtaken' PROVE stored' = job[r].val /\ NoSaves'
      <4>1. job[r].val \in valid /\ ~overtaken /\ job[r].val # None
        BY <1>1, <3>2 DEF Forward
      <4>2. stored = job[r].val /\ NoSaves /\ shown \in {None, job[r].val}
        BY <2>1, <2>4, <4>1 DEF Refreshing
      <4>3. ~Stands => shown = None
        BY <4>1, <4>2 DEF Stands
      <4> QED
        BY <2>2, <4>2, <4>3 DEF StoredFor, SavesFor
    <3>3. Stands' => job[r].val = shown'
      BY <1>2, <2>1, <2>4 DEF Refreshing
    <3> QED
      BY <3>1, <3>2, <3>3
  <2>5. ASSUME job[r].pc = "ask", job[r].val # None
        PROVE  /\ mem' \in {None, job[r].val}
               /\ job[r].val \in valid' /\ ~overtaken' => mem' = job[r].val
    <3>1. mem \in {None, job[r].val} /\ shown \in {None, job[r].val}
      BY <2>1, <2>5 DEF Refreshing
    <3>2. CASE mem' = mem
      BY <1>1, <2>1, <2>5, <3>1, <3>2 DEF Refreshing, Forward
    <3>3. CASE mem' = None /\ ~Stands /\ shown # None
      BY <1>1, <3>1, <3>3 DEF Stands, Forward
    <3> QED
      BY <2>2, <3>2, <3>3 DEF MemFor
  <2> QED
    BY <2>1, <2>3, <2>4, <2>5 DEF Refreshing
<1>5. ASSUME NEW f \in Fetchers, f # j PROVE Fetching(f)'
  <2>1. job'[f] = job[f] /\ Fetching(f)
    BY <1>5 DEF Moves, IInv, JobInv, JobOf
  <2> QED
    BY <1>2, <2>1 DEF Fetching
<1>6. ASSUME j # Action PROVE Acting'
  <2>1. job'[Action] = job[Action] /\ Acting
    BY <1>6 DEF Moves, IInv, JobInv, JobOf
  <2>2. Saved' => Saved
    BY <2>1 DEF Saved
  <2>3. ASSUME Saved PROVE /\ stored' \in {None, job[Action].val}
                           /\ ~overtaken' => stored' = job[Action].val /\ NoSaves'
    <3>1. stored \in {None, job[Action].val} /\ (~overtaken => stored = job[Action].val /\ NoSaves)
      BY <2>1, <2>3 DEF Acting
    <3>2. stored' \in {None, job[Action].val}
      BY <1>6, <3>1 DEF StoredFor
    <3>3. ~overtaken' => stored' = job[Action].val /\ NoSaves'
      BY <1>6, <2>3, <3>1 DEF StoredFor, SavesFor, Forward, Saved
    <3> QED
      BY <3>2, <3>3
  <2>4. job[Action].pc = "save" /\ SaveBehind(Action)' => overtaken'
    BY <1>6, <2>1 DEF Acting, SavesFor, Forward
  <2> QED
    BY <1>2, <2>1, <2>2, <2>3, <2>4 DEF Acting
<1> QED
  BY <1>4, <1>5, <1>6 DEF JobOf

\* A step of job j alone: the screen stays, and what j is afterwards it may be.
LEMMA OneMoves ==
  ASSUME IInv, TypeOK', NEW j \in Jobs, Moves(j), Forward,
         UNCHANGED <<status, shown>>, armed' => armed,
         Known \subseteq Known', job'[j].val \in Known',
         PosOf(j)', JobOf(j)',
         j \in Refreshers /\ job'[j].live => job[j].live,
         job[Action].pc = "idle" => job'[Action].pc = "idle",
         status = "loading" => job'[j] = job[j] \/ (j = Boot /\ job'[j].live),
         MemFor(j), Alone(j) /\ mem' # mem => MemInv' /\ mem' \in Known',
         StoredFor(j), j = Action /\ stored' # stored => StoreInv' /\ stored' \in Known',
         Saved => Saved',
         SavesFor(j), QueueInv'
  PROVE  IInv'
<1> USE Distinct
<1>1. /\ valid \subseteq Creds /\ shown \in Known /\ None \notin valid /\ None \in Known'
      /\ \A k \in Jobs : job[k].val \in Known
  BY DEF IInv, TypeOK, IssuedInv, Known
<1>2. Stands' => Stands
  BY <1>1 DEF Forward, Stands
<1>3. JobInv'
  BY Others DEF JobInv
<1>4. PosInv'
  <2>1. \A k \in Jobs : PosOf(k)'
    BY DEF IInv, PosInv, PosOf, Moves
  <2>2. \A r \in Refreshers : job'[r].live => job[r].live
    BY DEF Moves
  <2> QED
    BY <2>1, <2>2 DEF IInv, PosInv
<1>5. BootInv'
  BY DEF IInv, BootInv, Moves
<1>6. MemInv' /\ mem' \in Known'
  <2>1. CASE mem' = mem
    BY <1>2, <2>1 DEF IInv, MemInv, IssuedInv
  <2>2. CASE mem' = None /\ ~Stands /\ shown # None
    BY <1>1, <1>2, <2>2 DEF MemInv
  <2> QED
    BY <2>1, <2>2 DEF MemFor
<1>7. StoreInv' /\ stored' \in Known'
  <2>1. Stands => NoSaves /\ stored = shown
    BY DEF IInv, StoreInv
  <2>2. ASSUME stored' = stored \/ (stored' = None /\ ~NoSaves)
        PROVE  StoreInv' /\ stored' \in Known'
    <3>1. Stands' => stored' = shown' /\ NoSaves'
      <4> SUFFICES ASSUME Stands' PROVE stored' = shown' /\ NoSaves'
        OBVIOUS
      <4>1. Stands /\ shown # None /\ NoSaves /\ stored = shown
        BY <1>1, <1>2, <2>1 DEF Stands
      <4>2. NoSaves'
        BY <4>1 DEF SavesFor
      <4> QED
        BY <2>2, <4>1, <4>2
    <3> QED
      BY <1>1, <2>2, <3>1 DEF IInv, StoreInv, IssuedInv
  <2> QED
    BY <2>2 DEF StoredFor
<1>8. IssuedInv'
  BY <1>1, <1>6, <1>7 DEF IssuedInv, Moves
<1> QED
  BY <1>3, <1>4, <1>5, <1>6, <1>7, <1>8 DEF IInv

\* A call that is no longer current is otherwise the same.
LEMMA DeadFields ==
  ASSUME TypeOK, NEW k \in Jobs
  PROVE  /\ Dead(k).pc = job[k].pc /\ Dead(k).io = job[k].io /\ Dead(k).val = job[k].val
         /\ ~Dead(k).live
         /\ job[k] = Idle => Dead(k) = Idle
<1>1. job[k] \in JobType
  BY DEF TypeOK, JobType, Values
<1>2. /\ Dead(k).pc = job[k].pc /\ Dead(k).io = job[k].io /\ Dead(k).val = job[k].val
      /\ ~Dead(k).live
  BY <1>1 DEF Dead, JobType
<1>3. job[k] = Idle => Dead(k) = Idle
  <2>1. \A x \in JobType : x.live = FALSE => [x EXCEPT !.live = FALSE] = x
    BY DEF JobType
  <2>2. Idle.live = FALSE
    BY DEF Idle
  <2> QED
    BY <1>1, <2>1, <2>2 DEF Dead
<1> QED
  BY <1>2, <1>3

\* Job j ends the revision: nothing is current any more.
LEMMA Cut ==
  ASSUME IInv, TypeOK', NEW j \in Jobs, Free(j), job' = [Invalidated EXCEPT ![j] = Idle],
         status' # "loading", UNCHANGED <<calls, stored, server, overtaken>>,
         mem' \in Known, shown' \in Known, MemInv', StoreInv',
         j = Action \/ job[Action].pc = "idle" \/ ~Stands'
  PROVE  IInv'
<1> USE Distinct
<1>1. /\ job'[j] = Idle
      /\ \A k \in Jobs : k # j => \/ job'[k] = Dead(k)
                                  \/ job'[k] = Idle /\ job[k].pc \in {"ask", "send"}
  BY DEF IInv, TypeOK, Invalidated
<1>2. \A k \in Jobs : job[k] \in JobType
  BY DEF IInv, TypeOK, JobType, Values
<1>3. \A k \in Jobs : ~job'[k].live /\ (job'[k] = Idle \/ SameCall(k))
  <2>1. ~Idle.live
    BY DEF Idle
  <2> QED
    BY <1>1, <2>1, DeadFields DEF IInv, SameCall
<1>4. PosInv'
  <2>1. \A k \in Jobs : PosOf(k)'
    <3> SUFFICES ASSUME NEW k \in Jobs PROVE PosOf(k)'
      OBVIOUS
    <3>1. PosOf(k)
      BY DEF IInv, PosInv
    <3>2. CASE job'[k] = Idle
      BY <3>2 DEF PosOf, Idle
    <3>3. CASE k # j /\ job'[k] = Dead(k)
      BY <3>1, <3>3, DeadFields DEF IInv, PosOf
    <3> QED
      BY <1>1, <3>2, <3>3
  <2> QED
    BY <1>3, <2>1 DEF PosInv
<1>5. QueueInv'
  <2>1. \A k \in Jobs : Free(k) \/ SameCall(k)
    <3> SUFFICES ASSUME NEW k \in Jobs, ~SameCall(k), k # j PROVE Free(k)
      OBVIOUS
    <3>1. job[k].pc \in {"ask", "send"}
      BY <1>1, DeadFields DEF IInv, SameCall
    <3> QED
      BY <3>1, Busy DEF IInv
  <2> QED
    BY <2>1, QueueKept DEF IInv
<1>6. BootInv'
  BY DEF BootInv
<1>7. IssuedInv'
  <2>1. Known' = Known
    BY DEF Known, server
  <2>2. \A k \in Jobs : job'[k].val \in Known
    BY <1>3 DEF IInv, IssuedInv, SameCall, Idle, Known
  <2> QED
    BY <2>1, <2>2 DEF IInv, IssuedInv
<1>8. JobInv'
  <2>1. ASSUME NEW k \in Jobs
        PROVE  (k \in Refreshers => Refreshing(k)') /\ (k \in Fetchers => Fetching(k)')
    BY <1>3 DEF Refreshing, Fetching
  <2>2. Acting'
    <3>1. CASE job'[Action] = Idle
      BY <3>1 DEF Acting, Idle, Saved
    <3>2. CASE job'[Action] # Idle
      <4>1. SameCall(Action) /\ ~job'[Action].live /\ Action # j
        BY <1>1, <1>3, <3>2
      <4>2. job[Action].pc # "idle"
        <5>1. PosOf(Action)
          BY DEF IInv, PosInv
        <5> QED
          BY <1>1, <3>2, <4>1, <5>1 DEF PosOf, Dead, Idle
      <4>3. /\ ~Stands' /\ Acting
            /\ (SaveBehind(Action)' <=> SaveBehind(Action)) /\ (NoSaves' <=> NoSaves)
        BY <4>1, <4>2 DEF IInv, JobInv, JobOf, SaveBehind, NoSaves
      <4> QED
        BY <4>1, <4>3 DEF Acting, SameCall, Saved
    <3> QED
      BY <3>1, <3>2
  <2> QED
    BY <2>1, <2>2 DEF JobInv, JobOf
<1> QED
  BY <1>4, <1>5, <1>6, <1>7, <1>8 DEF IInv

\* A refresh or an action begins, and the refreshes before it are superseded.
LEMMA Starts ==
  ASSUME IInv, TypeOK', NEW j \in Jobs, NEW p \in Places, NEW v \in Known,
         j \in Refreshers \/ j = Action, job[Action].pc = "idle", job[j].pc = "idle",
         status # "loading",
         job' = [Superseded EXCEPT ![j] = Begin(p, v)],
         UNCHANGED <<mem, stored, status, shown, server, overtaken>>,
         calls' = calls \/ \E c \in Calls : /\ calls' = Append(calls, c)
                                             /\ c.by = j /\ c.op # "save" /\ Fits(c)',
         PosOf(j)', JobOf(j)'
  PROVE  IInv'
<1> USE Distinct
<1>1. /\ job'[j] = Begin(p, v)
      /\ \A k \in Jobs : k # j => job'[k] = IF k \in Refreshers THEN Dead(k) ELSE job[k]
  BY DEF IInv, TypeOK, Superseded
<1>2. \A k \in Jobs : job[k] \in JobType
  BY DEF IInv, TypeOK, JobType, Values
<1>3. \A k \in Jobs : k # j => SameCall(k) /\ (k \in Refreshers => ~job'[k].live)
  BY <1>1, DeadFields DEF IInv, SameCall
<1>4. Free(j)
  BY Busy DEF IInv
<1>5. PosInv'
  <2>1. \A k \in Jobs : PosOf(k)'
    <3> SUFFICES ASSUME NEW k \in Jobs, k # j PROVE PosOf(k)'
      OBVIOUS
    <3>1. PosOf(k)
      BY DEF IInv, PosInv
    <3> QED
      BY <1>1, <3>1, DeadFields DEF IInv, PosOf
  <2>2. ASSUME NEW r \in Refreshers, job'[r].live
        PROVE  job'[Action].pc = "idle" /\ \A s \in Refreshers : job'[s].live => s = r
    BY <1>1, <1>3, <2>2
  <2> QED
    BY <2>1, <2>2 DEF PosInv
<1>6. QueueInv'
  <2>1. \A k \in Jobs : Free(k) \/ SameCall(k)
    BY <1>3, <1>4
  <2> QED
    BY <1>4, <2>1, QueueKept, QueueGrows DEF IInv
<1>7. NoSaves' <=> NoSaves
  BY AppendedSaves DEF IInv, NoSaves
<1>8. IssuedInv'
  <2>1. Known' = Known
    BY DEF Known, server
  <2>2. \A k \in Jobs : job'[k].val \in Known
    BY <1>1, <1>3 DEF IInv, IssuedInv, SameCall, Begin
  <2> QED
    BY <2>1, <2>2 DEF IInv, IssuedInv
<1>9. MemInv' /\ StoreInv' /\ BootInv'
  <2>1. ~Saved /\ (Stands' <=> Stands)
    BY DEF Saved, Stands, server
  <2> QED
    BY <1>7, <2>1 DEF IInv, MemInv, StoreInv, BootInv
<1>10. JobInv'
  <2>1. ASSUME NEW k \in Jobs, k # j PROVE JobOf(k)'
    <3>1. k \in Refreshers => Refreshing(k)'
      BY <1>3, <2>1 DEF Refreshing
    <3>2. k \in Fetchers => Fetching(k)'
      <4> SUFFICES ASSUME k \in Fetchers PROVE Fetching(k)'
        OBVIOUS
      <4>1. job'[k] = job[k] /\ Fetching(k)
        BY <1>1, <2>1 DEF IInv, JobInv, JobOf
      <4> QED
        BY <4>1 DEF Fetching, Stands, server
    <3>3. k = Action => Acting'
      <4> SUFFICES ASSUME k = Action PROVE Acting'
        OBVIOUS
      <4>1. job'[Action].pc = "idle"
        BY <1>1, <2>1
      <4> QED
        BY <4>1 DEF Acting, Saved
    <3> QED
      BY <3>1, <3>2, <3>3 DEF JobOf
  <2> QED
    BY <2>1 DEF JobInv
<1> QED
  BY <1>5, <1>6, <1>8, <1>9, <1>10 DEF IInv

\* Job j goes on from an await of the server, or after one: it may queue a call.
LEMMA Awaits ==
  ASSUME IInv, TypeOK', NEW j \in Jobs, Free(j), Moves(j),
         UNCHANGED <<stored, status, shown, server>>, armed' => armed, overtaken => overtaken',
         status = "loading" => j = Boot /\ job'[j].live,
         j \in Refreshers /\ job'[j].live => job[j].live,
         j = Action => job[j].pc # "idle" /\ ~Saved,
         MemFor(j), Alone(j) /\ mem' # mem => MemInv' /\ mem' \in Known,
         job'[j].val \in Known,
         calls' = calls \/ \E c \in Calls :
           /\ calls' = Append(calls, c) /\ c.by = j /\ Fits(c)'
           /\ c.op = "save" => /\ ~Stands /\ (shown # None \/ Alone(j))
                               /\ job[Action].pc = "save" => j = Action \/ overtaken',
         PosOf(j)', JobOf(j)'
  PROVE  IInv'
<1>1. Known' = Known /\ Forward
  BY DEF Known, Forward, server
<1>2. \A k \in Jobs : Free(k) \/ SameCall(k)
  BY DEF Moves, SameCall
<1>3. QueueInv' /\ SavesFor(j)
  <2>1. CASE calls' = calls
    BY <1>2, <2>1, QueueKept DEF IInv, SavesFor, NoSaves, SaveBehind
  <2>2. ASSUME NEW c \in Calls, calls' = Append(calls, c), c.by = j, Fits(c)',
               c.op = "save" => /\ ~Stands /\ (shown # None \/ Alone(j))
                                /\ job[Action].pc = "save" => j = Action \/ overtaken'
        PROVE  QueueInv' /\ SavesFor(j)
    <3>1. QueueInv'
      BY <1>2, <2>2, QueueGrows DEF IInv
    <3>2. SavesFor(j)
      BY <2>2, AppendedSaves DEF IInv, SavesFor
    <3> QED
      BY <3>1, <3>2
  <2> QED
    BY <2>1, <2>2
<1>4. StoredFor(j)
  BY DEF StoredFor
<1>5. job[Action].pc = "idle" => job'[Action].pc = "idle"
  BY Distinct DEF Moves
<1>6. Saved => Saved'
  BY Distinct DEF Moves, Saved
<1> QED
  BY <1>1, <1>3, <1>4, <1>5, <1>6, OneMoves

\* Nothing but the timer and the link changes.
LEMMA Idles ==
  ASSUME IInv, TypeOK', armed' => armed,
         UNCHANGED <<mem, stored, status, shown, job, calls, server, overtaken>>
  PROVE  IInv'
<1>1. /\ Known' = Known /\ (Stands' <=> Stands) /\ (NoSaves' <=> NoSaves) /\ (Saved' <=> Saved)
      /\ \A j \in Jobs : SaveBehind(j)' <=> SaveBehind(j)
  BY DEF Known, Stands, NoSaves, Saved, SaveBehind, server
<1>2. PosInv' /\ QueueInv'
  BY DEF IInv, PosInv, PosOf, QueueInv, Fits
<1>3. BootInv' /\ IssuedInv' /\ MemInv' /\ StoreInv'
  BY <1>1 DEF IInv, BootInv, IssuedInv, MemInv, StoreInv
<1>4. JobInv'
  <2>1. \A r \in Refreshers : Refreshing(r) => Refreshing(r)'
    BY <1>1, Distinct DEF Refreshing, server
  <2>2. \A f \in Fetchers : Fetching(f) => Fetching(f)'
    BY <1>1 DEF Fetching
  <2>3. Acting => Acting'
    BY <1>1, Distinct DEF Acting
  <2> QED
    BY <2>1, <2>2, <2>3 DEF IInv, JobInv, JobOf
<1> QED
  BY <1>2, <1>3, <1>4 DEF IInv

LEMMA WaitFields ==
  ASSUME TypeOK, NEW j \in Jobs, NEW p, NEW v
  PROVE  /\ Wait(j, p, v).pc = p /\ Wait(j, p, v).io = "out" /\ Wait(j, p, v).val = v
         /\ Wait(j, p, v).live = job[j].live
<1>1. job[j] \in JobType
  BY DEF TypeOK, JobType, Values
<1> QED
  BY <1>1 DEF Wait, JobType

\* A job but the first refresh runs only after the first answer.
LEMMA Loading ==
  ASSUME IInv, NEW j \in Jobs, job[j].pc # "idle", status = "loading"
  PROVE  j = Boot /\ job[j].live
BY DEF IInv, BootInv, Idle

\* Job j is over.
LEMMA Over ==
  ASSUME IInv, TypeOK', NEW j \in Jobs, End(j), Free(j), job[j].pc # "idle",
         j = Boot => status # "loading", ~(j = Action /\ Saved),
         UNCHANGED <<mem, stored, screen, calls, server, overtaken>>
  PROVE  IInv'
<1>1. job'[j] = Idle /\ Moves(j)
  BY DEF IInv, TypeOK, End, Moves
<1>2. status # "loading"
  BY Loading
<1>3. PosOf(j)' /\ JobOf(j)'
  BY <1>1, Distinct DEF PosOf, JobOf, Idle, Refreshing, Fetching, Acting, Saved
<1>4. ~Idle.live /\ Idle.val \in Known
  BY DEF Idle, Known
<1> QED
  BY <1>1, <1>2, <1>3, <1>4, Awaits DEF screen, MemFor

-----------------------------------------------------------------------------
(* refresh                                                                   *)

LEMMA StartKeeps ==
  ASSUME IInv, TypeOK', NEW r \in Refreshers, StartRefresh(r), status # "loading",
         UNCHANGED <<mem, stored, status, shown, server, overtaken>>
  PROVE  IInv'
<1> DEFINE c == [by |-> r, op |-> "load", val |-> None]
<1>1. /\ job' = [Superseded EXCEPT ![r] = Begin("load", None)]
      /\ calls' = Append(calls, c) /\ job[Action].pc = "idle" /\ job[r].pc = "idle"
  BY DEF StartRefresh, Started, Call
<1>2. job'[r] = Begin("load", None)
  BY <1>1, Distinct DEF Superseded
<1>3. c \in Calls /\ c.by = r /\ c.op = "load" /\ Fits(c)'
  BY <1>2, Distinct DEF Calls, Values, Fits, Begin
<1> HIDE DEF c
<1>4. ~SaveBehind(r)'
  BY <1>1, <1>3, AppendedSaves, Busy, Distinct DEF IInv
<1>5. PosOf(r)' /\ JobOf(r)'
  BY <1>2, <1>4, Distinct DEF PosOf, JobOf, Begin, Refreshing
<1>6. "load" \in Places /\ None \in Known
  BY DEF Places, Known
<1> QED
  BY <1>1, <1>3, <1>5, <1>6, Starts, Distinct

LEMMA LoadedKeeps ==
  ASSUME IInv, TypeOK', NEW r \in Refreshers, Loaded(r)
  PROVE  IInv'
<1> USE Distinct
<1> DEFINE v == job[r].val
<1>1. /\ job[r].live /\ job[r].pc = "load" /\ job[r].io = "ok" /\ mem' = v
      /\ UNCHANGED <<stored, screen, calls, server, overtaken>>
  BY DEF Loaded, Well
<1>2. /\ Moves(r) /\ job'[r].pc = "ask" /\ job'[r].io = "out" /\ job'[r].val = v /\ job'[r].live
  BY <1>1, WaitFields DEF IInv, TypeOK, Loaded, Moves
<1>3. /\ v # None => {stored, shown} \subseteq {None, v}
      /\ v \in valid /\ ~overtaken => stored = v /\ NoSaves
      /\ Stands => v = shown
  BY <1>1 DEF IInv, JobInv, JobOf, Refreshing
<1>4. Alone(r) /\ Free(r) /\ v \in Known
  BY <1>1, Busy DEF IInv, PosInv, Alone, IssuedInv
<1>5. MemInv'
  BY <1>1, <1>3 DEF MemInv, Stands, screen, server
<1>6. PosOf(r)'
  BY <1>2 DEF PosOf
<1>7. Refreshing(r)'
  BY <1>1, <1>2, <1>3 DEF Refreshing, Stands, NoSaves, screen, server
<1>8. status = "loading" => r = Boot
  BY <1>1, Loading
<1> QED
  BY <1>1, <1>2, <1>4, <1>5, <1>6, <1>7, <1>8, Awaits DEF MemFor, JobOf, screen

\* An answer without a session clears SecureStore.
LEMMA AskedKeeps ==
  ASSUME IInv, TypeOK', NEW r \in Refreshers, Asked(r)
  PROVE  IInv'
<1> USE Distinct
<1> DEFINE v == job[r].val
<1>1. /\ job[r].live /\ job[r].pc = "ask" /\ job[r].io = "ok"
      /\ UNCHANGED <<mem, stored, server, overtaken>>
  BY DEF Asked, Well
<1>2. /\ v # None => {stored, shown} \subseteq {None, v} /\ mem \in {None, v}
      /\ v \in valid /\ ~overtaken => stored = v /\ NoSaves /\ (v # None => mem = v)
      /\ Stands => v = shown
  BY <1>1 DEF IInv, JobInv, JobOf, Refreshing
<1>3. Alone(r) /\ Free(r) /\ v \in Known /\ job[Action].pc = "idle"
  BY <1>1, Busy DEF IInv, PosInv, Alone, IssuedInv
<1>4. None \notin valid
  BY DEF IInv, TypeOK
<1>5. CASE SetSession(r, v) /\ UNCHANGED calls
  <2>1. /\ job' = [Invalidated EXCEPT ![r] = Idle] /\ shown' \in {v, None} /\ status' # "loading"
    BY <1>5 DEF SetSession
  <2>2. MemInv' /\ StoreInv'
    BY <1>1, <1>2, <1>4, <1>5, <2>1 DEF MemInv, StoreInv, Stands, NoSaves, server
  <2>3. mem' \in Known /\ shown' \in Known
    BY <1>1, <1>3, <2>1 DEF IInv, IssuedInv, Known
  <2> QED
    BY <1>1, <1>3, <1>5, <2>1, <2>2, <2>3, Cut
<1>6. CASE /\ v = None /\ calls' = Call(r, "save", None) /\ UNCHANGED screen
           /\ job' = [job EXCEPT ![r] = Wait(r, "clear", None)]
  <2> DEFINE c == [by |-> r, op |-> "save", val |-> None]
  <2>1. /\ Moves(r) /\ job'[r].pc = "clear" /\ job'[r].io = "out" /\ job'[r].val = None
        /\ job'[r].live
    BY <1>1, <1>6, WaitFields DEF IInv, TypeOK, Moves
  <2>2. calls' = Append(calls, c) /\ c \in Calls /\ c.by = r /\ Fits(c)'
    BY <1>6, <2>1 DEF Call, Calls, Values, Fits
  <2>3. ~Stands
    BY <1>2, <1>4, <1>6 DEF Stands
  <2>4. PosOf(r)' /\ JobOf(r)'
    BY <2>1 DEF PosOf, JobOf, Refreshing
  <2>5. status = "loading" => r = Boot
    BY <1>1, Loading
  <2>6. None \in Known
    BY DEF Known
  <2> HIDE DEF c
  <2> QED
    BY <1>1, <1>3, <1>6, <2>1, <2>2, <2>3, <2>4, <2>5, <2>6, Awaits DEF MemFor, screen
<1> QED
  BY <1>5, <1>6 DEF Asked

\* refresh and its outcomes.
LEMMA RefreshKeeps ==
  ASSUME IInv, TypeOK', NEW r \in Refreshers, Refresh(r)
  PROVE  IInv'
<1> USE Distinct
<1>1. CASE TryAgain(r)
  BY <1>1, StartKeeps DEF TryAgain, screen
<1>2. CASE Superfluous(r)
  <2>1. End(r) /\ UNCHANGED <<mem, stored, screen, calls, server, overtaken>>
    BY <1>2 DEF Superfluous
  <2>2. ~job[r].live /\ job[r].pc # "idle"
    BY <1>2 DEF Superfluous, Back
  <2>3. Free(r)
    BY <1>2, Busy DEF IInv, Superfluous, Back
  <2>4. r = Boot => status # "loading"
    BY <2>2 DEF IInv, BootInv
  <2> QED
    BY <2>1, <2>2, <2>3, <2>4, Over
<1>3. CASE Unavailable(r)
  <2>1. Free(r) /\ job[Action].pc = "idle"
    BY <1>3, Busy DEF IInv, Unavailable, PosInv
  <2>2. MemInv' /\ StoreInv' /\ mem' \in Known /\ shown' \in Known
    BY <1>3
       DEF Unavailable, MemInv, StoreInv, Stands, IInv, TypeOK, IssuedInv, Known, server
  <2> QED
    BY <1>3, <2>1, <2>2, Cut DEF Unavailable
<1>4. CASE Cleared(r)
  <2>1. Free(r) /\ job[Action].pc = "idle"
    BY <1>4, Busy DEF IInv, Cleared, PosInv, Well
  <2>2. /\ job' = [Invalidated EXCEPT ![r] = Idle] /\ shown' = None /\ status' # "loading"
        /\ mem' = None /\ UNCHANGED <<calls, server, stored, overtaken>>
    BY <1>4 DEF Cleared, SetSession
  <2>3. MemInv' /\ StoreInv' /\ mem' \in Known /\ shown' \in Known
    BY <2>2 DEF MemInv, StoreInv, Stands, IInv, TypeOK, Known, server
  <2> QED
    BY <2>1, <2>2, <2>3, Cut
<1> QED
  BY <1>1, <1>2, <1>3, <1>4, LoadedKeeps, AskedKeeps DEF Refresh

-----------------------------------------------------------------------------
(* Product requests.                                                         *)

LEMMA ProductKeeps ==
  ASSUME IInv, TypeOK', NEW f \in Fetchers, Product(f)
  PROVE  IInv'
<1> USE Distinct
<1>1. None \notin valid /\ None \in Known
  BY DEF IInv, TypeOK, Known
<1>2. /\ Fetching(f) /\ job[f].val \in Known /\ f # Boot /\ f # Action
      /\ PosOf(f) /\ MemInv /\ mem \in Known
  BY DEF IInv, JobInv, JobOf, IssuedInv, PosInv
<1>3. CASE Fetch(f)
  <2>1. /\ job'[f] = Begin("send", mem) /\ Moves(f) /\ status # "loading" /\ shown # None
        /\ UNCHANGED <<mem, stored, screen, calls, server, overtaken>> /\ job[f].pc = "idle"
    BY <1>3 DEF Fetch, IInv, TypeOK, Moves
  <2>2. Free(f)
    BY <2>1, Busy DEF IInv
  <2>3. /\ job'[f].pc = "send" /\ job'[f].io = "out" /\ job'[f].val = mem /\ job'[f].live
    BY <2>1 DEF Begin
  <2>4. PosOf(f)' /\ JobOf(f)'
    BY <1>2, <2>1, <2>3 DEF PosOf, JobOf, Fetching, MemInv, Stands, screen, server
  <2> QED
    BY <1>2, <2>1, <2>2, <2>3, <2>4, Awaits DEF MemFor, screen
<1>4. CASE Deliver(f) \/ Reject(f)
  <2>1. /\ End(f) /\ UNCHANGED <<mem, stored, screen, calls, server, overtaken>>
        /\ job[f].pc # "idle" /\ (job[f].pc = "send" \/ job[f].io # "out")
    BY <1>4 DEF Deliver, Reject, Well, Back
  <2>2. Free(f)
    BY <2>1, Busy DEF IInv
  <2> QED
    BY <1>2, <2>1, <2>2, Over
<1>5. CASE Unauthorized(f)
  <2> DEFINE c == [by |-> f, op |-> "save", val |-> None]
  <2>1. /\ job[f].pc = "send" /\ job[f].io = "ok" /\ job[f].live /\ job[f].val = None
        /\ mem' = None /\ calls' = Append(calls, c)
        /\ overtaken' = (overtaken \/ job[Action].pc = "save")
        /\ UNCHANGED <<stored, screen, server>>
    BY <1>5 DEF Unauthorized, Well, Call
  <2>2. /\ Moves(f) /\ job'[f].pc = "clear" /\ job'[f].io = "out" /\ job'[f].val = None
    BY <1>5, WaitFields DEF Unauthorized, IInv, TypeOK, Moves
  <2>3. ~Stands /\ shown # None
    BY <1>1, <1>2, <2>1 DEF Fetching, Stands
  <2>4. c \in Calls /\ c.by = f /\ Fits(c)'
    BY <2>2 DEF Calls, Values, Fits
  <2>5. Free(f) /\ status # "loading"
    BY <1>2, <2>1, Busy, Loading DEF IInv
  <2>6. PosOf(f)' /\ JobOf(f)'
    BY <2>1, <2>2, <2>3 DEF PosOf, JobOf, Fetching, screen
  <2>7. overtaken => overtaken'
    BY <2>1
  <2>8. job[Action].pc = "save" => overtaken'
    BY <2>1
  <2>9. MemFor(f) /\ (mem' # mem => MemInv' /\ mem' \in Known)
    BY <1>1, <2>1, <2>3 DEF MemFor, MemInv, Stands, screen, server
  <2> HIDE DEF c
  <2> QED
    BY <1>1, <1>2, <2>1, <2>2, <2>3, <2>4, <2>5, <2>6, <2>7, <2>8, <2>9, Awaits DEF screen
<1>6. CASE SignedOut(f)
  <2>1. Free(f)
    BY <1>6, Busy DEF IInv, SignedOut, Well
  <2>2. /\ job' = [Invalidated EXCEPT ![f] = Idle] /\ shown' = None /\ status' # "loading"
        /\ UNCHANGED <<mem, calls, server, stored, overtaken>>
    BY <1>6 DEF SignedOut, SetSession
  <2>3. MemInv' /\ StoreInv' /\ shown' \in Known /\ ~Stands'
    BY <1>1, <2>2 DEF MemInv, StoreInv, Stands, server
  <2> QED
    BY <1>2, <2>1, <2>2, <2>3, Cut
<1> QED
  BY <1>3, <1>4, <1>5, <1>6 DEF Product

-----------------------------------------------------------------------------
(* Actions.                                                                  *)

\* Nothing that a refresh loads is in the way of an action.
LEMMA Act1 ==
  ASSUME IInv, job[Action].pc # "idle"
  PROVE  Alone(Action) /\ status # "loading" /\ Acting /\ job[Action].val \in Known
BY Loading, Distinct DEF IInv, PosInv, Alone, JobInv, JobOf, IssuedInv

LEMMA ActionBegins ==
  ASSUME IInv, TypeOK', Login \/ Logout \/ LinkOpens
  PROVE  IInv'
<1> USE Distinct
<1>1. None \in Known /\ mem \in Known /\ {"plan", "recall", "revoke"} \subseteq Places
  BY DEF IInv, IssuedInv, Known, Places
<1>2. ASSUME NEW op \in {"plan", "recall"}, job[Action].pc = "idle", status # "loading",
             job' = Act(op, None), calls' = Call(Action, op, None),
             UNCHANGED <<mem, stored, status, shown, server, overtaken>>
      PROVE  IInv'
  <2> DEFINE c == [by |-> Action, op |-> op, val |-> None]
  <2>1. job' = [Superseded EXCEPT ![Action] = Begin(op, None)] /\ calls' = Append(calls, c)
    BY <1>2 DEF Act, Call
  <2>2. job'[Action] = Begin(op, None)
    BY <2>1 DEF Superseded
  <2>3. c \in Calls /\ c.by = Action /\ c.op # "save" /\ Fits(c)'
    BY <1>2, <2>2 DEF Calls, Values, Fits, Begin
  <2>4. PosOf(Action)' /\ JobOf(Action)'
    BY <2>2 DEF PosOf, JobOf, Acting, Saved, Begin
  <2> HIDE DEF c
  <2> QED
    BY <1>1, <1>2, <2>1, <2>3, <2>4, Starts
<1>3. CASE Login
  BY <1>2, <1>3 DEF Login, screen
<1>4. CASE Logout
  <2>1. /\ job' = [Superseded EXCEPT ![Action] = Begin("revoke", mem)] /\ status # "loading"
        /\ UNCHANGED <<mem, stored, screen, calls, server, overtaken>> /\ job[Action].pc = "idle"
    BY <1>4 DEF Logout, Act
  <2>2. job'[Action] = Begin("revoke", mem)
    BY <2>1 DEF Superseded
  <2>3. PosOf(Action)'
    BY <2>2 DEF PosOf, Begin
  <2>4. Stands' => mem = shown'
    BY <2>1 DEF IInv, MemInv, Stands, screen, server
  <2>5. JobOf(Action)'
    BY <2>2, <2>4 DEF JobOf, Acting, Saved, Begin
  <2> QED
    BY <1>1, <2>1, <2>3, <2>5, Starts DEF screen
<1>5. CASE LinkOpens
  <2>1. status # "loading"
    BY <1>5 DEF LinkOpens, IInv, BootInv, PosInv, PosOf, Idle
  <2> QED
    BY <1>2, <1>5, <2>1, Idles DEF LinkOpens, screen
<1> QED
  BY <1>3, <1>4, <1>5

\* An action that goes on, with a call to SecureStore or none.
LEMMA ActionAwaits ==
  ASSUME IInv, TypeOK', job[Action].pc # "idle", ~Saved, Moves(Action), Free(Action),
         UNCHANGED <<mem, stored, screen, server, overtaken>>,
         job'[Action].val \in Known,
         calls' = calls \/ \E op \in {"load", "save", "plan", "recall", "forget"}, v \in Values :
           /\ calls' = Call(Action, op, v) /\ Fits([by |-> Action, op |-> op, val |-> v])'
           /\ op = "save" => ~Stands,
         PosOf(Action)', Acting'
  PROVE  IInv'
<1> USE Distinct
<1>1. Alone(Action) /\ status # "loading"
  BY Act1
<1>2. calls' = calls \/ \E c \in Calls :
        /\ calls' = Append(calls, c) /\ c.by = Action /\ Fits(c)'
        /\ c.op = "save" => ~Stands /\ (shown # None \/ Alone(Action))
  <2> SUFFICES ASSUME NEW op \in {"load", "save", "plan", "recall", "forget"}, NEW v \in Values,
                      calls' = Call(Action, op, v),
                      Fits([by |-> Action, op |-> op, val |-> v])', op = "save" => ~Stands
               PROVE  \E c \in Calls :
                        /\ calls' = Append(calls, c) /\ c.by = Action /\ Fits(c)'
                        /\ c.op = "save" => ~Stands /\ (shown # None \/ Alone(Action))
    OBVIOUS
  <2> DEFINE c == [by |-> Action, op |-> op, val |-> v]
  <2>1. c \in Calls /\ c.by = Action /\ c.op = op
    BY DEF Calls
  <2>2. calls' = Append(calls, c)
    BY DEF Call
  <2> HIDE DEF c
  <2> QED
    BY <1>1, <2>1, <2>2 DEF c
<1>3. JobOf(Action)'
  BY DEF JobOf
<1> QED
  BY <1>1, <1>2, <1>3, Awaits DEF MemFor, screen

LEMMA ActionKeeps ==
  ASSUME IInv, TypeOK', RunAction \/ BrowserReturns
  PROVE  IInv'
<1> USE Distinct
<1> DEFINE a == job[Action]
<1>1. None \in Known /\ None \in Values /\ mem \in Known /\ None \notin valid
  BY DEF IInv, TypeOK, IssuedInv, Known, Values
<1>2. a.pc # "idle"
  BY DEF RunAction, BrowserReturns, Planned, Recalled, Exchanged, Redeemed, SignedIn,
     Revoked,
         LoggedOut, ActionFails, Well
<1>3. Alone(Action) /\ status # "loading" /\ Acting /\ a.val \in Known /\ a.val \in Values
  BY <1>2, Act1 DEF IInv, TypeOK, Values
<1>4. ASSUME NEW p, NEW v \in Known, job' = [job EXCEPT ![Action] = Wait(Action, p, v)]
      PROVE  /\ Moves(Action) /\ job'[Action].pc = p /\ job'[Action].io = "out"
             /\ job'[Action].val = v
  BY <1>4, WaitFields DEF IInv, TypeOK, Moves
<1>5. CASE Planned \/ BrowserReturns
  <2>1. PICK p \in {"browse", "recall", "drop"} :
          /\ job' = [job EXCEPT ![Action] = Wait(Action, p, None)] /\ ~Saved
          /\ UNCHANGED <<mem, stored, screen, server, overtaken>>
          /\ a.pc = "browse" \/ a.io # "out"
          /\ \/ p = "browse" /\ calls' = calls
             \/ p = "recall" /\ calls' = Call(Action, "recall", None)
             \/ p = "drop" /\ calls' = Call(Action, "forget", None)
    BY <1>5 DEF Planned, BrowserReturns, Then, Well, Saved
  <2>2. /\ Moves(Action) /\ job'[Action].pc = p /\ job'[Action].io = "out"
        /\ job'[Action].val = None
    BY <1>1, <1>4, <2>1
  <2>3. Free(Action)
    BY <2>1, Busy DEF IInv
  <2>4. PosOf(Action)' /\ Acting'
    BY <2>2 DEF PosOf, Acting, Saved
  <2>5. /\ p = "recall" => Fits([by |-> Action, op |-> "recall", val |-> None])'
        /\ p = "drop" => Fits([by |-> Action, op |-> "forget", val |-> None])'
    BY <2>2 DEF Fits
  <2> QED
    BY <1>1, <1>2, <2>1, <2>2, <2>3, <2>4, <2>5, ActionAwaits
<1>6. CASE Recalled
  <2>1. Free(Action) /\ ~Saved /\ UNCHANGED <<mem, stored, screen, server, overtaken>>
    BY <1>6, Busy DEF IInv, Recalled, Well, Saved
  <2>2. CASE job' = [job EXCEPT ![Action] = Begin("exchange", mem)] /\ UNCHANGED calls
    <3>1. Moves(Action) /\ job'[Action] = Begin("exchange", mem)
      BY <2>2 DEF IInv, TypeOK, Moves
    <3>2. /\ job'[Action].pc = "exchange" /\ job'[Action].io = "out" /\ job'[Action].val = mem
      BY <3>1 DEF Begin
    <3>3. Stands' => mem = shown'
      BY <2>1 DEF IInv, MemInv, Stands, screen, server
    <3>4. PosOf(Action)' /\ Acting'
      BY <3>2, <3>3 DEF PosOf, Acting, Saved
    <3> QED
      BY <1>1, <1>2, <2>1, <2>2, <3>1, <3>2, <3>4, ActionAwaits
  <2>3. CASE calls' = Call(Action, "forget", None) /\ Then("drop", None)
    <3>1. /\ Moves(Action) /\ job'[Action].pc = "drop" /\ job'[Action].io = "out"
          /\ job'[Action].val = None
      BY <1>1, <1>4, <2>3 DEF Then
    <3>2. PosOf(Action)' /\ Acting' /\ Fits([by |-> Action, op |-> "forget", val |-> None])'
      BY <3>1 DEF PosOf, Acting, Saved, Fits
    <3> QED
      BY <1>1, <1>2, <2>1, <2>3, <3>1, <3>2, ActionAwaits
  <2> QED
    BY <1>6, <2>2, <2>3 DEF Recalled
<1>7. CASE Exchanged
  <2>1. /\ Free(Action) /\ ~Saved /\ UNCHANGED <<mem, stored, screen, server, overtaken>>
        /\ a.val # None /\ ~Stands /\ calls' = Call(Action, "forget", None)
    BY <1>3, <1>7, Busy DEF IInv, Exchanged, Well, Saved, Acting
  <2>2. /\ Moves(Action) /\ job'[Action].pc = "forget" /\ job'[Action].io = "out"
        /\ job'[Action].val = a.val
    BY <1>3, <1>4, <1>7 DEF Exchanged, Then
  <2>3. ~Stands'
    BY <2>1 DEF Stands, screen, server
  <2>4. PosOf(Action)' /\ Acting' /\ Fits([by |-> Action, op |-> "forget", val |-> None])'
    BY <2>1, <2>2, <2>3 DEF PosOf, Acting, Saved, Fits
  <2> QED
    BY <1>1, <1>2, <1>3, <2>1, <2>2, <2>4, ActionAwaits
<1>8. CASE Redeemed
  <2>1. /\ Free(Action) /\ ~Saved /\ UNCHANGED <<mem, stored, screen, server, overtaken>>
        /\ a.val # None /\ ~Stands /\ calls' = Call(Action, "save", a.val)
    BY <1>3, <1>8, Busy DEF IInv, Redeemed, Well, Saved, Acting
  <2>2. /\ Moves(Action) /\ job'[Action].pc = "save" /\ job'[Action].io = "out"
        /\ job'[Action].val = a.val
    BY <1>3, <1>4, <1>8 DEF Redeemed, Then
  <2>3. ~Stands'
    BY <2>1 DEF Stands, screen, server
  <2>4. ~SaveBehind(Action)'
    <3> DEFINE c == [by |-> Action, op |-> "save", val |-> a.val]
    <3>1. c \in Calls /\ c.by = Action /\ calls' = Append(calls, c)
      BY <1>3, <2>1 DEF Calls, Call
    <3> HIDE DEF c
    <3> QED
      BY <2>1, <3>1, AppendedSaves DEF IInv
  <2>5. PosOf(Action)' /\ Acting' /\ Fits([by |-> Action, op |-> "save", val |-> a.val])'
    BY <2>1, <2>2, <2>3, <2>4 DEF PosOf, Acting, Saved, Fits
  <2> QED
    BY <1>2, <1>3, <2>1, <2>2, <2>5, ActionAwaits
<1>9. CASE Revoked
  <2>1. /\ Free(Action) /\ ~Saved /\ UNCHANGED <<mem, stored, screen, server, overtaken>>
        /\ ~Stands /\ calls' = Call(Action, "save", None)
    BY <1>3, <1>9, Busy DEF IInv, Revoked, Well, Saved, Acting
  <2>2. /\ Moves(Action) /\ job'[Action].pc = "clear" /\ job'[Action].io = "out"
        /\ job'[Action].val = None
    BY <1>1, <1>4, <1>9 DEF Revoked, Then
  <2>3. ~Stands'
    BY <2>1 DEF Stands, screen, server
  <2>4. PosOf(Action)' /\ Acting' /\ Fits([by |-> Action, op |-> "save", val |-> None])'
    BY <2>1, <2>2, <2>3 DEF PosOf, Acting, Saved, Fits
  <2> QED
    BY <1>1, <1>2, <2>1, <2>2, <2>4, ActionAwaits
<1>10. CASE SignedIn \/ LoggedOut
  <2>1. /\ a.io = "ok" /\ UNCHANGED <<stored, calls, server, overtaken>>
        /\ job' = [Invalidated EXCEPT ![Action] = Idle] /\ status' # "loading"
        /\ shown' \in {mem', None}
        /\ \/ mem' = None
           \/ a.pc = "save" /\ mem' = a.val
    BY <1>10 DEF SignedIn, LoggedOut, Well, SetSession
  <2>2. Free(Action)
    BY <2>1, Busy DEF IInv
  <2>3. mem' # None => /\ stored \in {None, mem'}
                       /\ ~overtaken => stored = mem' /\ NoSaves
    BY <1>3, <2>1 DEF Acting, Saved
  <2>4. MemInv' /\ StoreInv'
    BY <1>1, <2>1, <2>3 DEF MemInv, StoreInv, Stands, NoSaves, server
  <2>5. mem' \in Known /\ shown' \in Known
    BY <1>1, <1>3, <2>1
  <2> QED
    BY <2>1, <2>2, <2>4, <2>5, Cut
<1>11. CASE ActionFails
  <2>1. /\ End(Action) /\ UNCHANGED <<mem, stored, screen, calls, server, overtaken>> /\ ~Saved
    BY <1>11 DEF ActionFails, Saved, Well
  <2>2. Free(Action)
    BY <1>11, Busy DEF IInv, ActionFails, Well
  <2> QED
    BY <1>2, <1>3, <2>1, <2>2, Over
<1> QED
  BY <1>5, <1>6, <1>7, <1>8, <1>9, <1>10, <1>11 DEF RunAction

-----------------------------------------------------------------------------
(* SecureStore and the server.                                               *)

LEMMA StoreKeeps ==
  ASSUME IInv, TypeOK', StorePerforms
  PROVE  IInv'
<1> USE Distinct
<1>1. /\ calls # <<>> /\ calls' = Tail(calls)
      /\ UNCHANGED <<mem, screen, server, overtaken>>
  BY DEF StorePerforms
<1>2. /\ 1 \in DOMAIN calls /\ Head(calls) = calls[1] /\ Head(calls) \in Calls
      /\ \A i \in DOMAIN calls' :
           i \in Nat /\ i + 1 \in DOMAIN calls /\ calls'[i] = calls[i + 1] /\ 1 < i + 1
  BY <1>1, Taken, Queued DEF IInv
<1> PICK c \in Calls : c = Head(calls)
  BY <1>2
<1> DEFINE j == c.by
<1>3. Fits(c) /\ j \in Jobs /\ c.op \in {"load", "save", "plan", "recall", "forget"}
  BY <1>2 DEF IInv, QueueInv, Calls
<1>4. /\ Moves(j) /\ job'[j].pc = job[j].pc /\ job'[j].live = job[j].live
      /\ \/ job'[j].io = "failed" /\ job'[j].val = job[j].val /\ stored' = stored
         \/ /\ job'[j].io = "ok" /\ stored' = IF c.op = "save" THEN c.val ELSE stored
            /\ job'[j].val = IF c.op = "load" /\ job[j].live THEN stored ELSE job[j].val
  <2>1. job \in [Jobs -> JobType]
    BY DEF IInv, TypeOK, JobType, Values
  <2>2. job[j] \in JobType
    BY <1>3, <2>1
  <2> QED
    BY <1>3, <2>1, <2>2 DEF StorePerforms, Moves, JobType
<1>5. /\ c.op = "load" => job[j].pc = "load"
      /\ c.op = "save" => \/ job[j].pc = "clear" /\ c.val = None
                          \/ job[j].pc = "save" /\ c.val = job[j].val
      /\ job[j].io = "out"
      /\ job[j].pc \in {"load", "clear", "save", "plan", "recall", "drop", "forget"}
      /\ job[j].pc = "load" => c.op = "load"
      /\ job[j].pc = "save" => c.op = "save"
  <2>1. CASE c.op = "load"
    BY <1>3, <2>1 DEF Fits
  <2>2. CASE c.op = "save"
    <3>1. /\ job[j].io = "out"
          /\ (\/ job[j].pc = "clear" /\ c.val = None
              \/ job[j].pc = "save" /\ c.val = job[j].val)
      BY <1>3, <2>2 DEF Fits
    <3> HIDE DEF j
    <3> QED
      BY <2>2, <3>1
  <2>3. CASE c.op \in {"plan", "recall"}
    BY <1>3, <2>3 DEF Fits
  <2>4. CASE c.op = "forget"
    BY <1>3, <2>4 DEF Fits
  <2> QED
    BY <1>3, <2>1, <2>2, <2>3, <2>4
<1>6. /\ NoSaves => NoSaves'
      /\ \A k \in Jobs : SaveBehind(k)' => SaveBehind(k)
      /\ ~SaveBehind(j) => NoSaves'
      /\ c.op = "save" => ~NoSaves
  BY <1>1, <1>2, TakenSaves DEF IInv, NoSaves
<1> HIDE DEF j
<1>7. /\ PosOf(j) /\ JobOf(j) /\ job[j].val \in Known /\ stored \in Known
      /\ (job[j].pc = "save" => j = Action)
      /\ (j = Action => Alone(j))
  <2>1. PosOf(j) /\ JobOf(j) /\ job[j].val \in Known /\ stored \in Known
    BY <1>3 DEF IInv, PosInv, JobInv, IssuedInv
  <2>2. job[j].pc = "save" => j = Action
    BY <1>3, <2>1 DEF PosOf, Jobs
  <2>3. j = Action => Alone(j)
    BY <1>5, Act1
  <2> QED
    BY <2>1, <2>2, <2>3
<1>8. QueueInv'
  <2>1. ASSUME NEW i \in DOMAIN calls' PROVE Fits(calls[i])'
    <3>1. /\ i \in Nat /\ i + 1 \in DOMAIN calls /\ calls'[i] = calls[i + 1] /\ i + 1 # 1
      BY <1>2, <2>1
    <3>2. Fits(calls[i + 1]) /\ calls[i + 1].by \in Jobs /\ calls[i + 1].by # j
      BY <1>2, <3>1, Queued DEF IInv, QueueInv, Calls, j
    <3> QED
      BY <1>4, <3>1, <3>2 DEF Fits, Moves
  <2>2. \A i, k \in DOMAIN calls' : calls'[i].by = calls'[k].by => i = k
    <3> SUFFICES ASSUME NEW i \in DOMAIN calls', NEW k \in DOMAIN calls',
                        calls'[i].by = calls'[k].by
                 PROVE  i = k
      OBVIOUS
    <3>1. i + 1 = k + 1
      BY <1>2 DEF IInv, QueueInv
    <3> QED
      BY <1>2, <3>1
  <2> QED
    BY <2>1, <2>2 DEF QueueInv
<1>9. StoredFor(j) /\ SavesFor(j) /\ MemFor(j) /\ Forward /\ (Saved => Saved')
  <2>1. StoredFor(j)
    BY <1>4, <1>5, <1>6, <1>7 DEF StoredFor
  <2>2. SavesFor(j) /\ MemFor(j) /\ Forward
    BY <1>1, <1>6 DEF SavesFor, MemFor, Forward, server
  <2>3. Saved => Saved'
    BY <1>3, <1>4, <1>5 DEF Saved, Moves
  <2> QED
    BY <2>1, <2>2, <2>3
<1>10. ASSUME j = Action
       PROVE  Acting' /\ (stored' # stored => StoreInv' /\ stored' \in Known)
  <2>1. Acting /\ (Stands' <=> Stands)
    BY <1>1, <1>7, <1>10 DEF JobOf, Stands, screen, server
  <2>2. job[Action].pc # "load"
    BY <1>7, <1>10 DEF PosOf
  <2>3. job'[Action].val = job[Action].val
    BY <1>4, <1>5, <1>10, <2>2
  <2>4. Saved' => /\ stored' \in {None, job'[Action].val}
                  /\ ~overtaken' => stored' = job'[Action].val /\ NoSaves'
    BY <1>1, <1>4, <1>5, <1>6, <1>10, <2>1, <2>3 DEF Acting, Saved
  <2>5. Acting'
    BY <1>1, <1>4, <1>5, <1>6, <1>10, <2>1, <2>3, <2>4 DEF Acting
  <2>6. stored' # stored => StoreInv' /\ stored' \in Known
    <3> SUFFICES ASSUME stored' # stored PROVE StoreInv' /\ stored' \in Known
      OBVIOUS
    <3>1. job'[j].io = "ok" /\ c.op = "save" /\ stored' = c.val
      BY <1>4
    <3>2. ~Stands'
      BY <1>5, <1>10, <2>1, <3>1 DEF Acting
    <3> QED
      BY <1>4, <1>5, <1>7, <1>10, <3>1, <3>2 DEF StoreInv, Saved, Known
  <2> QED
    BY <2>5, <2>6
<1>11. ASSUME j \in Refreshers PROVE Refreshing(j)'
  <2> SUFFICES ASSUME job[j].live PROVE Refreshing(j)'
    BY <1>4 DEF Refreshing
  <2>1. Refreshing(j) /\ ~Saved /\ job[j].pc # "ask"
    BY <1>3, <1>5, <1>7, <1>11 DEF JobOf, IInv, PosInv, Saved
  <2>2. /\ shown # None => stored \in {None, shown}
        /\ Stands => stored = shown /\ NoSaves
    BY <2>1 DEF IInv, StoreInv
  <2>3. CASE job[j].pc = "load" /\ job'[j].io = "ok"
    <3>1. job'[j].val = stored /\ stored' = stored
      BY <1>4, <1>5, <2>3
    <3>2. ASSUME stored \in valid, ~overtaken PROVE NoSaves'
      <4>1. stored # None
        BY <3>2 DEF IInv, TypeOK
      <4>2. ~SaveBehind(j)
        BY <2>1, <2>2, <2>3, <3>2, <4>1 DEF Refreshing
      <4> QED
        BY <1>6, <4>2
    <3> QED
      BY <1>1, <1>3, <1>4, <1>6, <2>1, <2>2, <2>3, <3>1, <3>2
         DEF Refreshing, Stands, screen, server
  <2>4. CASE ~(job[j].pc = "load" /\ job'[j].io = "ok")
    BY <1>1, <1>3, <1>4, <1>6, <2>1, <2>4 DEF Refreshing, screen, server
  <2> QED
    BY <2>3, <2>4
<1>12. ASSUME j \in Fetchers PROVE Fetching(j)'
  <2>1. Fetching(j) /\ job[j].pc = "clear"
    BY <1>5, <1>7, <1>12 DEF JobOf, PosOf
  <2>2. job'[j].val = job[j].val
    BY <1>4, <1>5, <2>1
  <2> QED
    BY <1>1, <1>4, <2>1, <2>2 DEF Fetching, screen
<1>13. PosOf(j)' /\ JobOf(j)'
  BY <1>4, <1>5, <1>7, <1>10, <1>11, <1>12 DEF PosOf, JobOf
<1>14. status = "loading" => j = Boot /\ job'[j].live
  BY <1>3, <1>4, <1>5, Loading
<1>15. Known' = Known /\ job'[j].val \in Known
  BY <1>1, <1>4, <1>7 DEF Known, server
<1>16. job[Action].pc = "idle" => job'[Action].pc = "idle"
  BY <1>3, <1>4 DEF Moves
<1>17. UNCHANGED <<status, shown>> /\ (armed' => armed) /\ mem' = mem
  BY <1>1 DEF screen
<1>18. j \in Refreshers /\ job'[j].live => job[j].live
  BY <1>4
<1>19. j = Action /\ stored' # stored => StoreInv' /\ stored' \in Known'
  BY <1>10, <1>15
<1> QED
  BY <1>3, <1>4, <1>8, <1>9, <1>13, <1>14, <1>15, <1>16, <1>17, <1>18, <1>19, OneMoves

LEMMA AnswerKeeps ==
  ASSUME IInv, TypeOK', NEW j \in Refreshers \cup Fetchers, ServerAnswers(j)
  PROVE  IInv'
<1> USE Distinct
<1>1. /\ job[j].pc \in {"ask", "send"} /\ job[j].io = "out" /\ job[j].live
      /\ UNCHANGED <<mem, stored, screen, calls, server, overtaken>>
  BY DEF ServerAnswers
<1>2. j \in Jobs /\ j # Action /\ Free(j) /\ PosOf(j) /\ JobOf(j) /\ job[j].val \in Known
  BY <1>1, Busy DEF Jobs, IInv, PosInv, JobInv, IssuedInv
<1>3. PICK v \in {None, job[j].val} :
        /\ Moves(j) /\ job'[j].pc = job[j].pc /\ job'[j].live
        /\ job'[j].val = v /\ (job[j].val \in valid => v = job[j].val)
  <2>1. job \in [Jobs -> JobType] /\ job[j] \in JobType
    BY <1>2 DEF IInv, TypeOK, JobType, Values
  <2>2. CASE job' = [job EXCEPT ![j].io = "failed"]
    BY <1>1, <1>2, <2>1, <2>2 DEF Moves, JobType
  <2>3. CASE Answered(j, IF job[j].val \in valid THEN job[j].val ELSE None)
    BY <1>1, <1>2, <2>1, <2>3 DEF Answered, Moves, JobType
  <2> QED
    BY <2>2, <2>3 DEF ServerAnswers
<1>4. status = "loading" => j = Boot
  BY <1>1, <1>2, Loading
<1>5. PosOf(j)'
  BY <1>1, <1>2, <1>3 DEF PosOf
<1>6. Stands' => Stands
  BY <1>1 DEF Stands, screen, server
<1>7. j \in Refreshers => Refreshing(j)'
  <2> SUFFICES ASSUME j \in Refreshers PROVE Refreshing(j)'
    OBVIOUS
  <2>1. Refreshing(j) /\ job[j].pc = "ask"
    BY <1>1, <1>2 DEF JobOf, PosOf
  <2>2. Stands => v = shown
    BY <1>1, <1>3, <2>1 DEF Refreshing, Stands
  <2>3. None \notin valid /\ (NoSaves' <=> NoSaves)
    BY <1>1 DEF IInv, TypeOK, NoSaves
  <2> QED
    BY <1>1, <1>2, <1>3, <1>6, <2>1, <2>2, <2>3 DEF Refreshing, screen, server
<1>8. j \in Fetchers => Fetching(j)'
  <2> SUFFICES ASSUME j \in Fetchers PROVE Fetching(j)'
    OBVIOUS
  <2>1. Fetching(j) /\ job[j].pc = "send"
    BY <1>1, <1>2 DEF JobOf, PosOf
  <2>2. Stands => v = shown
    BY <1>1, <1>3, <2>1 DEF Fetching, Stands
  <2> QED
    BY <1>1, <1>2, <1>3, <1>6, <2>1, <2>2 DEF Fetching, screen
<1>9. JobOf(j)' /\ job'[j].val \in Known
  BY <1>2, <1>3, <1>7, <1>8 DEF JobOf, Known
<1> QED
  BY <1>1, <1>2, <1>3, <1>4, <1>5, <1>9, Awaits DEF MemFor, screen

\* The server ends sessions, and starts one nobody knew.
LEMMA ServerKeeps ==
  ASSUME IInv, TypeOK', ServerExchanges \/ ServerRevokes \/ \E c \in Creds : Lapse(c)
  PROVE  IInv'
<1> USE Distinct
<1> DEFINE a == job[Action]
<1>1. UNCHANGED <<mem, stored, screen, calls, overtaken>>
  BY DEF ServerExchanges, ServerRevokes, Lapse
<1>2. /\ Known \subseteq Known' /\ \A v \in Known : v \in valid' => v \in valid
  BY DEF ServerExchanges, ServerRevokes, Lapse, Known, IInv, TypeOK
<1>3. /\ PosOf(Action) /\ Acting /\ a.val \in Known /\ shown \in Known /\ Forward
      /\ None \notin valid
  BY <1>1, <1>2 DEF IInv, TypeOK, PosInv, JobInv, JobOf, IssuedInv, Forward
<1>4. /\ Moves(Action) /\ job'[Action].pc = a.pc
      /\ \/ job' = job
         \/ /\ a.pc \in {"exchange", "revoke"} /\ a.io = "out" /\ a.live
            /\ job'[Action].val \in Known'
            /\ \/ job'[Action].io = "failed"
               \/ /\ job'[Action].io = "ok" /\ (a.val \notin valid' \/ a.val = None)
                  /\ a.pc = "exchange" => job'[Action].val # None /\ job'[Action].val \notin Known
  <2>1. job \in [Jobs -> JobType] /\ a \in JobType
    BY DEF IInv, TypeOK, JobType, Values
  <2>2. CASE ServerExchanges
    <3>1. a.pc = "exchange" /\ a.io = "out" /\ a.live
      BY <2>2 DEF ServerExchanges
    <3>2. CASE job' = [job EXCEPT ![Action].io = "failed"]
      BY <1>2, <1>3, <2>1, <3>1, <3>2 DEF Moves, JobType
    <3>3. ASSUME NEW c \in Creds \ issued, issued' = issued \cup {c},
                 valid' = (valid \ {a.val}) \cup {c}, Answered(Action, c)
          PROVE  /\ Moves(Action) /\ job'[Action].pc = a.pc
                 /\ job'[Action].val = c /\ job'[Action].io = "ok" /\ a.val \notin valid'
                 /\ c \in Known' /\ c # None /\ c \notin Known
      BY <1>3, <2>1, <3>3 DEF Answered, Moves, JobType, Known
    <3> QED
      BY <2>2, <3>1, <3>2, <3>3 DEF ServerExchanges
  <2>3. CASE ServerRevokes
    <3>1. a.pc = "revoke" /\ a.io = "out" /\ a.live
      BY <2>3 DEF ServerRevokes
    <3>2. CASE job' = [job EXCEPT ![Action].io = "failed"]
      BY <1>2, <1>3, <2>1, <3>1, <3>2 DEF Moves, JobType
    <3>3. CASE valid' = valid \ {a.val} /\ Answered(Action, None)
      BY <2>1, <3>1, <3>3 DEF Answered, Moves, JobType, Known
    <3> QED
      BY <2>3, <3>2, <3>3 DEF ServerRevokes
  <2>4. CASE \E c \in Creds : Lapse(c)
    BY <2>4 DEF Lapse, Moves
  <2> QED
    BY <2>2, <2>3, <2>4
<1>5. Stands' => Stands
  BY <1>1, <1>3 DEF Forward, Stands, screen
<1>6. (NoSaves' <=> NoSaves) /\ \A k \in Jobs : SaveBehind(k)' <=> SaveBehind(k)
  BY <1>1 DEF NoSaves, SaveBehind
<1>7. PosOf(Action)'
  BY <1>3, <1>4 DEF PosOf
<1>8. Acting'
  <2>1. CASE job' = job
    <3>1. (Saved' <=> Saved) /\ (SaveBehind(Action)' <=> SaveBehind(Action))
      BY <1>6, <2>1 DEF Saved
    <3>2. UNCHANGED <<stored, overtaken>> /\ shown' = shown
      BY <1>1 DEF screen
    <3> QED
      BY <1>3, <1>5, <1>6, <2>1, <3>1, <3>2 DEF Acting
  <2>2. CASE /\ a.pc \in {"exchange", "revoke"} /\ a.io = "out" /\ a.live
             /\ job'[Action].io = "failed"
    BY <1>4, <2>2 DEF Acting, Saved
  <2>3. CASE /\ a.pc \in {"exchange", "revoke"} /\ a.io = "out" /\ a.live
             /\ job'[Action].io = "ok" /\ (a.val \notin valid' \/ a.val = None)
             /\ a.pc = "exchange" => job'[Action].val # None /\ job'[Action].val \notin Known
    <3>1. ~Stands'
      BY <1>1, <1>2, <1>3, <1>5, <2>3 DEF Acting, Stands, screen
    <3> QED
      BY <1>4, <2>3, <3>1 DEF Acting, Saved
  <2> QED
    BY <1>4, <2>1, <2>2, <2>3
<1>9. QueueInv'
  <2>1. \A k \in Jobs : Free(k) \/ SameCall(k)
    BY <1>4, Busy DEF IInv, Moves, SameCall
  <2> QED
    BY <1>1, <2>1, QueueKept DEF IInv
<1>10. job'[Action].val \in Known'
  BY <1>2, <1>3, <1>4
<1>11. status = "loading" => job'[Action] = job[Action]
  BY <1>4, Loading
<1>12. MemFor(Action) /\ StoredFor(Action) /\ SavesFor(Action) /\ (Saved => Saved')
  BY <1>1, <1>4, <1>6 DEF MemFor, StoredFor, SavesFor, Saved
<1>13. /\ UNCHANGED <<status, shown>> /\ (armed' => armed)
       /\ job[Action].pc = "idle" => job'[Action].pc = "idle"
  BY <1>1, <1>4 DEF screen
<1>14. JobOf(Action)'
  BY <1>8 DEF JobOf
<1> QED
  BY <1>1, <1>2, <1>3, <1>4, <1>7, <1>9, <1>10, <1>11, <1>12, <1>13, <1>14, OneMoves

-----------------------------------------------------------------------------
(* The theorems.                                                             *)

LEMMA Initially == Init => IInv
<1> SUFFICES ASSUME Init PROVE IInv
  OBVIOUS
<1> USE Distinct
<1>1. /\ job[Boot] = Begin("load", None) /\ \A j \in Jobs \ {Boot} : job[j] = Idle
      /\ calls = <<FirstCall>> /\ mem = None /\ shown = None /\ status = "loading"
      /\ overtaken = FALSE /\ armed = FALSE /\ stored \in Known /\ None \notin valid
  BY DEF Init, Booting, Known
<1>2. FirstCall \in Calls /\ FirstCall.by = Boot /\ FirstCall.op = "load"
  BY DEF FirstCall, Calls, Values
<1>3. DOMAIN calls = {1} /\ calls[1] = FirstCall
  BY <1>1
<1>4. TypeOK
  <2>1. Begin("load", None) \in JobType /\ Idle \in JobType
    BY DEF Begin, Idle, JobType, Places, Values
  <2>2. job \in [Jobs -> JobType]
    BY <2>1 DEF Init, Booting
  <2>3. calls \in Seq(Calls)
    BY <1>1, <1>2
  <2> QED
    BY <1>1, <2>2, <2>3 DEF Init, TypeOK, JobType, Calls, Values
<1>5. PosInv
  <2>1. \A j \in Jobs : PosOf(j)
    <3>1. PosOf(Boot)
      BY <1>1 DEF PosOf, Begin
    <3>2. ASSUME NEW j \in Jobs \ {Boot} PROVE PosOf(j)
      <4>1. job[j] = Idle
        BY <1>1, <3>2
      <4>2. Idle.pc = "idle"
        BY DEF Idle
      <4> QED
        BY <4>1, <4>2 DEF PosOf
    <3> QED
      BY <3>1, <3>2
  <2>2. job[Action].pc = "idle" /\ \A r \in Refreshers : job[r].live => r = Boot
    BY <1>1 DEF Idle
  <2> QED
    BY <2>1, <2>2 DEF PosInv
<1>6. QueueInv
  BY <1>1, <1>2, <1>3 DEF QueueInv, Fits, Begin
<1>7. BootInv
  BY <1>1 DEF BootInv, Begin
<1>8. IssuedInv
  BY <1>1 DEF IssuedInv, Idle, Begin, Known
<1>9. ~Stands /\ MemInv /\ StoreInv
  BY <1>1 DEF MemInv, StoreInv, Stands
<1>10. JobInv
  <2>1. \A j \in Jobs : ~SaveBehind(j)
    BY <1>2, <1>3 DEF SaveBehind
  <2> QED
    BY <1>1, <1>9, <2>1
       DEF JobInv, JobOf, Refreshing, Fetching, Acting, Saved, Idle, Begin
<1> QED
  BY <1>4, <1>5, <1>6, <1>7, <1>8, <1>9, <1>10 DEF IInv

LEMMA Invariance == Spec => []IInv
<1>1. IInv /\ [Next]_vars => IInv'
  <2> SUFFICES ASSUME IInv, [Next]_vars PROVE IInv'
    OBVIOUS
  <2>1. TypeOK'
    BY TypeStep DEF IInv
  <2>2. CASE TimerFires
    <3>1. status # "loading"
      BY <2>2 DEF TimerFires, IInv, BootInv
    <3> QED
      BY <2>1, <2>2, <3>1, StartKeeps, Idles DEF TimerFires
  <2>3. CASE UNCHANGED vars
    BY <2>1, <2>3, Idles DEF vars, screen
  <2> QED
    BY <2>1, <2>2, <2>3, RefreshKeeps, ProductKeeps, ActionBegins, ActionKeeps, StoreKeeps,
       AnswerKeeps, ServerKeeps
       DEF Next
<1> QED
  BY <1>1, Initially, PTL DEF Spec

\* The controller's variables keep their types, and the screen is authenticated
\* exactly when it shows a session.
THEOREM TypeCorrect == Spec => []TypeOK
<1>1. IInv => TypeOK
  BY DEF IInv
<1> QED
  BY <1>1, Invariance, PTL

\* sessionFetch: whatever answers come late and however the session changed
\* meanwhile, an answer that reaches a screen is of the session it shows.
THEOREM AnswersBelong == Spec => AnswersBelongToSession
<1>1. ASSUME IInv
      PROVE  \A f \in Fetchers : Deliver(f) => shown # None /\ job[f].val = shown
  <2> SUFFICES ASSUME NEW f \in Fetchers, Deliver(f)
               PROVE  shown # None /\ job[f].val = shown
    OBVIOUS
  <2>1. Fetching(f)
    BY <1>1, Distinct DEF IInv, JobInv, JobOf
  <2> QED
    BY <2>1 DEF Deliver, Fetching
<1> QED
  BY <1>1, Invariance, PTL DEF AnswersBelongToSession

\* runAction(logout): sign-out is shown only for a session that the server has
\* ended, unless a 401 removed the credential while it was being saved.
THEOREM SignOutIsHonest == Spec => SignOutRevokes
<1>1. IInv => (LoggedOut => shown \notin valid \/ overtaken)
  BY DEF IInv, JobInv, JobOf, Jobs, Acting, LoggedOut, Well, Stands
<1> QED
  BY <1>1, Invariance, PTL DEF SignOutRevokes

\* No refresh, timer, logout, failure or restart takes the stored credential of
\* a live session away: only authorizedFetch's removal over a save does.
THEOREM CredentialIsKept == Spec => []KeptUnlessOvertaken
<1>1. IInv => KeptUnlessOvertaken
  BY DEF IInv, StoreInv, Stands, KeptUnlessOvertaken, LiveSessionIsKept
<1> QED
  BY <1>1, Invariance, PTL

\* As long as the screen says that it restores the session, a refresh that may
\* still change it is running: nothing supersedes the first one before that.
THEOREM FirstScreenIsServed == Spec => []LoadingIsServed
<1>1. IInv => LoadingIsServed
  <2> SUFFICES ASSUME IInv, status = "loading" PROVE job[Boot].pc # "idle" /\ job[Boot].live
    BY Distinct DEF LoadingIsServed
  <2> QED
    BY Distinct DEF IInv, BootInv, PosInv, PosOf, Idle
<1> QED
  BY <1>1, Invariance, PTL
=============================================================================
