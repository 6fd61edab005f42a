----------------------------- MODULE AuthController -----------------------------
(***************************************************************************)
(* The client side of sign-in (capabilities/auth/expo/src/controller.ts)   *)
(* on the native platform: a snapshot for the screens, the credential in   *)
(* memory and the one in SecureStore, moved by promises.                   *)
(*                                                                         *)
(* JavaScript between two awaits is one step.  A job is a call that may    *)
(* be suspended: a refresh, the one action `runAction` allows, a product   *)
(* request through sessionFetch.  It waits for the server or for           *)
(* SecureStore; the answer (io) arrives in one step, the code after the    *)
(* await runs in a later one, so other jobs come in between.               *)
(*                                                                         *)
(* The code compares numbers, revision and refreshSequence, with the       *)
(* values a call began with.  They only grow, so equality means that       *)
(* nothing has raised them since: `live` says that, and a step that        *)
(* raises a number ends `live` for the calls that compare it.              *)
(*                                                                         *)
(* A session is named by its credential, None is a session answer without  *)
(* account.  The server and SecureStore are external: the server's side    *)
(* is AuthService, SecureStore performs its calls in their order and each  *)
(* may fail without effect.                                                *)
(***************************************************************************)
EXTENDS Sequences

CONSTANTS
  Creds,       \* native credentials the server may issue
  Refreshers,  \* refreshes suspended at once
  Boot,        \* the refresh inside `initialize`
  Fetchers,    \* product requests in flight at once
  None

Action == "action"

ASSUME ControllerAssumption ==
  /\ Boot \in Refreshers
  /\ Refreshers \cap Fetchers = {}
  /\ Action \notin Refreshers \cup Fetchers
  /\ None \notin Creds

Jobs == Refreshers \cup Fetchers \cup {Action}

Places == {"idle", "load", "ask", "clear", "send", "plan", "browse", "recall", "drop",
           "exchange", "forget", "save", "revoke"}

VARIABLES
  mem,        \* credential, in memory
  stored,     \* the credential in SecureStore
  status,     \* snapshot.status
  shown,      \* the session the snapshot was set from
  offered,    \* snapshot.loginAvailable
  armed,      \* expiryTimer
  link,       \* `initialize` has a callback URL to complete
  job,        \* suspended calls
  calls,      \* SecureStore calls not performed yet
  valid,      \* sessions the server accepts
  issued,     \* credentials ever issued
  overtaken   \* a 401 removed the credential over one being saved (history)

screen == <<status, shown, offered, armed>>
server == <<valid, issued>>
vars   == <<mem, stored, screen, link, job, calls, server, overtaken>>

-----------------------------------------------------------------------------
Idle == [pc |-> "idle", io |-> "out", val |-> None, live |-> FALSE]

Begin(p, v) == [pc |-> p, io |-> "out", val |-> v, live |-> TRUE]
Wait(j, p, v) == [job[j] EXCEPT !.pc = p, !.io = "out", !.val = v]

Call(j, op, v) == Append(calls, [by |-> j, op |-> op, val |-> v])

\* The await of job j in p is over, in either way, or well.
Back(j, p) == job[j].pc = p /\ job[j].io # "out"
Well(j, p) == job[j].pc = p /\ job[j].io = "ok"

\* A call that is no longer current; a request without an answer is over.
Dead(j) == [job[j] EXCEPT !.live = FALSE]
\* invalidate: all of the old revision, requests aborted.
Invalidated ==
  [j \in Jobs |-> IF job[j].pc \in {"ask", "send"} /\ job[j].io = "out" THEN Idle ELSE Dead(j)]
\* What a step of refreshSequence ends.
Superseded == [j \in Jobs |-> IF j \in Refreshers THEN Dead(j) ELSE job[j]]

\* setSession(s) as the last step of job j; s may have expired by this clock.
SetSession(j, s) ==
  /\ \E inTime \in BOOLEAN : shown' = IF inTime THEN s ELSE None
  /\ status' = IF shown' = None THEN "anonymous" ELSE "authenticated"
  /\ armed' = (shown' # None)
  /\ offered' = TRUE
  /\ job' = [Invalidated EXCEPT ![j] = Idle]

End(j) == job' = [job EXCEPT ![j] = Idle]

-----------------------------------------------------------------------------
\* refresh

Started(r) == [Superseded EXCEPT ![r] = Begin("load", None)]

StartRefresh(r) ==
  /\ job[Action].pc = "idle" /\ job[r].pc = "idle" /\ ~(link /\ r = Boot)
  /\ job' = Started(r)
  /\ calls' = Call(r, "load", None)

TryAgain(r) ==
  /\ status \in {"anonymous", "unavailable"}
  /\ StartRefresh(r)
  /\ UNCHANGED <<mem, stored, screen, server, link, overtaken>>

\* The timer is spent, also when a running action makes refresh return.
TimerFires ==
  /\ armed /\ armed' = FALSE
  /\ \/ \E r \in Refreshers : StartRefresh(r)
     \/ job[Action].pc # "idle" /\ UNCHANGED <<job, calls>>
  /\ UNCHANGED <<mem, stored, status, shown, offered, server, link, overtaken>>

Superfluous(r) ==
  /\ ~job[r].live
  /\ \/ \E p \in {"load", "clear"} : Back(r, p)
     \/ job[r].pc = "ask"
  /\ End(r)
  /\ UNCHANGED <<mem, stored, screen, calls, server, link, overtaken>>

\* Mutant: an exception leaves the snapshot as it was.
UnavailableQuietly(r) ==
  /\ job[r].live /\ job[r].io = "failed"
  /\ End(r)
  /\ UNCHANGED <<mem, stored, screen, calls, server, link, overtaken>>

\* The catch block.
Unavailable(r) ==
  /\ job[r].live /\ job[r].io = "failed"
  /\ job' = [Invalidated EXCEPT ![r] = Idle]
  /\ status' = "unavailable" /\ shown' = None /\ armed' = FALSE
  /\ UNCHANGED <<mem, stored, offered, calls, server, link, overtaken>>

Loaded(r) ==
  /\ job[r].live /\ Well(r, "load")
  /\ mem' = job[r].val
  /\ job' = [job EXCEPT ![r] = Wait(r, "ask", job[r].val)]
  /\ UNCHANGED <<stored, screen, calls, server, link, overtaken>>

\* Mutant: the second `current()` is left out.
AskedAnyway(r) ==
  /\ Well(r, "ask")
  /\ \/ /\ job[r].val # None
        /\ SetSession(r, job[r].val)
        /\ UNCHANGED calls
     \/ /\ job[r].val = None
        /\ calls' = Call(r, "save", None)
        /\ job' = [job EXCEPT ![r] = Wait(r, "clear", None)]
        /\ UNCHANGED screen
  /\ UNCHANGED <<mem, stored, server, link, overtaken>>

Asked(r) ==
  /\ job[r].live /\ Well(r, "ask")
  /\ \/ /\ job[r].val # None
        /\ SetSession(r, job[r].val)
        /\ UNCHANGED calls
     \/ /\ job[r].val = None
        /\ calls' = Call(r, "save", None)
        /\ job' = [job EXCEPT ![r] = Wait(r, "clear", None)]
        /\ UNCHANGED screen
  /\ UNCHANGED <<mem, stored, server, link, overtaken>>

Cleared(r) ==
  /\ job[r].live /\ Well(r, "clear")
  /\ mem' = None
  /\ SetSession(r, None)
  /\ UNCHANGED <<stored, calls, server, link, overtaken>>

Refresh(r) ==
  \/ TryAgain(r) \/ Superfluous(r) \/ Unavailable(r) \/ Loaded(r) \/ Asked(r) \/ Cleared(r)

-----------------------------------------------------------------------------
\* Product requests.  Only the screens behind an authenticated snapshot make
\* them, and the client of an older revision rejects at once.

Fetch(f) ==
  /\ status = "authenticated" /\ job[f].pc = "idle"
  /\ job' = [job EXCEPT ![f] = Begin("send", mem)]
  /\ UNCHANGED <<mem, stored, screen, calls, server, link, overtaken>>

\* Mutant: the revision is compared before the request only.
DeliverLate(f) ==
  /\ Well(f, "send") /\ job[f].val # None
  /\ End(f)
  /\ UNCHANGED <<mem, stored, screen, calls, server, link, overtaken>>

Deliver(f) ==
  /\ Well(f, "send") /\ job[f].live /\ job[f].val # None
  /\ End(f)
  /\ UNCHANGED <<mem, stored, screen, calls, server, link, overtaken>>

Reject(f) ==
  /\ \/ job[f].pc = "send" /\ (~job[f].live \/ job[f].io = "failed")
     \/ Back(f, "clear") /\ (~job[f].live \/ job[f].io = "failed")
  /\ End(f)
  /\ UNCHANGED <<mem, stored, screen, calls, server, link, overtaken>>

Unauthorized(f) ==
  /\ Well(f, "send") /\ job[f].live /\ job[f].val = None
  /\ mem' = None
  /\ calls' = Call(f, "save", None)
  /\ job' = [job EXCEPT ![f] = Wait(f, "clear", None)]
  /\ overtaken' = (overtaken \/ job[Action].pc = "save")
  /\ UNCHANGED <<stored, screen, link, server>>

SignedOut(f) ==
  /\ job[f].live /\ Well(f, "clear")
  /\ SetSession(f, None)
  /\ UNCHANGED <<mem, stored, calls, server, link, overtaken>>

Product(f) == Fetch(f) \/ Deliver(f) \/ Reject(f) \/ Unauthorized(f) \/ SignedOut(f)

-----------------------------------------------------------------------------
\* Actions

Act(p, v) == [Superseded EXCEPT ![Action] = Begin(p, v)]
Then(p, v) == job' = [job EXCEPT ![Action] = Wait(Action, p, v)]

\* login: begin keeps a verifier and opens the browser.
Login ==
  /\ status \in {"anonymous", "unavailable"} /\ offered
  /\ job[Action].pc = "idle"
  /\ job' = Act("plan", None)
  /\ calls' = Call(Action, "plan", None)
  /\ UNCHANGED <<mem, stored, screen, server, link, overtaken>>

Planned ==
  /\ Well(Action, "plan")
  /\ Then("browse", None)
  /\ UNCHANGED <<mem, stored, screen, calls, server, link, overtaken>>

\* The browser closes, or comes back with a handoff or with authError.
BrowserReturns ==
  /\ job[Action].pc = "browse"
  /\ \E op \in {"recall", "drop"} :
        /\ calls' = Call(Action, IF op = "drop" THEN "forget" ELSE op, None)
        /\ Then(op, None)
  /\ UNCHANGED <<mem, stored, screen, server, link, overtaken>>

\* initialize, after its refresh: a callback URL the app was started with.
LinkOpens ==
  /\ link /\ job[Boot].pc = "idle"
  /\ link' = FALSE
  /\ \/ /\ job[Action].pc = "idle"
        /\ job' = Act("recall", None)
        /\ calls' = Call(Action, "recall", None)
     \/ job[Action].pc # "idle" /\ UNCHANGED <<job, calls>>
  /\ UNCHANGED <<mem, stored, screen, server, overtaken>>

\* redeem: the verifier is there and in time, or it is deleted.
Recalled ==
  /\ Well(Action, "recall")
  /\ \/ /\ job' = [job EXCEPT ![Action] = Begin("exchange", mem)]
        /\ UNCHANGED calls
     \/ /\ calls' = Call(Action, "forget", None)
        /\ Then("drop", None)
  /\ UNCHANGED <<mem, stored, screen, server, link, overtaken>>

Exchanged ==
  /\ Well(Action, "exchange") /\ job[Action].live
  /\ calls' = Call(Action, "forget", None)
  /\ Then("forget", job[Action].val)
  /\ UNCHANGED <<mem, stored, screen, server, link, overtaken>>

Redeemed ==
  /\ Well(Action, "forget")
  /\ calls' = Call(Action, "save", job[Action].val)
  /\ Then("save", job[Action].val)
  /\ UNCHANGED <<mem, stored, screen, server, link, overtaken>>

SignedIn ==
  /\ Well(Action, "save")
  /\ mem' = job[Action].val
  /\ SetSession(Action, job[Action].val)
  /\ UNCHANGED <<stored, calls, server, link, overtaken>>

Logout ==
  /\ status = "authenticated"
  /\ job[Action].pc = "idle"
  /\ job' = Act("revoke", mem)
  /\ UNCHANGED <<mem, stored, screen, calls, server, link, overtaken>>

\* Mutant: a failed logout signs out here all the same.
RevokedAnyway ==
  /\ Back(Action, "revoke")
  /\ calls' = Call(Action, "save", None)
  /\ Then("clear", None)
  /\ UNCHANGED <<mem, stored, screen, server, link, overtaken>>

Revoked ==
  /\ Well(Action, "revoke") /\ job[Action].live
  /\ calls' = Call(Action, "save", None)
  /\ Then("clear", None)
  /\ UNCHANGED <<mem, stored, screen, server, link, overtaken>>

LoggedOut ==
  /\ Well(Action, "clear")
  /\ mem' = None
  /\ SetSession(Action, None)
  /\ UNCHANGED <<stored, calls, server, link, overtaken>>

\* A rejected await ends the action; the snapshot only gains its message.
ActionFails ==
  /\ \/ job[Action].pc # "idle" /\ job[Action].io = "failed"
     \/ Well(Action, "drop")
     \/ job[Action].pc \in {"exchange", "revoke"} /\ ~job[Action].live
  /\ End(Action)
  /\ UNCHANGED <<mem, stored, screen, calls, server, link, overtaken>>

RunAction ==
  \/ Planned \/ Recalled \/ Exchanged \/ Redeemed \/ SignedIn \/ Revoked \/ LoggedOut
  \/ ActionFails

-----------------------------------------------------------------------------
\* The environment

\* SecureStore performs its oldest call, or fails; redeem fails as well when
\* there is no verifier.
StorePerforms ==
  LET c == Head(calls) IN
  /\ calls # <<>>
  /\ calls' = Tail(calls)
  /\ \/ /\ job' = [job EXCEPT ![c.by].io = "failed"]
        /\ UNCHANGED stored
     \/ /\ stored' = IF c.op = "save" THEN c.val ELSE stored
        /\ job' = [job EXCEPT ![c.by].io = "ok",
                              ![c.by].val = IF c.op = "load" /\ job[c.by].live THEN stored ELSE @]
  /\ UNCHANGED <<mem, screen, server, link, overtaken>>

Answered(j, v) == job' = [job EXCEPT ![j].io = "ok", ![j].val = v]

\* Session and product requests: the session of the bearer, or None; a
\* failure, an abort by the caller and the 15 s timer are one outcome.
ServerAnswers(j) ==
  /\ job[j].pc \in {"ask", "send"} /\ job[j].io = "out" /\ job[j].live
  /\ \/ Answered(j, IF job[j].val \in valid THEN job[j].val ELSE None)
     \/ job' = [job EXCEPT ![j].io = "failed"]
  /\ UNCHANGED <<mem, stored, screen, calls, server, link, overtaken>>

\* establish: the session of the bearer is revoked, a new one issued; either
\* may have happened when the client sees a failure.
ServerExchanges ==
  /\ job[Action].pc = "exchange" /\ job[Action].io = "out" /\ job[Action].live
  /\ \/ \E c \in Creds \ issued :
          /\ issued' = issued \cup {c}
          /\ valid' = (valid \ {job[Action].val}) \cup {c}
          /\ Answered(Action, c)
     \/ /\ valid' \in {valid, valid \ {job[Action].val}}
        /\ job' = [job EXCEPT ![Action].io = "failed"]
        /\ UNCHANGED issued
  /\ UNCHANGED <<mem, stored, screen, calls, link, overtaken>>

ServerRevokes ==
  /\ job[Action].pc = "revoke" /\ job[Action].io = "out" /\ job[Action].live
  /\ \/ /\ valid' = valid \ {job[Action].val}
        /\ Answered(Action, None)
     \/ /\ valid' \in {valid, valid \ {job[Action].val}}
        /\ job' = [job EXCEPT ![Action].io = "failed"]
  /\ UNCHANGED <<mem, stored, screen, calls, issued, link, overtaken>>

\* A session expires, or is revoked by a late effect of an abandoned request.
Lapse(c) ==
  /\ c \in valid /\ valid' = valid \ {c}
  /\ UNCHANGED <<mem, stored, screen, job, calls, issued, link, overtaken>>

\* initialize: the first refresh is at its SecureStore call.  A process that
\* dies loses all but SecureStore, so the next start is one of these states,
\* with any credential, live or not, and with or without a callback URL.
Booting   == [j \in Jobs |-> IF j = Boot THEN Begin("load", None) ELSE Idle]
FirstCall == [by |-> Boot, op |-> "load", val |-> None]

Init ==
  /\ mem = None /\ status = "loading" /\ shown = None /\ offered = FALSE /\ armed = FALSE
  /\ link \in BOOLEAN /\ job = Booting /\ calls = <<FirstCall>>
  /\ stored \in Creds \cup {None}
  /\ issued = {stored} \ {None} /\ valid \in SUBSET issued
  /\ overtaken = FALSE

Next ==
  \/ \E r \in Refreshers : Refresh(r)
  \/ \E f \in Fetchers : Product(f)
  \/ TimerFires \/ Login \/ BrowserReturns \/ LinkOpens \/ Logout \/ RunAction
  \/ StorePerforms
  \/ \E j \in Refreshers \cup Fetchers : ServerAnswers(j)
  \/ ServerExchanges \/ ServerRevokes
  \/ \E c \in Creds : Lapse(c)

Spec == Init /\ [][Next]_vars

-----------------------------------------------------------------------------
(* Properties.                                                             *)

\* Types; the screen is authenticated exactly when it shows a session, and
\* the server accepts only what it has issued.
TypeOK ==
  /\ mem \in Creds \cup {None} /\ stored \in Creds \cup {None}
  /\ status \in {"loading", "authenticated", "anonymous", "unavailable"}
  /\ shown \in Creds \cup {None} /\ offered \in BOOLEAN /\ armed \in BOOLEAN
  /\ link \in BOOLEAN /\ overtaken \in BOOLEAN
  /\ valid \subseteq issued /\ issued \subseteq Creds
  /\ job \in [Jobs -> [pc : Places, io : {"out", "ok", "failed"}, val : Creds \cup {None}, live : BOOLEAN]]
  /\ calls \in Seq([by : Jobs, op : {"load", "save", "plan", "recall", "forget"}, val : Creds \cup {None}])
  /\ (status = "authenticated") = (shown # None)

\* "binds requests to that session, rejects old clients, and cancels old
\* responses": an answer that reaches a screen is of the session it shows.
AnswersBelongToSession ==
  [][\A f \in Fetchers : Deliver(f) => shown # None /\ job[f].val = shown]_vars

AtRest == calls = <<>> /\ \A j \in Jobs : job[j].pc = "idle"

\* At rest the app keeps the credential of the live session it shows, so a
\* restart finds it: no removal meant for an earlier session took it.
LiveSessionIsKept == AtRest /\ shown # None /\ shown \in valid => stored = shown

\* The 401 that authorizedFetch handles while a sign-in is being saved is the
\* only way to lose it: no refresh, timer, logout, failure or restart does.
KeptUnlessOvertaken == ~overtaken => LiveSessionIsKept

\* Sign-out is shown only for a session the server has revoked.  (After an
\* overtaken sign-in a refresh loads no credential, and a logout before its
\* answer is sent without one: the server has nothing to revoke.)
SignOutRevokes ==
  [][LoggedOut => shown \notin valid \/ overtaken]_vars

\* The screen that says "Restoring your session" has no button, so a refresh
\* that may still change it is running.
LoadingIsServed ==
  status = "loading" => \E r \in Refreshers : job[r].pc # "idle" /\ job[r].live
=============================================================================
