------------------------------- MODULE Sessions -------------------------------
(***************************************************************************)
(* Accounts and sessions: src/modules/auth/, users.service.ts, the guards  *)
(* of src/common/guards/ and src/core/session/.                            *)
(*                                                                         *)
(* One browser that may have several requests under way, on any servers.   *)
(* A step is one call to MongoDB or to the session store, or an answer     *)
(* that reaches the browser.  What express-session does is external: a     *)
(* request works on its own copy of the session, saves it at its end only  *)
(* if it has changed it, and renews the cookie it came with ("rolling").   *)
(* A session idle for 7 days, and who may call what, are left out.         *)
(* "Variant" marks a slip that a property notices.                         *)
(***************************************************************************)
EXTENDS Integers

CONSTANTS
  Users,
  None,       \* nobody
  Procs,      \* places where a request can run
  MaxFresh    \* bound: session ids and tokens

SessionsAssumption == None \notin Users /\ MaxFresh \in Nat

VARIABLES
  account, \* user.status, "none" while there is no such account
  store,   \* the sessions in Redis
  cookie,  \* the id in the browser's chat.sid, 0 for none
  token,   \* the CSRF token its page has, 0 for none
  pc, req,
  fresh,   \* the next id or token, none is ever used again
  ended,   \* history: ids of sessions that were destroyed
  shared,  \* history: two requests of the browser were under way at once
  user     \* history: who has logged in and not logged out since

vars == <<account, store, cookie, token, pc, req, fresh, ended, shared, user>>

Session(id, u, t) == [id |-> id, user |-> u, token |-> t]

\* came: the id the browser sent, sent: its token, who: the account a login names,
\* copy: request.session, with id 0 for a new one that is not to be saved.
Request(kind, came, sent, who, copy) ==
  [kind |-> kind, came |-> came, sent |-> sent, who |-> who, copy |-> copy]
NoSession == Session(0, None, 0)
NoRequest == Request("get", 0, 0, None, NoSession)

Init ==
  /\ account = [u \in Users |-> "none"]
  /\ store = {} /\ cookie = 0 /\ token = 0 /\ fresh = 1
  /\ pc = [p \in Procs |-> "idle"] /\ req = [p \in Procs |-> NoRequest]
  /\ ended = {} /\ shared = FALSE /\ user = None

Step(p, step, r) == pc' = [pc EXCEPT ![p] = step] /\ req' = [req EXCEPT ![p] = r]
With(r, copy) == Request(r.kind, r.came, r.sent, r.who, copy)
browser == <<cookie, token, shared, user>>

-----------------------------------------------------------------------------
(* Accounts *)

\* The unique index on the email lets one of several sign-ups in.
Register(u) ==
  /\ account[u] = "none"
  /\ account' = [account EXCEPT ![u] = "pending"]
  /\ UNCHANGED <<store, browser, pc, req, fresh, ended>>

\* Variant: an admin can decide again.
UpdateApprovalAgain(u) ==
  /\ account[u] # "none"
  /\ \E st \in {"approved", "rejected"} : account' = [account EXCEPT ![u] = st]
  /\ UNCHANGED <<store, browser, pc, req, fresh, ended>>

\* Two admins decide at once: the filter on 'pending' lets one of them.
UpdateApproval(u) ==
  /\ account[u] = "pending"
  /\ \E st \in {"approved", "rejected"} : account' = [account EXCEPT ![u] = st]
  /\ UNCHANGED <<store, browser, pc, req, fresh, ended>>

-----------------------------------------------------------------------------
(* A request, from the browser to the session middleware *)

\* GET /auth/csrf-token, POST /auth/login, POST /auth/logout, or a GET behind requireAuth.
Send(p, kind, u) ==
  /\ pc[p] = "idle" /\ fresh <= MaxFresh
  /\ shared' = (shared \/ \E q \in Procs : pc[q] # "idle")
  /\ Step(p, "load", Request(kind, cookie, token, u, NoSession))
  /\ UNCHANGED <<account, store, cookie, token, user, fresh, ended>>

\* The session the cookie names, or a new one, whose id does not matter until it is saved.
Load(p) ==
  /\ pc[p] = "load"
  /\ LET there == {s \in store : s.id = req[p].came} IN
       \/ \E s \in there : Step(p, req[p].kind, With(req[p], s))
       \/ there = {} /\ Step(p, req[p].kind, With(req[p], NoSession))
  /\ UNCHANGED <<account, store, browser, fresh, ended>>

\* request.session.destroy: the id is gone and the request has no session any more.
Destroy(id) == store' = {s \in store : s.id # id} /\ ended' = ended \cup {id}

-----------------------------------------------------------------------------
(* What the handlers do *)

\* Variant: a token for everybody who asks.
NeedsTokenAlways(session) == TRUE

\* A session that has a token keeps it: nothing to save.
NeedsToken(session) == session.token = 0

IssueCsrfToken(p) ==
  /\ pc[p] = "csrf"
  /\ LET s == req[p].copy IN
       \/ ~NeedsToken(s) /\ Step(p, "answer", req[p]) /\ UNCHANGED fresh
       \/ /\ NeedsToken(s)
          /\ Step(p, "save", With(req[p], Session(IF s.id = 0 THEN fresh ELSE s.id, s.user, fresh + 1)))
          /\ fresh' = fresh + 2
  /\ UNCHANGED <<account, store, browser, ended>>

\* requireCsrfToken.
TokenOk(r) == r.sent # 0 /\ r.sent = r.copy.token
Refused(p) == Step(p, "refused", req[p])

\* validateCredentials, for one who knows the password; then regenerateSession ends the old session.
Login(p) ==
  /\ pc[p] = "login"
  /\ \/ /\ TokenOk(req[p]) /\ account[req[p].who] = "approved"
        /\ Destroy(req[p].copy.id)
        /\ Step(p, "regenerated", req[p])
     \/ /\ ~(TokenOk(req[p]) /\ account[req[p].who] = "approved")
        /\ Refused(p) /\ UNCHANGED <<store, ended>>
  /\ UNCHANGED <<account, browser, fresh>>

\* A new id, the user and a new token, then saveSession.
Regenerated(p) ==
  /\ pc[p] = "regenerated"
  /\ Step(p, "save", With(req[p], Session(fresh, req[p].who, fresh + 1)))
  /\ fresh' = fresh + 2
  /\ UNCHANGED <<account, store, browser, ended>>

Save(p) ==
  /\ pc[p] = "save"
  /\ store' = {s \in store : s.id # req[p].copy.id} \cup {req[p].copy}
  /\ Step(p, "answer", req[p])
  /\ UNCHANGED <<account, browser, fresh, ended>>

Logout(p) ==
  /\ pc[p] = "logout"
  /\ \/ TokenOk(req[p]) /\ Destroy(req[p].copy.id) /\ Step(p, "bye", req[p])
     \/ ~TokenOk(req[p]) /\ Refused(p) /\ UNCHANGED <<store, ended>>
  /\ UNCHANGED <<account, browser, fresh>>

\* requireAuth: whoever is not approved is thrown out.
RequireAuth(p) ==
  /\ pc[p] = "get"
  /\ LET u == req[p].copy.user IN
       IF u # None /\ account[u] # "approved"
         THEN Destroy(req[p].copy.id) /\ Step(p, "thrown_out", req[p])
         ELSE Refused(p) /\ UNCHANGED <<store, ended>>
  /\ UNCHANGED <<account, browser, fresh>>

-----------------------------------------------------------------------------
(* The answer reaches the browser *)

\* Set-Cookie: the session the request came with, or a new one that was saved.
SetCookie(r) == cookie' = IF r.copy.id # 0 THEN r.copy.id ELSE cookie

\* Variant: a login's answer has no new token.
ToldOld(r) == IF r.kind = "login" THEN r.sent ELSE r.copy.token

\* The token in the answer of a login, or of csrf-token.
Told(r) == r.copy.token

Answer(p) ==
  /\ \/ /\ pc[p] = "answer"
        /\ SetCookie(req[p]) /\ token' = Told(req[p])
        /\ user' = IF req[p].kind = "login" THEN req[p].who ELSE user
     \/ pc[p] = "refused" /\ SetCookie(req[p]) /\ UNCHANGED <<token, user>>
     \/ pc[p] = "bye" /\ cookie' = 0 /\ user' = None /\ UNCHANGED token
     \/ pc[p] = "thrown_out" /\ UNCHANGED <<cookie, token, user>>
  /\ Step(p, "idle", NoRequest)
  /\ UNCHANGED <<account, store, fresh, ended, shared>>

-----------------------------------------------------------------------------

Next ==
  \/ \E u \in Users : Register(u) \/ UpdateApproval(u)
  \/ \E p \in Procs :
       \/ \E kind \in {"csrf", "logout", "get"} : Send(p, kind, None)
       \/ \E u \in Users : Send(p, "login", u)
       \/ Load(p) \/ IssueCsrfToken(p) \/ Login(p) \/ Regenerated(p) \/ Save(p) \/ Logout(p)
       \/ RequireAuth(p) \/ Answer(p)

Spec == Init /\ [][Next]_vars

-----------------------------------------------------------------------------
(* Properties *)

\* A session that was ended, by a logout or the regeneration of a login, never comes back:
\* no request that is still working on its own copy of it saves that copy (resave: false, and
\* issueCsrfToken changes nothing in a session that has a token).
EndedForGood == \A s \in store : s.id \notin ended

\* Nobody is logged in whose account is not approved, so that no session ends but by its user:
\* the status a login has read cannot change before the session is saved (updateApproval decides
\* once), and requireAuth throws nobody out.
OnlyApproved == \A s \in store : s.user # None => account[s.user] = "approved"

\* A browser that waits for its answers stays who it is until it logs out, and its page's token
\* is the one its session expects, also after a login has replaced both (auth.controller.ts,
\* login).  One that does not wait may lose its login: a late answer renews the old cookie.
StillLoggedIn ==
  ~shared /\ (\A p \in Procs : pc[p] = "idle") =>
    /\ \A s \in store : s.id = cookie => s.token = token /\ s.user = user
    /\ user # None => \E s \in store : s.id = cookie
=============================================================================
