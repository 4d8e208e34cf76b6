------------------------------ MODULE PartsProofs ------------------------------
(***************************************************************************)
(* Proofs about the components that MCParts brings together, in the names  *)
(* it gives their state, for any number of browsers, tabs, requests,       *)
(* devices and failures.  Each section proves one component:               *)
(*                                                                         *)
(*   Sessions        what is saved again is what was loaded, so an ended   *)
(*                   session stays ended; a browser that waits for its     *)
(*                   answers is the only one to know its session           *)
(*   Profiles        nothing is asked before the index is built or failed  *)
(*   Rooms           a tab enters no room but the thread's; the command in *)
(*                   flight is the last one its client gave                *)
(*   PushSubscriptions  what the saves under way will delete makes up for  *)
(*                   the rows they have written                            *)
(*   OpenThread      whoever joins before asking for the page is told what *)
(*                   the page does not have                                *)
(*   History         what a reader has not got is past its cursor          *)
(*   Analytics       a slot lies within a day, the window covers the days  *)
(*   Metrics         what is read was sent, and what was sent only grows   *)
(***************************************************************************)
EXTENDS MCParts, FiniteSetTheorems, SequenceTheorems, WellFoundedInduction, TLAPS

Statuses == {"none", "pending", "approved", "rejected"}
Kinds == {"csrf", "login", "logout", "get"}
Steps == Kinds \cup {"idle", "load", "regenerated", "save", "answer", "refused", "bye",
    "thrown_out"}
SessionType == [id : Nat, user : Users \cup {None}, token : Nat]
RequestType == [kind : Kinds, came : Nat, sent : Nat, who : Users \cup {None}, copy : SessionType]

Typed ==
  /\ account \in [Users -> Statuses]
  /\ store \subseteq SessionType
  /\ cookie \in Nat /\ token \in Nat /\ fresh \in Nat /\ fresh > 0
  /\ pc \in [Procs -> Steps] /\ req \in [Procs -> RequestType]
  /\ ended \subseteq Nat
  /\ shared \in BOOLEAN /\ user \in Users \cup {None}

Copy(p) == req[p].copy

\* Ids are used once: what has one got it before, and a stored session has a token.
Used ==
  /\ \A s \in store : s.id > 0 /\ s.id < fresh /\ s.token # 0
  /\ \A i \in ended : i < fresh
  /\ \A p \in Procs : Copy(p).id < fresh /\ (Copy(p).id = 0 \/ Copy(p).token # 0)

\* A session that is about to be saved is new: nothing else has its id.
Unshared ==
  \A p \in Procs : pc[p] = "save" =>
    /\ Copy(p).id > 0 /\ Copy(p).id \notin ended
    /\ \A s \in store : s.id # Copy(p).id
    /\ \A q \in Procs : q # p => Copy(q).id # Copy(p).id

Approved(u) == u = None \/ (u \in Users /\ account[u] = "approved")

\* Whoever a session or a copy of one names is approved, and so is one whose login has passed.
Trusted ==
  /\ \A s \in store : Approved(s.user)
  /\ \A p \in Procs : Approved(Copy(p).user)
  /\ \A p \in Procs : pc[p] = "regenerated" => Approved(req[p].who)

IInv == Typed /\ Used /\ Unshared /\ EndedForGood /\ Trusted

-----------------------------------------------------------------------------
(* Sessions: steps of a request *)

Untouched(p) == \A q \in Procs : q # p => pc'[q] = pc[q] /\ req'[q] = req[q]

LEMMA StepTaken ==
  ASSUME Typed, NEW p \in Procs, NEW st, NEW r, Step(p, st, r)
  PROVE  pc'[p] = st /\ req'[p] = r /\ Untouched(p)
  BY DEF Typed, Step, Untouched

LEMMA StepTypes ==
  ASSUME Typed, NEW p \in Procs, NEW st \in Steps, NEW r \in RequestType, Step(p, st, r)
  PROVE  pc' \in [Procs -> Steps] /\ req' \in [Procs -> RequestType]
  BY DEF Typed, Step

LEMMA SessionParts ==
  ASSUME NEW i \in Nat, NEW u \in Users \cup {None}, NEW t \in Nat
  PROVE  /\ Session(i, u, t) \in SessionType
         /\ Session(i, u, t).id = i /\ Session(i, u, t).user = u /\ Session(i, u, t).token = t
  BY DEF Session, SessionType

LEMMA RequestParts ==
  ASSUME NEW k \in Kinds, NEW c \in Nat, NEW t \in Nat, NEW u \in Users \cup {None},
         NEW s \in SessionType
  PROVE  /\ Request(k, c, t, u, s) \in RequestType
         /\ Request(k, c, t, u, s).kind = k /\ Request(k, c, t, u, s).came = c
         /\ Request(k, c, t, u, s).sent = t /\ Request(k, c, t, u, s).who = u
         /\ Request(k, c, t, u, s).copy = s
  BY DEF Request, RequestType

LEMMA Fields ==
  /\ \A s \in SessionType : s.id \in Nat /\ s.user \in Users \cup {None} /\ s.token \in Nat
  /\ \A r \in RequestType :
       /\ r.kind \in Kinds /\ r.came \in Nat /\ r.sent \in Nat
       /\ r.who \in Users \cup {None} /\ r.copy \in SessionType
  BY DEF SessionType, RequestType

LEMMA Nobody == NoSession \in SessionType /\ NoSession.id = 0 /\ NoSession.user = None
  /\ NoSession.token = 0
  BY SessionParts DEF NoSession

LEMMA NothingAsked == NoRequest \in RequestType /\ NoRequest.copy = NoSession
  BY Nobody, RequestParts DEF NoRequest, Kinds

LEMMA WithParts ==
  ASSUME NEW r \in RequestType, NEW s \in SessionType
  PROVE  /\ With(r, s) \in RequestType
         /\ With(r, s).kind = r.kind /\ With(r, s).came = r.came /\ With(r, s).sent = r.sent
         /\ With(r, s).who = r.who /\ With(r, s).copy = s
<1> DEFINE w == Request(r.kind, r.came, r.sent, r.who, s)
<1>1. r.kind \in Kinds /\ r.came \in Nat /\ r.sent \in Nat /\ r.who \in Users \cup {None}  BY Fields
<1>2. /\ w \in RequestType /\ w.kind = r.kind /\ w.came = r.came /\ w.sent = r.sent
      /\ w.who = r.who /\ w.copy = s
  BY <1>1 DEF Request, RequestType
<1>3. With(r, s) = w  BY DEF With
<1> HIDE DEF w
<1> QED  BY <1>2, <1>3

-----------------------------------------------------------------------------
(* Sessions: the kinds of steps *)

Rest(p) == account' = account /\ Untouched(p)

Keeps(p) ==
  /\ Rest(p) /\ UNCHANGED <<store, fresh, ended>>
  /\ pc'[p] \notin {"save", "regenerated"}
  /\ req'[p].copy \in {Copy(p), NoSession}

Loads(p) ==
  /\ Rest(p) /\ UNCHANGED <<store, fresh, ended>>
  /\ pc'[p] \notin {"save", "regenerated"}
  /\ req'[p].copy \in store

Ends(p) ==
  /\ Rest(p) /\ UNCHANGED fresh
  /\ pc'[p] # "save" /\ req'[p] = req[p]
  /\ Destroy(Copy(p).id)
  /\ pc'[p] = "regenerated" => Approved(req[p].who)

Makes(p) ==
  /\ Rest(p) /\ UNCHANGED <<store, ended>>
  /\ pc'[p] = "save" /\ fresh' = fresh + 2
  /\ req'[p].copy.id = fresh /\ req'[p].copy.token = fresh + 1
  /\ req'[p].copy.user = Copy(p).user \/ (pc[p] = "regenerated" /\ req'[p].copy.user = req[p].who)

Saves(p) ==
  /\ Rest(p) /\ UNCHANGED <<fresh, ended>>
  /\ pc[p] = "save" /\ pc'[p] = "answer" /\ req'[p] = req[p]
  /\ store' = {s \in store : s.id # Copy(p).id} \cup {Copy(p)}

\* An account that is approved stays so.
Decides ==
  /\ UNCHANGED <<store, pc, req, fresh, ended>>
  /\ \A u \in Users : account[u] = "approved" => account'[u] = "approved"

LEMMA SendKeeps ==
  ASSUME IInv, NEW p \in Procs, NEW k \in Kinds, NEW u \in Users \cup {None}, Send(p, k, u)
  PROVE  Keeps(p) /\ Typed'
<1>1. Typed /\ NoSession \in SessionType /\ cookie \in Nat /\ token \in Nat
  BY Nobody DEF IInv, Typed
<1>2. /\ Request(k, cookie, token, u, NoSession) \in RequestType
      /\ Request(k, cookie, token, u, NoSession).copy = NoSession
  BY <1>1, RequestParts
<1> DEFINE r == Request(k, cookie, token, u, NoSession)
<1>3. Step(p, "load", r)  BY DEF Send
<1> HIDE DEF r
<1>4. pc'[p] = "load" /\ req'[p] = r /\ Untouched(p)  BY <1>1, <1>3, StepTaken
<1>5. pc' \in [Procs -> Steps] /\ req' \in [Procs -> RequestType]
  BY <1>1, <1>2, <1>3, StepTypes DEF r, Steps
<1>6. Keeps(p)  BY <1>2, <1>4 DEF Send, Keeps, Rest, r
<1>7. Typed'  BY <1>1, <1>5 DEF Send, Typed
<1> QED  BY <1>6, <1>7

LEMMA LoadKinds ==
  ASSUME IInv, NEW p \in Procs, Load(p)
  PROVE  (Keeps(p) \/ Loads(p)) /\ Typed'
<1>1. Typed /\ store \subseteq SessionType /\ req[p] \in RequestType  BY DEF IInv, Typed
<1>2. PICK s \in store \cup {NoSession} : Step(p, req[p].kind, With(req[p], s))
  BY DEF Load
<1>3. s \in SessionType /\ req[p].kind \in Kinds  BY <1>1, Fields, Nobody
<1>4. With(req[p], s) \in RequestType /\ With(req[p], s).copy = s  BY <1>1, <1>3, WithParts
<1>5. pc'[p] = req[p].kind /\ req'[p].copy = s /\ Untouched(p)  BY <1>1, <1>2, <1>4, StepTaken
<1>6. pc' \in [Procs -> Steps] /\ req' \in [Procs -> RequestType]
  BY <1>1, <1>2, <1>3, <1>4, StepTypes DEF Steps
<1>7. Keeps(p) \/ Loads(p)  BY <1>3, <1>5 DEF Load, Keeps, Loads, Rest, Kinds
<1>8. Typed'  BY <1>1, <1>6 DEF Load, Typed, browser
<1> QED  BY <1>7, <1>8

\* A session without a token is a new one.
LEMMA IssueKinds ==
  ASSUME IInv, NEW p \in Procs, IssueCsrfToken(p)
  PROVE  (Keeps(p) \/ Makes(p)) /\ Typed'
<1>1. Typed /\ req[p] \in RequestType /\ Copy(p) \in SessionType /\ fresh \in Nat
  BY Fields DEF IInv, Typed, Copy
<1>2. Copy(p).id \in Nat /\ Copy(p).user \in Users \cup {None} /\ Copy(p).token \in Nat
  BY <1>1, Fields
<1>3. CASE ~NeedsToken(Copy(p))
  <2>1. Step(p, "answer", req[p]) /\ UNCHANGED fresh  BY <1>3 DEF IssueCsrfToken, Copy
  <2>2. pc'[p] = "answer" /\ req'[p] = req[p] /\ Untouched(p)  BY <1>1, <2>1, StepTaken
  <2>3. pc' \in [Procs -> Steps] /\ req' \in [Procs -> RequestType]
    BY <1>1, <2>1, StepTypes DEF Steps
  <2>4. Keeps(p)  BY <2>1, <2>2 DEF IssueCsrfToken, Keeps, Rest, Copy
  <2>5. Typed'  BY <1>1, <2>1, <2>3 DEF IssueCsrfToken, Typed, browser
  <2> QED  BY <2>4, <2>5
<1>4. CASE NeedsToken(Copy(p))
  <2>1. Copy(p).id = 0  BY <1>4 DEF NeedsToken, IInv, Used
  <2> DEFINE s == Session(fresh, Copy(p).user, fresh + 1)
  <2>2. Step(p, "save", With(req[p], s)) /\ fresh' = fresh + 2
    BY <1>4, <2>1 DEF IssueCsrfToken, Copy
  <2>3. s \in SessionType /\ s.id = fresh /\ s.user = Copy(p).user /\ s.token = fresh + 1
    BY <1>1, <1>2, SessionParts
  <2> HIDE DEF s
  <2>4. With(req[p], s) \in RequestType /\ With(req[p], s).copy = s  BY <1>1, <2>3, WithParts
  <2>5. pc'[p] = "save" /\ req'[p].copy = s /\ Untouched(p)  BY <1>1, <2>2, <2>4, StepTaken
  <2>6. pc' \in [Procs -> Steps] /\ req' \in [Procs -> RequestType]
    BY <1>1, <2>2, <2>4, StepTypes DEF Steps
  <2>7. Makes(p)  BY <2>2, <2>3, <2>5 DEF IssueCsrfToken, Makes, Rest
  <2>8. Typed'  BY <1>1, <2>2, <2>6 DEF IssueCsrfToken, Typed, browser
  <2> QED  BY <2>7, <2>8
<1> QED  BY <1>3, <1>4

LEMMA RegeneratedMakes ==
  ASSUME IInv, NEW p \in Procs, Regenerated(p)
  PROVE  Makes(p) /\ Typed'
<1>1. Typed /\ req[p] \in RequestType /\ req[p].who \in Users \cup {None} /\ fresh \in Nat
  BY Fields DEF IInv, Typed
<1> DEFINE s == Session(fresh, req[p].who, fresh + 1)
<1>2. s \in SessionType /\ s.id = fresh /\ s.user = req[p].who /\ s.token = fresh + 1
  BY <1>1, SessionParts
<1>3. Step(p, "save", With(req[p], s))  BY DEF Regenerated
<1> HIDE DEF s
<1>4. With(req[p], s) \in RequestType /\ With(req[p], s).copy = s  BY <1>1, <1>2, WithParts
<1>5. pc'[p] = "save" /\ req'[p].copy = s /\ Untouched(p)  BY <1>1, <1>3, <1>4, StepTaken
<1>6. pc' \in [Procs -> Steps] /\ req' \in [Procs -> RequestType]
  BY <1>1, <1>3, <1>4, StepTypes DEF Steps
<1>7. Makes(p)  BY <1>2, <1>5 DEF Regenerated, Makes, Rest
<1>8. Typed'  BY <1>1, <1>6 DEF Regenerated, Typed, browser
<1> QED  BY <1>7, <1>8

\* A step that leaves its request as it is.
LEMMA SameRequest ==
  ASSUME Typed, NEW p \in Procs, NEW st \in Steps, Step(p, st, req[p])
  PROVE  /\ pc'[p] = st /\ req'[p] = req[p] /\ Untouched(p)
         /\ pc' \in [Procs -> Steps] /\ req' \in [Procs -> RequestType]
<1>1. req[p] \in RequestType  BY DEF Typed
<1> QED  BY <1>1, StepTaken, StepTypes

LEMMA DestroyTypes ==
  ASSUME Typed, NEW i \in Nat, Destroy(i)
  PROVE  store' \subseteq SessionType /\ ended' \subseteq Nat
  BY DEF Typed, Destroy

LEMMA LoginKinds ==
  ASSUME IInv, NEW p \in Procs, Login(p)
  PROVE  (Keeps(p) \/ Ends(p)) /\ Typed'
<1>1. Typed /\ Copy(p).id \in Nat /\ req[p].who \in Users \cup {None}
  BY Fields DEF IInv, Typed, Copy
<1>2. CASE TokenOk(req[p]) /\ account[req[p].who] = "approved"
  <2>1. Destroy(Copy(p).id) /\ Step(p, "regenerated", req[p])  BY <1>2 DEF Login, Copy
  <2>2. /\ pc'[p] = "regenerated" /\ req'[p] = req[p] /\ Untouched(p)
        /\ pc' \in [Procs -> Steps] /\ req' \in [Procs -> RequestType]
    BY <1>1, <2>1, SameRequest DEF Steps
  <2>3. Ends(p)  BY <1>1, <1>2, <2>1, <2>2 DEF Login, Ends, Rest, Approved
  <2>4. Typed'  BY <1>1, <2>1, <2>2, DestroyTypes DEF Login, Typed, browser
  <2> QED  BY <2>3, <2>4
<1>3. CASE ~(TokenOk(req[p]) /\ account[req[p].who] = "approved")
  <2>1. Step(p, "refused", req[p])  BY <1>3 DEF Login, Refused
  <2>2. /\ pc'[p] = "refused" /\ req'[p] = req[p] /\ Untouched(p)
        /\ pc' \in [Procs -> Steps] /\ req' \in [Procs -> RequestType]
    BY <1>1, <2>1, SameRequest DEF Steps
  <2>3. Keeps(p)  BY <1>3, <2>2 DEF Login, Keeps, Rest, Copy
  <2>4. Typed'  BY <1>1, <1>3, <2>2 DEF Login, Typed, browser
  <2> QED  BY <2>3, <2>4
<1> QED  BY <1>2, <1>3

LEMMA LogoutKinds ==
  ASSUME IInv, NEW p \in Procs, Logout(p)
  PROVE  (Keeps(p) \/ Ends(p)) /\ Typed'
<1>1. Typed /\ Copy(p).id \in Nat  BY Fields DEF IInv, Typed, Copy
<1>2. CASE TokenOk(req[p])
  <2>1. Destroy(Copy(p).id) /\ Step(p, "bye", req[p])  BY <1>2 DEF Logout, Copy
  <2>2. /\ pc'[p] = "bye" /\ req'[p] = req[p] /\ Untouched(p)
        /\ pc' \in [Procs -> Steps] /\ req' \in [Procs -> RequestType]
    BY <1>1, <2>1, SameRequest DEF Steps
  <2>3. Ends(p)  BY <2>1, <2>2 DEF Logout, Ends, Rest
  <2>4. Typed'  BY <1>1, <2>1, <2>2, DestroyTypes DEF Logout, Typed, browser
  <2> QED  BY <2>3, <2>4
<1>3. CASE ~TokenOk(req[p])
  <2>1. Step(p, "refused", req[p])  BY <1>3 DEF Logout, Refused
  <2>2. /\ pc'[p] = "refused" /\ req'[p] = req[p] /\ Untouched(p)
        /\ pc' \in [Procs -> Steps] /\ req' \in [Procs -> RequestType]
    BY <1>1, <2>1, SameRequest DEF Steps
  <2>3. Keeps(p)  BY <1>3, <2>2 DEF Logout, Keeps, Rest, Copy
  <2>4. Typed'  BY <1>1, <1>3, <2>2 DEF Logout, Typed, browser
  <2> QED  BY <2>3, <2>4
<1> QED  BY <1>2, <1>3

\* Nobody is thrown out: whoever a copy names is approved.
LEMMA RequireAuthKeeps ==
  ASSUME IInv, NEW p \in Procs, RequireAuth(p)
  PROVE  Keeps(p) /\ pc'[p] = "refused" /\ Typed'
<1>1. Typed  BY DEF IInv
<1>2. ~(Copy(p).user # None /\ account[Copy(p).user] # "approved")
  BY DEF IInv, Trusted, Approved
<1>3. Step(p, "refused", req[p]) /\ UNCHANGED <<store, ended>>
  BY <1>2 DEF RequireAuth, Refused, Copy
<1>4. /\ pc'[p] = "refused" /\ req'[p] = req[p] /\ Untouched(p)
      /\ pc' \in [Procs -> Steps] /\ req' \in [Procs -> RequestType]
  BY <1>1, <1>3, SameRequest DEF Steps
<1>5. Keeps(p)  BY <1>3, <1>4 DEF RequireAuth, Keeps, Rest, Copy
<1>6. Typed'  BY <1>1, <1>3, <1>4 DEF RequireAuth, Typed, browser
<1> QED  BY <1>4, <1>5, <1>6

LEMMA SaveSaves ==
  ASSUME IInv, NEW p \in Procs, Save(p)
  PROVE  Saves(p) /\ Typed'
<1>1. Typed /\ Copy(p) \in SessionType  BY Fields DEF IInv, Typed, Copy
<1>2. /\ pc'[p] = "answer" /\ req'[p] = req[p] /\ Untouched(p)
      /\ pc' \in [Procs -> Steps] /\ req' \in [Procs -> RequestType]
  BY <1>1, SameRequest DEF Save, Steps
<1>3. Saves(p)  BY <1>2 DEF Save, Saves, Rest, Copy
<1>4. store' \subseteq SessionType  BY <1>1, <1>3 DEF Saves, Typed
<1>5. Typed'  BY <1>1, <1>2, <1>4 DEF Save, Typed, browser
<1> QED  BY <1>3, <1>5

LEMMA AnswerKeeps ==
  ASSUME IInv, NEW p \in Procs, Answer(p)
  PROVE  Keeps(p) /\ Typed'
<1>1. Typed /\ req[p] \in RequestType  BY DEF IInv, Typed
<1>2. Step(p, "idle", NoRequest)  BY DEF Answer
<1>3. pc'[p] = "idle" /\ req'[p] = NoRequest /\ Untouched(p)  BY <1>1, <1>2, StepTaken
<1>4. pc' \in [Procs -> Steps] /\ req' \in [Procs -> RequestType]
  BY <1>1, <1>2, StepTypes, NothingAsked DEF Steps
<1>5. Keeps(p)  BY <1>3, NothingAsked DEF Answer, Keeps, Rest
<1>6. /\ req[p].copy.id \in Nat /\ req[p].copy.token \in Nat /\ req[p].who \in Users \cup {None}
      /\ cookie \in Nat /\ token \in Nat /\ user \in Users \cup {None}
  BY <1>1, Fields DEF Typed
<1>7. cookie' \in Nat /\ token' \in Nat /\ user' \in Users \cup {None}
  BY <1>6 DEF Answer, SetCookie, Told
<1>8. Typed'  BY <1>1, <1>4, <1>7 DEF Answer, Typed
<1> QED  BY <1>5, <1>8

LEMMA AccountsDecide ==
  ASSUME IInv, NEW u \in Users, Register(u) \/ UpdateApproval(u)
  PROVE  Decides /\ Typed'
<1>1. Typed /\ account \in [Users -> Statuses]  BY DEF IInv, Typed
<1>2. account' \in [Users -> Statuses]  BY <1>1 DEF Register, UpdateApproval, Statuses
<1>3. Decides  BY <1>1 DEF Register, UpdateApproval, Decides
<1>4. Typed'  BY <1>1, <1>2 DEF Register, UpdateApproval, Typed, browser
<1> QED  BY <1>3, <1>4

Kind(p) == Keeps(p) \/ Loads(p) \/ Ends(p) \/ Makes(p) \/ Saves(p)

LEMMA NextKinds ==
  ASSUME IInv, Next
  PROVE  ((\E p \in Procs : Kind(p)) \/ Decides) /\ Typed'
<1>1. ASSUME NEW u \in Users, Register(u) \/ UpdateApproval(u) PROVE Decides /\ Typed'
  BY <1>1, AccountsDecide
<1>2. ASSUME NEW p \in Procs, NEW k \in {"csrf", "logout", "get"}, Send(p, k, None)
      PROVE  Kind(p) /\ Typed'
  <2>1. k \in Kinds  BY DEF Kinds
  <2> QED  BY <1>2, <2>1, SendKeeps DEF Kind
<1>3. ASSUME NEW p \in Procs, NEW u \in Users, Send(p, "login", u) PROVE Kind(p) /\ Typed'
  BY <1>3, SendKeeps DEF Kind, Kinds
<1>4. ASSUME NEW p \in Procs,
             \/ Load(p) \/ IssueCsrfToken(p) \/ Login(p) \/ Regenerated(p) \/ Save(p) \/ Logout(p)
             \/ RequireAuth(p) \/ Answer(p)
      PROVE  Kind(p) /\ Typed'
  BY <1>4, LoadKinds, IssueKinds, LoginKinds, RegeneratedMakes, SaveSaves, LogoutKinds,
     RequireAuthKeeps, AnswerKeeps DEF Kind
<1> QED  BY <1>1, <1>2, <1>3, <1>4, Zenon DEF Next

-----------------------------------------------------------------------------
(* Sessions: the invariant is inductive *)

LEMMA InitIInv == Init => IInv
<1> SUFFICES ASSUME Init PROVE IInv  OBVIOUS
<1>1. NoRequest \in RequestType /\ NoRequest.copy = NoSession  BY NothingAsked
<1>2. /\ account \in [Users -> Statuses]
      /\ pc \in [Procs -> Steps] /\ req \in [Procs -> RequestType]
  BY <1>1 DEF Init, Statuses, Steps
<1>3. Typed
  <2>1. store \subseteq SessionType /\ ended \subseteq Nat /\ shared \in BOOLEAN
          /\ user \in Users \cup {None}
    BY Zenon DEF Init
  <2>2. cookie \in Nat /\ token \in Nat /\ fresh \in Nat /\ fresh > 0  BY DEF Init
  <2> QED  BY <1>2, <2>1, <2>2 DEF Typed
<1>4. Used /\ Unshared /\ EndedForGood /\ Trusted
  BY <1>1, Nobody DEF Init, Used, Unshared, EndedForGood, Trusted, Approved, Copy
<1> QED  BY <1>3, <1>4 DEF IInv

\* What every kind of step leaves in the copies.
LEMMA CopyOf ==
  ASSUME IInv, NEW p \in Procs, Rest(p)
  PROVE  \A q \in Procs : q # p => Copy(q)' = Copy(q) /\ pc'[q] = pc[q] /\ req'[q] = req[q]
  BY DEF Rest, Untouched, Copy

LEMMA KindUsed ==
  ASSUME IInv, NEW p \in Procs, Kind(p)
  PROVE  Used' /\ Unshared' /\ EndedForGood'
<1> USE DEF IInv, Used
<1>1. Rest(p)  BY DEF Kind, Keeps, Loads, Ends, Makes, Saves
<1>2. \A q \in Procs : q # p => Copy(q)' = Copy(q) /\ pc'[q] = pc[q]  BY <1>1, CopyOf
<1>3. /\ fresh \in Nat /\ fresh > 0 /\ ended \subseteq Nat
      /\ \A q \in Procs : Copy(q).id \in Nat /\ Copy(q).token \in Nat
      /\ \A s \in store : s.id \in Nat /\ s.token \in Nat
  BY Fields DEF Typed, Copy
<1>4. Copy(p)' = req'[p].copy  BY DEF Copy
<1>5. CASE Keeps(p)
  <2>1. /\ store' = store /\ fresh' = fresh /\ ended' = ended /\ pc'[p] # "save"
        /\ Copy(p)' = Copy(p) \/ Copy(p)' = NoSession
    BY <1>4, <1>5 DEF Keeps
  <2>2. Used'  BY <1>2, <1>3, <2>1, Nobody
  <2>3. Unshared'  BY <1>2, <1>3, <2>1, Nobody DEF Unshared
  <2> QED  BY <2>1, <2>2, <2>3 DEF EndedForGood
<1>6. CASE Loads(p)
  <2>1. store' = store /\ fresh' = fresh /\ ended' = ended /\ pc'[p] # "save" /\ Copy(p)' \in store
    BY <1>4, <1>6 DEF Loads
  <2>2. Used'  BY <1>2, <1>3, <2>1
  <2>3. Unshared'  BY <1>2, <1>3, <2>1 DEF Unshared
  <2> QED  BY <2>1, <2>2, <2>3 DEF EndedForGood
<1>7. CASE Ends(p)
  <2>1. /\ store' = {s \in store : s.id # Copy(p).id} /\ ended' = ended \cup {Copy(p).id}
        /\ fresh' = fresh /\ pc'[p] # "save" /\ Copy(p)' = Copy(p)
    BY <1>4, <1>7 DEF Ends, Destroy, Copy
  <2>2. Used'  BY <1>2, <1>3, <2>1
  <2>3. Unshared'  BY <1>2, <1>3, <2>1 DEF Unshared
  <2>4. EndedForGood'  BY <2>1 DEF EndedForGood
  <2> QED  BY <2>2, <2>3, <2>4
<1>8. CASE Makes(p)
  <2>1. /\ store' = store /\ ended' = ended /\ fresh' = fresh + 2
        /\ Copy(p)'.id = fresh /\ Copy(p)'.token = fresh + 1
    BY <1>4, <1>8 DEF Makes
  <2>2. Used'  BY <1>2, <1>3, <2>1
  <2>3. Unshared'  BY <1>2, <1>3, <2>1 DEF Unshared
  <2> QED  BY <2>1, <2>2, <2>3 DEF EndedForGood
<1>9. CASE Saves(p)
  <2>1. /\ store' = {s \in store : s.id # Copy(p).id} \cup {Copy(p)} /\ ended' = ended
             /\ fresh' = fresh
        /\ pc[p] = "save" /\ pc'[p] = "answer" /\ Copy(p)' = Copy(p)
    BY <1>4, <1>9 DEF Saves, Copy
  <2>2. Copy(p).id > 0 /\ Copy(p).id \notin ended  BY <2>1 DEF Unshared
  <2>3. Used'  BY <1>2, <1>3, <2>1, <2>2
  <2>4. Unshared'  BY <1>2, <1>3, <2>1 DEF Unshared
  <2>5. EndedForGood'  BY <2>1, <2>2 DEF EndedForGood
  <2> QED  BY <2>3, <2>4, <2>5
<1> QED  BY <1>5, <1>6, <1>7, <1>8, <1>9 DEF Kind

LEMMA KindTrusted ==
  ASSUME IInv, NEW p \in Procs, Kind(p)
  PROVE  Trusted'
<1> USE DEF IInv, Trusted
<1>1. Rest(p)  BY DEF Kind, Keeps, Loads, Ends, Makes, Saves
<1>2. \A q \in Procs : q # p => Copy(q)' = Copy(q) /\ pc'[q] = pc[q] /\ req'[q] = req[q]
  BY <1>1, CopyOf
<1>3. \A u : Approved(u)' <=> Approved(u)  BY <1>1 DEF Rest, Approved
<1>4. Copy(p)' = req'[p].copy  BY DEF Copy
<1>5. Approved(None)  BY DEF Approved
<1>6. \A s \in store' : Approved(s.user)
  BY DEF Kind, Keeps, Loads, Ends, Makes, Saves, Destroy
<1>7. Approved(Copy(p)'.user)
  BY <1>4, <1>5, Nobody DEF Kind, Keeps, Loads, Ends, Makes, Saves, Copy
<1>8. pc'[p] = "regenerated" => Approved(req'[p].who)
  BY DEF Kind, Keeps, Loads, Ends, Makes, Saves
<1> QED  BY <1>2, <1>3, <1>6, <1>7, <1>8

LEMMA DecidesKeep ==
  ASSUME IInv, Decides
  PROVE  Used' /\ Unshared' /\ EndedForGood' /\ Trusted'
<1>1. Used' /\ Unshared' /\ EndedForGood'
  BY DEF IInv, Decides, Used, Unshared, EndedForGood, Copy
<1>2. Trusted'
  BY DEF IInv, Decides, Trusted, Approved, Copy
<1> QED  BY <1>1, <1>2

LEMMA NextIInv == IInv /\ [Next]_vars => IInv'
<1> SUFFICES ASSUME IInv, [Next]_vars PROVE IInv'  OBVIOUS
<1>1. CASE Next
  <2>1. Typed'  BY <1>1, NextKinds
  <2>2. Used' /\ Unshared' /\ EndedForGood' /\ Trusted'
    BY <1>1, NextKinds, KindUsed, KindTrusted, DecidesKeep
  <2> QED  BY <2>1, <2>2 DEF IInv
<1>2. CASE UNCHANGED vars
  BY <1>2 DEF vars, IInv, Typed, Used, Unshared, EndedForGood, Trusted, Approved, Copy
<1> QED  BY <1>1, <1>2

LEMMA InvariantIInv == Spec => []IInv
  BY InitIInv, NextIInv, PTL DEF Spec

\* A session that was ended never comes back, whatever requests still work on their own copy of
\* it (core/session/session.ts, resave: false; csrf.guard.ts, issueCsrfToken changes no session that
\* has a token).
THEOREM EndedStaysEnded == Spec => []EndedForGood
<1>1. IInv => EndedForGood  BY DEF IInv
<1> QED  BY <1>1, InvariantIInv, PTL

\* Whoever a stored session names is approved: an approval is final, so none between what a login
\* reads and the session it saves can take it back (users.service.ts, updateApproval).
THEOREM OnlyApprovedLogin == Spec => []OnlyApproved
<1>1. IInv => OnlyApproved  BY DEF IInv, Trusted, Approved, OnlyApproved
<1> QED  BY <1>1, InvariantIInv, PTL

-----------------------------------------------------------------------------
(* Sessions: a browser that waits for its answers *)

Agree ==
  /\ \A s \in store : s.id = cookie => s.token = token /\ s.user = user
  /\ user # None => \E s \in store : s.id = cookie

\* What a request that is the only one knows at each of its steps.
Knows(p) ==
  /\ pc[p] = "load" => Agree /\ req[p].came = cookie
  /\ pc[p] \in Kinds =>
       /\ Agree /\ req[p].kind = pc[p]
       /\ \/ Copy(p) \in store /\ Copy(p).id = cookie
          \/ Copy(p) = NoSession /\ \A s \in store : s.id # cookie
  /\ pc[p] = "regenerated" => req[p].kind = "login"
  /\ pc[p] \in {"save", "answer"} =>
       /\ req[p].kind \in {"csrf", "login"}
       /\ Copy(p).user = IF req[p].kind = "login" THEN req[p].who ELSE user
  /\ pc[p] = "answer" => Copy(p) \in store
  /\ pc[p] = "refused" => Agree /\ Copy(p).id \in {0, cookie}
  /\ pc[p] # "thrown_out"

Single == \A s, t \in store : s.id = t.id => s = t
Alone == ~shared => \A p, q \in Procs : pc[p] # "idle" /\ pc[q] # "idle" => p = q
Waits == ~shared => \/ Agree /\ \A p \in Procs : pc[p] = "idle"
                    \/ \E p \in Procs : pc[p] # "idle" /\ Knows(p)

BInv == Single /\ Alone /\ Waits

LEMMA InitBInv == Init => BInv
  BY DEF Init, BInv, Single, Alone, Waits, Agree

\* A step in the middle of a request that is the only one.
LEMMA OneActs ==
  ASSUME BInv, NEW p \in Procs, pc[p] # "idle", Untouched(p), shared' = shared,
         pc'[p] # "idle", ~shared /\ Knows(p) => Knows(p)'
  PROVE  Alone' /\ Waits'
<1>1. Alone'  BY DEF BInv, Alone, Untouched
<1>2. ~shared => Knows(p)  BY DEF BInv, Alone, Waits
<1>3. Waits'  BY <1>2 DEF Waits
<1> QED  BY <1>1, <1>3

LEMMA SingleKept == ASSUME IInv, BInv, NEW p \in Procs, Kind(p) PROVE Single'
  BY DEF BInv, Single, Kind, Keeps, Loads, Ends, Makes, Saves, Destroy

LEMMA SendWaits ==
  ASSUME IInv, BInv, NEW p \in Procs, NEW k \in Kinds, NEW u \in Users \cup {None}, Send(p, k, u)
  PROVE  Alone' /\ Waits'
<1>1. Typed /\ NoSession \in SessionType /\ cookie \in Nat /\ token \in Nat
  BY Nobody DEF IInv, Typed
<1> DEFINE r == Request(k, cookie, token, u, NoSession)
<1>2. r.came = cookie  BY <1>1, RequestParts
<1>3. Step(p, "load", r)  BY DEF Send
<1> HIDE DEF r
<1>4. pc'[p] = "load" /\ req'[p] = r /\ Untouched(p)  BY <1>1, <1>3, StepTaken
<1>5. ~shared' => ~shared /\ \A q \in Procs : pc[q] = "idle"  BY DEF Send
<1>6. ~shared' => Agree'
  <2>1. ~shared' => Agree  BY <1>5 DEF BInv, Waits
  <2> QED  BY <2>1 DEF Send, Agree
<1>7. ~shared' => Knows(p)'  BY <1>2, <1>4, <1>6 DEF Knows, Kinds, Send
<1>8. Alone'  BY <1>4, <1>5 DEF Alone, Untouched
<1>9. Waits'  BY <1>4, <1>7 DEF Waits
<1> QED  BY <1>8, <1>9

LEMMA LoadWaits ==
  ASSUME IInv, BInv, NEW p \in Procs, Load(p)
  PROVE  Alone' /\ Waits'
<1>1. Typed /\ store \subseteq SessionType /\ req[p] \in RequestType  BY DEF IInv, Typed
<1>2. PICK s \in store \cup {NoSession} :
        /\ Step(p, req[p].kind, With(req[p], s))
        /\ \/ s \in store /\ s.id = req[p].came
           \/ s = NoSession /\ \A t \in store : t.id # req[p].came
  BY DEF Load
<1>3. s \in SessionType /\ req[p].kind \in Kinds  BY <1>1, Fields, Nobody
<1>4. With(req[p], s) \in RequestType /\ With(req[p], s).copy = s
        /\ With(req[p], s).kind = req[p].kind
  BY <1>1, <1>3, WithParts
<1>5. pc'[p] = req[p].kind /\ req'[p].copy = s /\ req'[p].kind = req[p].kind /\ Untouched(p)
  BY <1>1, <1>2, <1>4, StepTaken
<1>6. pc[p] = "load" /\ UNCHANGED <<store, cookie, token, user, shared>>  BY DEF Load, browser
<1>7. Agree' <=> Agree  BY <1>6 DEF Agree
<1>8. Knows(p) => Knows(p)'
  BY <1>2, <1>3, <1>5, <1>6, <1>7 DEF Knows, Copy, Kinds
<1>9. pc'[p] # "idle"  BY <1>3, <1>5 DEF Kinds
<1> QED  BY <1>5, <1>6, <1>8, <1>9, OneActs

LEMMA IssueWaits ==
  ASSUME IInv, BInv, NEW p \in Procs, IssueCsrfToken(p)
  PROVE  Alone' /\ Waits'
<1>1. Typed /\ req[p] \in RequestType /\ Copy(p) \in SessionType /\ fresh \in Nat
  BY Fields DEF IInv, Typed, Copy
<1>2. Copy(p).id \in Nat /\ Copy(p).user \in Users \cup {None} /\ Copy(p).token \in Nat
  BY <1>1, Fields
<1>3. pc[p] = "csrf" /\ UNCHANGED <<store, cookie, token, user, shared>>
  BY DEF IssueCsrfToken, browser
<1>4. CASE ~NeedsToken(Copy(p))
  <2>1. Step(p, "answer", req[p])  BY <1>4 DEF IssueCsrfToken, Copy
  <2>2. pc'[p] = "answer" /\ req'[p] = req[p] /\ Untouched(p)  BY <1>1, <2>1, StepTaken
  <2>3. Copy(p) # NoSession  BY <1>4, Nobody DEF NeedsToken
  <2>4. Knows(p) => Knows(p)'  BY <1>3, <2>2, <2>3 DEF Knows, Copy, Kinds, Agree
  <2> QED  BY <1>3, <2>2, <2>4, OneActs
<1>5. CASE NeedsToken(Copy(p))
  <2> DEFINE s == Session(fresh, Copy(p).user, fresh + 1)
  <2>1. Copy(p).id = 0  BY <1>5 DEF NeedsToken, IInv, Used
  <2>2. Step(p, "save", With(req[p], s))  BY <1>5, <2>1 DEF IssueCsrfToken, Copy
  <2>3. s \in SessionType /\ s.user = Copy(p).user  BY <1>1, <1>2, SessionParts
  <2> HIDE DEF s
  <2>4. With(req[p], s) \in RequestType /\ With(req[p], s).copy = s
          /\ With(req[p], s).kind = req[p].kind
    BY <1>1, <2>3, WithParts
  <2>5. pc'[p] = "save" /\ req'[p].copy = s /\ req'[p].kind = req[p].kind /\ Untouched(p)
    BY <1>1, <2>2, <2>4, StepTaken
  <2>6. Copy(p) \notin store  BY <1>5 DEF NeedsToken, IInv, Used
  <2>7. Knows(p) => req[p].kind = "csrf" /\ user = None /\ Copy(p).user = None
    BY <1>3, <2>6, Nobody DEF Knows, Kinds, Agree
  <2>8. Knows(p) => Knows(p)'  BY <1>3, <2>3, <2>5, <2>7 DEF Knows, Copy, Kinds
  <2> QED  BY <1>3, <2>5, <2>8, OneActs
<1> QED  BY <1>4, <1>5

LEMMA LoginWaits ==
  ASSUME IInv, BInv, NEW p \in Procs, Login(p) \/ Logout(p) \/ RequireAuth(p)
  PROVE  Alone' /\ Waits'
<1>1. Typed  BY DEF IInv
<1>2. pc[p] \in Kinds /\ UNCHANGED <<cookie, token, user, shared>>
  BY DEF Login, Logout, RequireAuth, browser, Kinds
<1>3. CASE Step(p, "refused", req[p]) /\ UNCHANGED store
  <2>1. pc'[p] = "refused" /\ req'[p] = req[p] /\ Untouched(p)  BY <1>1, <1>3, StepTaken
  <2>2. Agree' <=> Agree  BY <1>2, <1>3 DEF Agree
  <2>3. Knows(p) => Knows(p)'
    BY <1>2, <2>1, <2>2, Nobody DEF Knows, Copy, Kinds
  <2> QED  BY <1>2, <2>1, <2>3, OneActs DEF Kinds
<1>4. CASE Login(p) /\ Step(p, "regenerated", req[p])
  <2>1. pc[p] = "login" /\ pc'[p] = "regenerated" /\ req'[p] = req[p] /\ Untouched(p)
    BY <1>1, <1>4, StepTaken DEF Login
  <2>2. Knows(p) => Knows(p)'  BY <2>1 DEF Knows, Kinds
  <2> QED  BY <1>2, <2>1, <2>2, OneActs
<1>5. CASE Logout(p) /\ Step(p, "bye", req[p])
  <2>1. pc[p] = "logout" /\ pc'[p] = "bye" /\ req'[p] = req[p] /\ Untouched(p)
    BY <1>1, <1>5, StepTaken DEF Logout
  <2>2. Knows(p) => Knows(p)'  BY <2>1 DEF Knows, Kinds
  <2> QED  BY <1>2, <2>1, <2>2, OneActs
<1>6. CASE RequireAuth(p)
  <2>1. ~(Copy(p).user # None /\ account[Copy(p).user] # "approved")  BY DEF IInv, Trusted, Approved
  <2>2. Step(p, "refused", req[p]) /\ UNCHANGED store  BY <1>6, <2>1 DEF RequireAuth, Refused, Copy
  <2> QED  BY <1>3, <2>2
<1> QED  BY <1>3, <1>4, <1>5, <1>6 DEF Login, Logout, Refused

LEMMA RegeneratedWaits ==
  ASSUME IInv, BInv, NEW p \in Procs, Regenerated(p)
  PROVE  Alone' /\ Waits'
<1>1. Typed /\ req[p] \in RequestType /\ req[p].who \in Users \cup {None} /\ fresh \in Nat
  BY Fields DEF IInv, Typed
<1>2. PICK s : s = Session(fresh, req[p].who, fresh + 1)  OBVIOUS
<1>3. s \in SessionType /\ s.user = req[p].who
  <2>1. PICK u \in Users \cup {None} : u = req[p].who  BY <1>1
  <2>2. PICK t \in Nat : t = fresh + 1  BY <1>1
  <2>3. Session(fresh, u, t) \in SessionType /\ Session(fresh, u, t).user = u
    BY <1>1, SessionParts
  <2> QED  BY <1>2, <2>1, <2>2, <2>3
<1>4. Step(p, "save", With(req[p], s))  BY <1>2 DEF Regenerated
<1>5. /\ With(req[p], s) \in RequestType /\ With(req[p], s).copy = s
      /\ With(req[p], s).kind = req[p].kind /\ With(req[p], s).who = req[p].who
  BY <1>1, <1>3, WithParts
<1>6. /\ pc'[p] = "save" /\ Untouched(p)
      /\ req'[p].copy = s /\ req'[p].kind = req[p].kind /\ req'[p].who = req[p].who
  BY <1>1, <1>4, <1>5, StepTaken
<1>7. pc[p] = "regenerated" /\ UNCHANGED <<user, shared>>  BY DEF Regenerated, browser
<1>8. Knows(p) => Knows(p)'  BY <1>3, <1>6, <1>7 DEF Knows, Copy, Kinds
<1> QED  BY <1>6, <1>7, <1>8, OneActs

LEMMA SaveWaits ==
  ASSUME IInv, BInv, NEW p \in Procs, Save(p)
  PROVE  Alone' /\ Waits'
<1>1. Typed  BY DEF IInv
<1>2. pc[p] = "save" /\ pc'[p] = "answer" /\ req'[p] = req[p] /\ Untouched(p)
  BY <1>1, StepTaken DEF Save
<1>3. Copy(p)' \in store' /\ UNCHANGED <<user, shared>>  BY <1>2 DEF Save, browser, Copy
<1>4. Knows(p) => Knows(p)'  BY <1>2, <1>3 DEF Knows, Copy, Kinds
<1> QED  BY <1>2, <1>3, <1>4, OneActs

LEMMA AnswerWaits ==
  ASSUME IInv, BInv, NEW p \in Procs, Answer(p)
  PROVE  Alone' /\ Waits'
<1>1. Typed  BY DEF IInv
<1>2. pc'[p] = "idle" /\ Untouched(p)  BY <1>1, StepTaken DEF Answer
<1>3. pc[p] # "idle" /\ UNCHANGED <<store, shared>>  BY DEF Answer
<1>4. Alone'  BY <1>2, <1>3 DEF BInv, Alone, Untouched
<1>5. ~shared => Knows(p) /\ \A q \in Procs : pc'[q] = "idle"
  BY <1>2, <1>3 DEF BInv, Alone, Waits, Untouched
<1>6. ~shared => Agree'
  <2> SUFFICES ASSUME ~shared PROVE Agree'  OBVIOUS
  <2>1. CASE pc[p] = "answer"
    <3>1. Copy(p) \in store /\ Copy(p).id # 0  BY <1>5, <2>1 DEF Knows, IInv, Used
    <3>2. cookie' = Copy(p).id /\ token' = Copy(p).token /\ user' = Copy(p).user
      BY <1>5, <2>1, <3>1 DEF Answer, SetCookie, Told, Knows, Copy
    <3> QED  BY <1>3, <3>1, <3>2 DEF Agree, BInv, Single
  <2>2. CASE pc[p] = "refused"
    <3>1. cookie' = cookie /\ token' = token /\ user' = user
      BY <1>5, <2>2 DEF Answer, SetCookie, Knows, Copy
    <3> QED  BY <1>3, <1>5, <2>2, <3>1 DEF Agree, Knows
  <2>3. CASE pc[p] = "bye"
    BY <1>3, <2>3 DEF Answer, Agree, IInv, Used
  <2>4. pc[p] # "thrown_out"  BY <1>5 DEF Knows
  <2> QED  BY <2>1, <2>2, <2>3, <2>4 DEF Answer
<1>7. Waits'  BY <1>3, <1>5, <1>6 DEF Waits
<1> QED  BY <1>4, <1>7

LEMMA AccountsWait ==
  ASSUME BInv, NEW u \in Users, Register(u) \/ UpdateApproval(u)
  PROVE  BInv'
  BY DEF Register, UpdateApproval, browser, BInv, Single, Alone, Waits, Agree, Knows, Copy

LEMMA NextBInv == IInv /\ BInv /\ [Next]_vars => BInv'
<1> SUFFICES ASSUME IInv, BInv, [Next]_vars PROVE BInv'  OBVIOUS
<1>1. ASSUME NEW u \in Users, Register(u) \/ UpdateApproval(u) PROVE BInv'
  BY <1>1, AccountsWait
<1>2. CASE UNCHANGED vars
  BY <1>2 DEF vars, BInv, Single, Alone, Waits, Agree, Knows, Copy
<1>3. ASSUME NEW p \in Procs, NEW k \in Kinds, NEW u \in Users \cup {None}, Send(p, k, u)
      PROVE  BInv'
  <2>1. Kind(p)  BY <1>3, SendKeeps DEF Kind
  <2> QED  BY <1>3, <2>1, SingleKept, SendWaits DEF BInv
<1>4. ASSUME NEW p \in Procs,
             \/ Load(p) \/ IssueCsrfToken(p) \/ Login(p) \/ Regenerated(p) \/ Save(p) \/ Logout(p)
             \/ RequireAuth(p) \/ Answer(p)
      PROVE  BInv'
  <2>1. Kind(p)
    BY <1>4, LoadKinds, IssueKinds, LoginKinds, RegeneratedMakes, SaveSaves, LogoutKinds,
       RequireAuthKeeps, AnswerKeeps DEF Kind
  <2>2. Alone' /\ Waits'
    BY <1>4, LoadWaits, IssueWaits, LoginWaits, RegeneratedWaits, SaveWaits, AnswerWaits
  <2> QED  BY <2>1, <2>2, SingleKept DEF BInv
<1>5. {"csrf", "logout", "get"} \subseteq Kinds /\ "login" \in Kinds  BY DEF Kinds
<1> QED  BY <1>1, <1>2, <1>3, <1>4, <1>5 DEF Next

\* A browser whose requests never overlap stays who it is until it logs out, and its page has the
\* token its session expects (auth.controller.ts, login; csrf.guard.ts; session.ts, rolling).
THEOREM StaysLoggedIn == Spec => []StillLoggedIn
<1>1. BInv => StillLoggedIn  BY DEF BInv, Waits, Agree, StillLoggedIn
<1> QED  BY <1>1, InitBInv, NextBInv, InvariantIInv, PTL DEF Spec

-----------------------------------------------------------------------------
(* Profiles *)

CallSteps == {"idle", "upsert", "insert", "update", "answer"}
RowValues == Availabilities \cup {"offline"}

ProfilesTyped ==
  /\ rows \in Seq(RowValues)
  /\ index \in {"building", "ready", "failed"} /\ listens \in BOOLEAN
  /\ call \in [Workers -> CallSteps] /\ wish \in [Workers -> Availabilities \cup {"ensure"}]

\* Nothing is asked before a server listens, and none listens while the index is built.
NotYet ==
  /\ index = "building" => ~listens
  /\ ~listens => rows = <<>> /\ Profile!Quiet

\* Of one agent's own requests only one is under way; answered, it has written the row.
Setter ==
  /\ \A p, q \in Profile!Setting : p = q
  /\ \A p \in Workers : call[p] = "update" => rows # <<>> /\ wish[p] # "ensure"
  /\ index # "failed" => \A p \in Profile!Setting : call[p] = "answer" => rows = <<wish[p]>>

PInv == ProfilesTyped /\ NotYet /\ Profile!OneProfile /\ Setter /\ Profile!ChoiceKept

-----------------------------------------------------------------------------

\* An update of a row keeps their number.
LEMMA UpdatedRows ==
  ASSUME NEW c \in RowValues \cup {"ensure"}, rows \in Seq(RowValues), rows # <<>>
  PROVE  /\ Profile!Updated(c) \in Seq(RowValues) /\ Len(Profile!Updated(c)) = Len(rows)
         /\ c = "ensure" => Profile!Updated(c) = rows
         /\ c # "ensure" /\ Len(rows) <= 1 => Profile!Updated(c) = <<c>>
<1>1. CASE c = "ensure"
  BY <1>1 DEF Profile!Updated
<1>2. CASE c # "ensure"
  <2>1. c \in RowValues /\ 1 \in 1..Len(rows)  BY <1>2, EmptySeq
  <2> DEFINE new == [rows EXCEPT ![1] = c]
  <2>2. new \in Seq(RowValues) /\ Len(new) = Len(rows) /\ new[1] = c  BY <2>1, ExceptSeq
  <2>3. Profile!Updated(c) = new  BY <1>2 DEF Profile!Updated, Profile!ReplaceAt
  <2> HIDE DEF new
  <2>4. ASSUME Len(rows) <= 1 PROVE new = <<c>>
    <3>1. Len(new) = 1  BY <2>1, <2>2, <2>4
    <3>2. <<c>> \in Seq(RowValues) /\ Len(<<c>>) = 1 /\ <<c>>[1] = c  BY <2>1
    <3> QED  BY <2>2, <3>1, <3>2, SeqEqual
  <2> QED  BY <1>2, <2>2, <2>3, <2>4
<1> QED  BY <1>1, <1>2

LEMMA InitPInv == Profile!Init => PInv
<1> SUFFICES ASSUME Profile!Init PROVE PInv  OBVIOUS
<1>1. rows = <<>> /\ index = "building" /\ listens = FALSE /\ chosen = "none"  BY DEF Profile!Init
<1>2. call \in [Workers -> CallSteps] /\ wish \in [Workers -> Availabilities \cup {"ensure"}]
  BY DEF Profile!Init, CallSteps, Profile!NoJob
<1>3. ProfilesTyped
  <2>1. rows \in Seq(RowValues)  BY <1>1, EmptySeq
  <2>2. listens \in BOOLEAN  BY <1>1, Zenon
  <2> QED  BY <1>1, <1>2, <2>1, <2>2 DEF ProfilesTyped
<1>4. \A p \in Workers : call[p] = "idle"  BY DEF Profile!Init
<1>5. NotYet /\ Setter  BY <1>1, <1>4 DEF NotYet, Setter, Profile!Quiet, Profile!Setting
<1>6. Profile!OneProfile /\ Profile!ChoiceKept  BY <1>1 DEF Profile!OneProfile, Profile!ChoiceKept
<1> QED  BY <1>3, <1>5, <1>6 DEF PInv

\* The start of a server.
LEMMA BootKeeps ==
  ASSUME PInv, Profile!BuildIndex \/ Profile!BuildFails \/ Profile!Listen
  PROVE  PInv'
<1> USE DEF PInv, Profile!BuildIndex, Profile!BuildFails, Profile!Listen
<1>1. ProfilesTyped'  BY DEF ProfilesTyped
<1>2. NotYet'  BY DEF NotYet, Profile!Quiet
<1>3. rows' = rows /\ call' = call /\ wish' = wish /\ chosen' = chosen
        /\ (index # "building" => index' = index)
  OBVIOUS
<1>4. index = "building" => rows = <<>> /\ Profile!Quiet  BY DEF NotYet
<1>5. Profile!OneProfile'  BY <1>3, <1>4 DEF Profile!OneProfile
<1>6. Setter'  BY <1>3, <1>4 DEF Setter, Profile!Setting, Profile!Quiet
<1>7. index' # "failed" => index # "failed"  BY <1>3
<1>8. Profile!Setting' = Profile!Setting  BY <1>3 DEF Profile!Setting
<1>9. Profile!ChoiceKept'  BY <1>3, <1>7, <1>8 DEF Profile!ChoiceKept
<1> QED  BY <1>1, <1>2, <1>5, <1>6, <1>9

\* A step of a request.
CallGoes(p, step) ==
  /\ call'[p] = step /\ \A q \in Workers : q # p => call'[q] = call[q]
  /\ call' \in [Workers -> CallSteps]

LEMMA GotoGoes ==
  ASSUME ProfilesTyped, NEW p \in Workers, NEW step \in CallSteps, Profile!Goto(p, step)
  PROVE  CallGoes(p, step)
  BY DEF ProfilesTyped, Profile!Goto, CallGoes

LEMMA SetAvailabilityKeeps ==
  ASSUME PInv, NEW p \in Workers, NEW c \in Availabilities, Profile!SetAvailability(p, c)
  PROVE  PInv'
<1> USE DEF PInv, Profile!boot
<1>1. CallGoes(p, "upsert")  BY GotoGoes DEF Profile!SetAvailability, CallSteps
<1>2. /\ wish'[p] = c /\ \A q \in Workers : q # p => wish'[q] = wish[q]
      /\ wish' \in [Workers -> Availabilities \cup {"ensure"}]
  BY DEF Profile!SetAvailability, ProfilesTyped
<1>3. rows' = rows /\ index' = index /\ listens' = listens /\ chosen' = chosen /\ listens
        /\ Profile!Setting = {}
  BY DEF Profile!SetAvailability
<1>4. Profile!Setting' \subseteq {p} /\ (c # "ensure" => p \in Profile!Setting')
  BY <1>1, <1>2, <1>3 DEF Profile!Setting, CallGoes
<1>5. ProfilesTyped' /\ NotYet' /\ Profile!OneProfile'
  BY <1>1, <1>2, <1>3 DEF CallGoes, ProfilesTyped, NotYet, Profile!OneProfile
<1>6. Setter'
  <2>1. \A q \in Workers : call'[q] = "update" => rows' # <<>> /\ wish'[q] # "ensure"
    BY <1>1, <1>2, <1>3 DEF Setter, CallGoes
  <2> QED  BY <1>1, <1>4, <2>1 DEF Setter, CallGoes
<1>7. Profile!ChoiceKept'  BY <1>3 DEF Profile!ChoiceKept
<1> QED  BY <1>5, <1>6, <1>7

LEMMA EnsureKeeps ==
  ASSUME PInv, NEW p \in Workers, Profile!EnsureProfiles(p)
  PROVE  PInv'
<1> USE DEF PInv, Profile!boot
<1>1. CallGoes(p, "upsert") /\ call[p] = "idle"  BY GotoGoes DEF Profile!EnsureProfiles, CallSteps
<1>2. /\ wish'[p] = "ensure" /\ \A q \in Workers : q # p => wish'[q] = wish[q]
      /\ wish' \in [Workers -> Availabilities \cup {"ensure"}]
  BY DEF Profile!EnsureProfiles, ProfilesTyped
<1>3. rows' = rows /\ index' = index /\ listens' = listens /\ chosen' = chosen /\ listens
  BY DEF Profile!EnsureProfiles
<1>4. Profile!Setting' = Profile!Setting /\ p \notin Profile!Setting
  BY <1>1, <1>2 DEF Profile!Setting, CallGoes
<1>5. ProfilesTyped' /\ NotYet' /\ Profile!OneProfile'
  BY <1>1, <1>2, <1>3 DEF CallGoes, ProfilesTyped, NotYet, Profile!OneProfile
<1>6. Setter'  BY <1>1, <1>2, <1>3, <1>4 DEF Setter, CallGoes, Profile!Setting
<1>7. Profile!ChoiceKept'  BY <1>3, <1>4 DEF Profile!ChoiceKept
<1> QED  BY <1>5, <1>6, <1>7

LEMMA Listening ==
  ASSUME PInv, NEW p \in Workers, call[p] # "idle"
  PROVE  listens /\ index # "building"
  BY DEF PInv, NotYet, Profile!Quiet

\* A step in the middle of a request: it writes nothing, or its own choice, or the first row.
LEMMA MiddleKeeps ==
  ASSUME PInv, NEW p \in Workers, call[p] # "idle", NEW step \in CallSteps \ {"idle"}, CallGoes(p,
         step),
         UNCHANGED <<index, listens, wish, chosen>>,
         rows' \in Seq(RowValues), index # "failed" => Len(rows') <= 1,
         rows # <<>> => rows' # <<>>, step = "update" => rows' # <<>> /\ wish[p] # "ensure",
         index # "failed" /\ wish[p] # "ensure" /\ step = "answer" => rows' = <<wish[p]>>,
         wish[p] = "ensure" /\ rows # <<>> /\ index # "failed" => rows' = rows
  PROVE  PInv'
<1> USE DEF PInv
<1>1. listens /\ index # "building"  BY Listening
<1>2. Profile!Setting' = Profile!Setting  BY DEF Profile!Setting, CallGoes
<1>3. ProfilesTyped' /\ NotYet' /\ Profile!OneProfile'
  BY <1>1 DEF ProfilesTyped, NotYet, Profile!OneProfile, CallGoes
<1>4. ASSUME index # "failed", NEW q \in Profile!Setting, call'[q] = "answer"
      PROVE  rows' = <<wish'[q]>>
  <2>1. CASE q = p
    BY <1>4, <2>1 DEF CallGoes, Profile!Setting
  <2>2. CASE q # p
    <3>1. wish[p] = "ensure"  BY <1>4, <2>2 DEF Setter, Profile!Setting
    <3>2. q \in Workers /\ call'[q] = call[q] /\ wish'[q] = wish[q]
      BY <2>2 DEF CallGoes, Profile!Setting
    <3>3. rows = <<wish[q]>>  BY <1>4, <3>2 DEF Setter
    <3> QED  BY <1>4, <3>1, <3>2, <3>3
  <2> QED  BY <2>1, <2>2
<1>5. Setter'
  <2>1. \A q \in Workers : call'[q] = "update" => rows' # <<>> /\ wish'[q] # "ensure"
    BY DEF CallGoes, Setter
  <2> QED  BY <1>2, <1>4, <2>1 DEF Setter
<1>6. Profile!ChoiceKept'
  <2> SUFFICES ASSUME index # "failed", chosen # "none", Profile!Setting = {}
               PROVE  rows' = <<chosen>>
    BY <1>2 DEF Profile!ChoiceKept
  <2>1. wish[p] = "ensure" /\ rows = <<chosen>>  BY DEF Profile!ChoiceKept, Profile!Setting
  <2> QED  BY <2>1
<1> QED  BY <1>3, <1>5, <1>6

LEMMA UpsertKeeps ==
  ASSUME PInv, NEW p \in Workers, Profile!Upsert(p) \/ Profile!Update(p)
  PROVE  PInv'
<1> USE DEF PInv
<1>1. /\ rows \in Seq(RowValues) /\ wish[p] \in RowValues \cup {"ensure"} /\ call[p] # "idle"
      /\ UNCHANGED <<index, listens, wish, chosen>>
  BY DEF ProfilesTyped, RowValues, Profile!Upsert, Profile!Update, Profile!Unchanged, Profile!boot
<1>2. index # "failed" => Len(rows) <= 1  BY DEF Profile!OneProfile
<1>3. CASE rows # <<>> /\ rows' = Profile!Updated(wish[p]) /\ Profile!Goto(p, "answer")
  <2>1. CallGoes(p, "answer")  BY <1>3, GotoGoes DEF CallSteps
  <2>2. /\ rows' \in Seq(RowValues) /\ Len(rows') = Len(rows)
        /\ wish[p] = "ensure" => rows' = rows
        /\ wish[p] # "ensure" /\ Len(rows) <= 1 => rows' = <<wish[p]>>
    BY <1>1, <1>3, UpdatedRows
  <2>3. "answer" \in CallSteps \ {"idle"}  BY DEF CallSteps
  <2> QED  BY <1>1, <1>2, <2>1, <2>2, <2>3, MiddleKeeps
<1>4. CASE rows = <<>> /\ UNCHANGED rows /\ Profile!Goto(p, "insert")
  <2>1. CallGoes(p, "insert") /\ "insert" \in CallSteps \ {"idle"}  BY <1>4, GotoGoes DEF CallSteps
  <2> QED  BY <1>1, <1>2, <1>4, <2>1, MiddleKeeps
<1>5. CASE Profile!Update(p)
  <2>1. rows # <<>>  BY <1>5 DEF Setter, Profile!Update
  <2> QED  BY <1>3, <1>5, <2>1 DEF Profile!Update
<1> QED  BY <1>3, <1>4, <1>5 DEF Profile!Upsert

\* With the index, an insert is refused as soon as there is a row.
LEMMA InsertKeeps == ASSUME PInv, NEW p \in Workers, Profile!Insert(p) PROVE PInv'
<1> USE DEF PInv
<1>1. /\ rows \in Seq(RowValues) /\ wish[p] \in RowValues \cup {"ensure"} /\ call[p] # "idle"
      /\ UNCHANGED <<index, listens, wish, chosen>>
  BY DEF ProfilesTyped, RowValues, Profile!Insert, Profile!Unchanged, Profile!boot
<1>2. index # "failed" => index = "ready" /\ Len(rows) <= 1
  BY <1>1, Listening DEF Profile!OneProfile, ProfilesTyped
<1>3. {"answer", "update"} \subseteq CallSteps \ {"idle"}  BY DEF CallSteps
<1>4. CASE index = "ready" /\ rows # <<>>
  <2>1. rows' = rows /\ Profile!Goto(p, Profile!AfterDuplicate(wish[p]))  BY <1>4 DEF Profile!Insert
  <2>2. Profile!AfterDuplicate(wish[p]) = IF wish[p] = "ensure" THEN "answer" ELSE "update"
    BY DEF Profile!AfterDuplicate
  <2> DEFINE step == Profile!AfterDuplicate(wish[p])
  <2>3. step \in CallSteps \ {"idle"} /\ CallGoes(p, step)  BY <1>3, <2>1, <2>2, GotoGoes
  <2> HIDE DEF step
  <2>4. (step = "update" => wish[p] # "ensure") /\ (step = "answer" => wish[p] = "ensure")
    BY <2>2 DEF step
  <2> QED  BY <1>1, <1>2, <1>4, <2>1, <2>3, <2>4, MiddleKeeps
<1>5. CASE ~(index = "ready" /\ rows # <<>>)
  <2> DEFINE c == IF wish[p] = "ensure" THEN "offline" ELSE wish[p]
  <2>1. rows' = Append(rows, c) /\ Profile!Goto(p, "answer")  BY <1>5 DEF Profile!Insert
  <2>2. c \in RowValues /\ (wish[p] # "ensure" => c = wish[p])  BY <1>1 DEF RowValues
  <2> HIDE DEF c
  <2>3. CallGoes(p, "answer")  BY <1>3, <2>1, GotoGoes
  <2>4. rows' \in Seq(RowValues) /\ rows' # <<>> /\ (rows = <<>> => rows' = <<c>> /\ Len(rows') = 1)
    <3>1. Append(rows, c) \in Seq(RowValues) /\ Append(rows, c) # <<>>
      BY <1>1, <2>2, AppendProperties
    <3>2. Append(<<>>, c) = <<c>> /\ Len(<<c>>) = 1  OBVIOUS
    <3> QED  BY <2>1, <3>1, <3>2
  <2>5. "answer" \in CallSteps \ {"idle"}  BY <1>3
  <2>6. index # "failed" => rows = <<>> /\ Len(rows') <= 1 /\ rows' = <<c>>
    <3>1. index # "failed" => rows = <<>>  BY <1>2, <1>5, Zenon
    <3>2. rows = <<>> => rows' = <<c>> /\ Len(rows') = 1  BY <2>4
    <3>3. \A n : n = 1 => n <= 1  OBVIOUS
    <3> QED  BY <3>1, <3>2, <3>3, Zenon
  <2>7. index # "failed" /\ wish[p] # "ensure" => rows' = <<wish[p]>>  BY <2>2, <2>6
  <2> QED  BY <1>1, <2>3, <2>4, <2>5, <2>6, <2>7, MiddleKeeps
<1> QED  BY <1>4, <1>5

LEMMA AnsweredCall == ASSUME PInv, NEW p \in Workers, Profile!Answer(p) PROVE PInv'
<1> USE DEF PInv, Profile!boot
<1>1. CallGoes(p, "idle") /\ call[p] = "answer"  BY GotoGoes DEF Profile!Answer, CallSteps
<1>2. /\ wish'[p] = "ensure" /\ \A q \in Workers : q # p => wish'[q] = wish[q]
      /\ wish' \in [Workers -> Availabilities \cup {"ensure"}]
  BY DEF Profile!Answer, ProfilesTyped, Profile!NoJob
<1>3. rows' = rows /\ index' = index /\ listens' = listens  BY DEF Profile!Answer
<1>4. Profile!Setting' = Profile!Setting \ {p}  BY <1>1, <1>2 DEF Profile!Setting, CallGoes
<1>5. ProfilesTyped' /\ NotYet' /\ Profile!OneProfile'
  <2>1. listens  BY <1>1, Listening
  <2> QED  BY <1>1, <1>2, <1>3, <2>1 DEF CallGoes, ProfilesTyped, NotYet, Profile!OneProfile
<1>6. Setter'
  <2>1. \A q \in Workers : call'[q] = "update" => rows' # <<>> /\ wish'[q] # "ensure"
    BY <1>1, <1>2, <1>3 DEF CallGoes, Setter
  <2>2. \A q \in Profile!Setting' : call'[q] = call[q] /\ wish'[q] = wish[q]
    BY <1>1, <1>2, <1>4 DEF CallGoes, Profile!Setting
  <2> QED  BY <1>3, <1>4, <2>1, <2>2 DEF Setter
<1>7. Profile!ChoiceKept'
  <2> SUFFICES ASSUME index # "failed", chosen' # "none", Profile!Setting \ {p} = {}
               PROVE  rows = <<chosen'>>
    BY <1>3, <1>4 DEF Profile!ChoiceKept
  <2>1. CASE wish[p] = "ensure"
    BY <1>1, <2>1 DEF Profile!Answer, Profile!ChoiceKept, Profile!Setting
  <2>2. CASE wish[p] # "ensure"
    BY <1>1, <2>2 DEF Profile!Answer, Setter, Profile!Setting
  <2> QED  BY <2>1, <2>2
<1> QED  BY <1>5, <1>6, <1>7

LEMMA NextPInv == PInv /\ [Profile!Next]_(Profile!vars) => PInv'
<1> SUFFICES ASSUME PInv, [Profile!Next]_(Profile!vars) PROVE PInv'  OBVIOUS
<1>1. CASE UNCHANGED Profile!vars
  BY <1>1 DEF Profile!vars, PInv, ProfilesTyped, NotYet, Profile!OneProfile, Setter,
         Profile!ChoiceKept, Profile!Setting, Profile!Quiet
<1> QED
  BY <1>1, BootKeeps, SetAvailabilityKeeps, EnsureKeeps, UpsertKeeps, InsertKeeps, AnsweredCall
  DEF Profile!Next

LEMMA InvariantPInv == Profile!Spec => []PInv
  BY InitPInv, NextPInv, PTL DEF Profile!Spec

\* An agent has one profile, unless the build of the unique index has failed: no server listens
\* before it is there, and a second insert is refused after that (main.ts, agents.service.ts).
THEOREM OneProfileEach == Profile!Spec => []OneProfile
<1>1. PInv => OneProfile  BY DEF PInv, OneProfile
<1> QED  BY <1>1, InvariantPInv, PTL

\* What an agent was answered last is what the profile says, although others create it at the same
\* time (agents.service.ts, setAvailability: the duplicate is followed by an update).
THEOREM ChoiceStays == Profile!Spec => []ChoiceKept
<1>1. PInv => ChoiceKept  BY DEF PInv, ChoiceKept
<1> QED  BY <1>1, InvariantPInv, PTL

-----------------------------------------------------------------------------
(* Rooms: one thread *)

\* An instance has a Cardinality of its own; it counts the same.
LEMMA SocketsCount == \A S : Sockets!Cardinality(S) = Cardinality(S)
BY DEF Sockets!Cardinality, Cardinality

\* A thread is made while there is none, and a tab enters no room but the thread's.
ThreadKept ==
  /\ thread = {} \/ \E c \in Own : thread = {c}
  /\ DOMAIN rooms = Sockets!Sockets
  /\ \A s \in Tabs : rooms[s] \subseteq thread

LEMMA InitOneThread == Sockets!Init => ThreadKept
BY DEF Sockets!Init, ThreadKept, Sockets!Sockets

\* A socket that enters a conversation, or leaves some.
LEMMA EnterKeeps ==
  ASSUME ThreadKept, NEW s \in Sockets!Sockets, NEW c, Sockets!Enter(s, c),
         s \in Tabs => c \in thread,
         thread' = thread
  PROVE  ThreadKept'
BY DEF ThreadKept, Sockets!Enter, Sockets!Sockets

LEMMA LeaveKeeps ==
  ASSUME ThreadKept, NEW s \in Sockets!Sockets, NEW kept \in SUBSET rooms[s],
         rooms' = [rooms EXCEPT ![s] = kept], thread' = thread
  PROVE  ThreadKept'
BY DEF ThreadKept, Sockets!Sockets

LEMMA StepOneThread == ASSUME ThreadKept, [Sockets!Next]_(Sockets!vars) PROVE ThreadKept'
<1>1. CASE UNCHANGED <<thread, rooms>>
  BY <1>1 DEF ThreadKept
<1>2. CASE UNCHANGED Sockets!vars
  BY <1>1, <1>2 DEF Sockets!vars
<1>3. ASSUME NEW s \in Sockets!Sockets, NEW i \in DOMAIN open[s], Sockets!Join(s,
             i) \/ Sockets!JoinFails(s, i)
      PROVE  ThreadKept'
  BY <1>1, <1>3 DEF Sockets!Join, Sockets!JoinFails
<1>4. ASSUME NEW s \in Sockets!Sockets, NEW i \in DOMAIN open[s], Sockets!Leave(s, i)
      PROVE  ThreadKept'
  <2>1. Sockets!Left(s, open[s][i].conv) \in SUBSET rooms[s]  BY DEF Sockets!Left
  <2> QED  BY <1>4, <2>1, LeaveKeeps DEF Sockets!Leave
<1>5. ASSUME NEW s \in Sockets!Sockets, NEW i \in DOMAIN open[s], Sockets!Joined(s, i)
      PROVE  ThreadKept'
  <2> DEFINE c == open[s][i].conv
  <2>1. thread' = thread  BY <1>5 DEF Sockets!Joined
  <2>2. CASE Sockets!MayOpen(s, c)
    <3>1. Sockets!Enter(s, c)  BY <1>5, <2>2 DEF Sockets!Joined
    <3>2. s \in Tabs => c \in thread
      BY <2>2, Sockets!RoomsAssumption DEF Sockets!MayOpen, Sockets!RoomsAssumption
    <3> QED  BY <1>5, <2>1, <3>1, <3>2, EnterKeeps
  <2>3. CASE ~Sockets!MayOpen(s, c)
    <3>1. rooms' = rooms  BY <1>5, <2>3 DEF Sockets!Joined
    <3> QED  BY <1>1, <2>1, <3>1
  <2> QED  BY <2>2, <2>3
<1>6. ASSUME NEW s \in Sockets!Sockets,
             Sockets!Find(s) \/ Sockets!FindAgain(s) \/ Sockets!SetupFails(s)
      PROVE  ThreadKept'
  BY <1>1, <1>6 DEF Sockets!Find, Sockets!FindAgain, Sockets!SetupFails
<1>7. ASSUME NEW s \in Sockets!Sockets, Sockets!Create(s) PROVE ThreadKept'
  <2>1. CASE Sockets!Taken
    BY <1>1, <1>7, <2>1 DEF Sockets!Create
  <2>2. CASE ~Sockets!Taken
    <3>1. thread = {} /\ rooms' = rooms  BY <1>7, <2>2 DEF Sockets!Create, Sockets!Taken
    <3>2. \E c \in Own : thread' = {c}  BY <1>7, <2>2, <3>1 DEF Sockets!Create
    <3>3. \A t \in Tabs : rooms[t] \subseteq thread'  BY <3>1 DEF ThreadKept
    <3> QED  BY <3>1, <3>2, <3>3 DEF ThreadKept
  <2> QED  BY <2>1, <2>2
<1>8. ASSUME NEW s \in Sockets!Sockets, Sockets!EnterOwn(s) PROVE ThreadKept'
  <2>1. PICK c \in thread : Sockets!Enter(s, c)  BY <1>8 DEF Sockets!EnterOwn
  <2> QED  BY <1>8, <2>1, EnterKeeps DEF Sockets!EnterOwn
<1>9. ASSUME NEW s \in Sockets!Sockets, Sockets!Disconnect(s) PROVE ThreadKept'
  BY <1>9, LeaveKeeps DEF Sockets!Disconnect
<1>10. ASSUME NEW s \in Sockets!Sockets, NEW c \in Sockets!Convs, NEW kind, Sockets!Ask(s, kind, c)
       PROVE  ThreadKept'
  BY <1>1, <1>10 DEF Sockets!Ask
<1> QED  BY <1>2, <1>3, <1>4, <1>5, <1>6, <1>7, <1>8, <1>9, <1>10, Zenon DEF Sockets!Next

\* A customer has one thread, whatever tabs connect at once: whoever finds one, or loses the race
\* for the index, takes that one, and enterConversation is given nothing else.
THEOREM OneThreadKept == Sockets!Spec => []OneThread
<1>1. Sockets!Init => ThreadKept  BY InitOneThread
<1>2. ThreadKept /\ [Sockets!Next]_(Sockets!vars) => ThreadKept'  BY StepOneThread
<1>3. ThreadKept => OneThread
  BY FS_EmptySet, FS_Singleton, SocketsCount DEF ThreadKept, OneThread, Sockets!OneThread
<1> QED  BY <1>1, <1>2, <1>3, PTL DEF Sockets!Spec

-----------------------------------------------------------------------------
(* Rooms: a client that waits for the answer to a command before it gives another *)

\* The command in flight is the last one the client gave, and a join that reads the database is
\* past `ready`.
Commanded(s) ==
  \E kind \in {"join", "leave"}, c \in Sockets!Convs, at \in {"ready", "read"} :
    /\ open[s] = <<Sockets!Command(kind, c, at)>>
    /\ up[s] => asked[s][c] = kind
    /\ at = "read" => kind = "join" /\ setup[s] = "done"

\* Nothing is answered before `ready`; after that the rooms are the ones asked for.
Placed(s, c) ==
  IF setup[s] = "done"
  THEN (asked[s][c] = "leave" => c \notin rooms[s]) /\ (asked[s][c] = "join" => c \in rooms[s])
  ELSE asked[s][c] = "nothing"

SocketFollows(s) ==
  /\ open[s] = <<>> \/ Commanded(s)
  /\ DOMAIN asked[s] = Sockets!Convs
  /\ up[s] => \A c \in Sockets!Convs : (\A i \in DOMAIN open[s] :
         open[s][i].conv # c) => Placed(s, c)

SocketDomains ==
  DOMAIN rooms = Sockets!Sockets /\ DOMAIN open = Sockets!Sockets
    /\ DOMAIN asked = Sockets!Sockets /\ DOMAIN setup = Sockets!Sockets
  /\ DOMAIN up = Sockets!Sockets

RoomsFollow == SocketDomains /\ \A s \in Sockets!Sockets : SocketFollows(s)

LEMMA InitFollow == Sockets!Init => RoomsFollow
BY DEF Sockets!Init, RoomsFollow, SocketDomains, SocketFollows, Placed

\* A step of one socket is none of another.
Aside(s) ==
  \A t \in Sockets!Sockets \ {s} :
    /\ rooms'[t] = rooms[t] /\ open'[t] = open[t] /\ asked'[t] = asked[t]
    /\ setup'[t] = setup[t] /\ up'[t] = up[t]

LEMMA OneFollows ==
  ASSUME RoomsFollow, NEW s \in Sockets!Sockets, Aside(s), SocketDomains', SocketFollows(s)'
  PROVE  RoomsFollow'
<1>1. ASSUME NEW t \in Sockets!Sockets, t # s PROVE SocketFollows(t)'
  BY <1>1 DEF RoomsFollow, Aside, SocketFollows, Commanded, Placed
<1> QED  BY <1>1 DEF RoomsFollow

\* The only command in flight, and none once it is answered.
LEMMA OneCommand ==
  ASSUME NEW cmd, NEW i \in DOMAIN <<cmd>>
  PROVE  i = 1 /\ <<cmd>>[i] = cmd /\ Sockets!RemoveAt(<<cmd>>, i) = <<>>
<1>1. i = 1 /\ <<cmd>>[i] = cmd  OBVIOUS
<1>2. Sockets!RemoveAt(<<cmd>>, 1) = SubSeq(<<cmd>>, 1, 0) \o SubSeq(<<cmd>>, 2, 1)
  BY DEF Sockets!RemoveAt
<1>3. SubSeq(<<cmd>>, 1, 0) = <<>> /\ SubSeq(<<cmd>>, 2, 1) = <<>>
  OBVIOUS
<1>4. <<>> \o <<>> = <<>>  OBVIOUS
<1> QED  BY <1>1, <1>2, <1>3, <1>4

\* A command is answered: what it was about is placed, the rest is where it was.
LEMMA AnswerFollows ==
  ASSUME RoomsFollow, NEW s \in Sockets!Sockets, NEW i \in DOMAIN open[s], NEW c \in Sockets!Convs,
         c = open[s][i].conv, open' = [open EXCEPT ![s] = Sockets!RemoveAt(@, i)], setup' = setup,
             up' = up,
         Aside(s), SocketDomains', DOMAIN asked'[s] = Sockets!Convs,
         \A d \in Sockets!Convs \ {c} : asked'[s][d] = asked[s][d]
           /\ (d \in rooms'[s] <=> d \in rooms[s]),
         up[s] => Placed(s, c)'
  PROVE  RoomsFollow'
<1>1. PICK cmd : open[s] = <<cmd>>
  BY DEF RoomsFollow, SocketFollows, Commanded
<1>2. open'[s] = <<>> /\ cmd.conv = c
  BY <1>1, OneCommand DEF RoomsFollow, SocketDomains
<1>3. ASSUME up'[s], NEW d \in Sockets!Convs PROVE Placed(s, d)'
  <2>1. CASE d = c  BY <1>3, <2>1
  <2>2. CASE d # c
    <3>1. \A j \in DOMAIN open[s] : open[s][j].conv # d  BY <1>1, <1>2, <2>2, OneCommand
    <3>2. Placed(s, d)  BY <1>3, <3>1 DEF RoomsFollow, SocketFollows
    <3> QED  BY <2>2, <3>2 DEF Placed
  <2> QED  BY <2>1, <2>2
<1>4. SocketFollows(s)'  BY <1>2, <1>3 DEF SocketFollows
<1> QED  BY <1>4, OneFollows

LEMMA InFlight ==
  ASSUME RoomsFollow, NEW s \in Sockets!Sockets, NEW i \in DOMAIN open[s]
  PROVE  /\ i = 1 /\ open[s] = <<open[s][i]>>
         /\ open[s][i] = Sockets!Command(open[s][i].kind, open[s][i].conv, open[s][i].at)
         /\ open[s][i].conv \in Sockets!Convs /\ open[s][i].kind \in {"join", "leave"}
              /\ open[s][i].at \in {"ready", "read"}
         /\ up[s] => asked[s][open[s][i].conv] = open[s][i].kind
         /\ open[s][i].at = "read" => open[s][i].kind = "join" /\ setup[s] = "done"
<1>1. PICK kind \in {"join", "leave"}, c \in Sockets!Convs, at \in {"ready", "read"} :
        /\ open[s] = <<Sockets!Command(kind, c, at)>>
        /\ up[s] => asked[s][c] = kind
        /\ at = "read" => kind = "join" /\ setup[s] = "done"
  BY DEF RoomsFollow, SocketFollows, Commanded
<1>2. i = 1 /\ open[s][i] = Sockets!Command(kind, c, at)  BY <1>1
<1> QED  BY <1>1, <1>2 DEF Sockets!Command

LEMMA RefusedFacts ==
  ASSUME RoomsFollow, NEW s \in Sockets!Sockets, NEW c \in Sockets!Convs, Sockets!Refused(s, c),
         asked[s][c] = "join"
  PROVE  /\ DOMAIN asked' = Sockets!Sockets /\ DOMAIN asked'[s] = Sockets!Convs
              /\ asked'[s][c] = "nothing"
         /\ \A d \in Sockets!Convs \ {c} : asked'[s][d] = asked[s][d]
         /\ \A t \in Sockets!Sockets \ {s} : asked'[t] = asked[t]
BY DEF Sockets!Refused, RoomsFollow, SocketDomains, SocketFollows

\* A step that takes an answer back or gives it.
LEMMA AnswersFollow ==
  ASSUME RoomsFollow, NEW s \in Sockets!Sockets, NEW i \in DOMAIN open[s],
         \/ Sockets!Join(s, i) /\ Sockets!Full(s, open[s][i].conv)
         \/ Sockets!Joined(s, i) \/ Sockets!JoinFails(s, i) \/ Sockets!Leave(s, i)
  PROVE  RoomsFollow'
<1>1. SocketDomains /\ DOMAIN asked[s] = Sockets!Convs  BY DEF RoomsFollow, SocketFollows
<1>2. PICK c \in Sockets!Convs : c = open[s][i].conv  BY InFlight
<1>3. CASE Sockets!Leave(s, i)
  <2>1. /\ rooms' = [rooms EXCEPT ![s] = rooms[s] \ {c}]
        /\ open' = [open EXCEPT ![s] = Sockets!RemoveAt(@, i)]
        /\ setup' = setup /\ up' = up /\ asked' = asked
        /\ setup[s] = "done" /\ open[s][i].kind = "leave"
    BY <1>2, <1>3 DEF Sockets!Leave, Sockets!Left, Sockets!Starts
  <2>2. up[s] => asked[s][c] = "leave"  BY <1>2, <2>1, InFlight
  <2>3. up[s] => Placed(s, c)'  BY <1>1, <2>1, <2>2 DEF Placed, SocketDomains
  <2>4. Aside(s) /\ SocketDomains'  BY <1>1, <2>1 DEF SocketDomains, Aside
  <2>5. \A d \in Sockets!Convs \ {c} : d \in rooms'[s] <=> d \in rooms[s]
    BY <1>1, <2>1 DEF SocketDomains
  <2> QED  BY <1>1, <1>2, <2>1, <2>3, <2>4, <2>5, AnswerFollows
<1>4. CASE Sockets!Joined(s, i) /\ Sockets!MayOpen(s, c)
  <2>1. /\ rooms' = [rooms EXCEPT ![s] = IF up[s] THEN @ \cup {c} ELSE @]
        /\ open' = [open EXCEPT ![s] = Sockets!RemoveAt(@, i)]
        /\ setup' = setup /\ up' = up /\ asked' = asked
    BY <1>2, <1>4 DEF Sockets!Joined, Sockets!Enter
  <2>2. setup[s] = "done" /\ (up[s] => asked[s][c] = "join")
    BY <1>2, <1>4, InFlight DEF Sockets!Joined
  <2>3. up[s] => Placed(s, c)'  BY <1>1, <2>1, <2>2 DEF Placed, SocketDomains
  <2>4. Aside(s) /\ SocketDomains'  BY <1>1, <2>1 DEF SocketDomains, Aside
  <2>5. \A d \in Sockets!Convs \ {c} : d \in rooms'[s] <=> d \in rooms[s]
    BY <1>1, <2>1 DEF SocketDomains
  <2> QED  BY <1>1, <1>2, <2>1, <2>3, <2>4, <2>5, AnswerFollows
<1>5. CASE \/ Sockets!Join(s, i) /\ Sockets!Full(s, open[s][i].conv)
           \/ Sockets!Joined(s, i) /\ ~Sockets!MayOpen(s, c)
           \/ Sockets!JoinFails(s, i)
  <2>1. /\ Sockets!Refused(s, c) /\ rooms' = rooms
             /\ open' = [open EXCEPT ![s] = Sockets!RemoveAt(@, i)]
        /\ setup' = setup /\ up' = up
    BY <1>2, <1>5 DEF Sockets!Join, Sockets!Joined, Sockets!JoinFails
  <2>2. setup[s] = "done"
    BY <1>5, InFlight DEF Sockets!Join, Sockets!Joined, Sockets!JoinFails, Sockets!Starts
  <2>3. open[s][i].kind = "join"
    BY <1>5, InFlight DEF Sockets!Join, Sockets!Joined, Sockets!JoinFails, Sockets!Starts
  <2>4. up[s] => asked[s][c] = "join"  BY <1>2, <2>3, InFlight
  <2>5. up[s] => Placed(s, c)'
    BY <1>1, <1>2, <2>1, <2>2, <2>4, RefusedFacts DEF Placed, SocketDomains
  <2>6. /\ SocketDomains' /\ Aside(s) /\ DOMAIN asked'[s] = Sockets!Convs
        /\ \A d \in Sockets!Convs \ {c} : asked'[s][d] = asked[s][d]
    BY <1>1, <1>2, <2>1 DEF Sockets!Refused, SocketDomains, Aside
  <2> QED  BY <1>2, <2>1, <2>5, <2>6, AnswerFollows
<1> QED  BY <1>3, <1>4, <1>5

\* Steps before `ready`, a command that is given or that goes on, and the end of a socket.
LEMMA OthersFollow ==
  ASSUME MaxOpen = 1, RoomsFollow, NEW s \in Sockets!Sockets,
         \/ Sockets!Find(s) \/ Sockets!Create(s) \/ Sockets!FindAgain(s) \/ Sockets!EnterOwn(s)
              \/ Sockets!SetupFails(s) \/ Sockets!Disconnect(s)
         \/ \E c \in Sockets!Convs, kind \in {"join", "leave"} : Sockets!Ask(s, kind, c)
         \/ \E i \in DOMAIN open[s] : Sockets!Join(s, i) /\ ~Sockets!Full(s, open[s][i].conv)
  PROVE  RoomsFollow'
<1>1. SocketDomains /\ SocketFollows(s)  BY DEF RoomsFollow
<1>2. CASE Sockets!Disconnect(s)
  <2>1. Aside(s) /\ SocketDomains' /\ ~up'[s] /\ open' = open /\ asked' = asked /\ setup' = setup
    BY <1>1, <1>2 DEF Sockets!Disconnect, Aside, SocketDomains
  <2>2. SocketFollows(s)'  BY <1>1, <2>1 DEF SocketFollows, Commanded
  <2> QED  BY <2>1, <2>2, OneFollows
<1>3. CASE Sockets!Find(s) \/ Sockets!Create(s) \/ Sockets!FindAgain(s) \/ Sockets!EnterOwn(s)
        \/ Sockets!SetupFails(s)
  <2>1. /\ Aside(s) /\ SocketDomains' /\ open' = open /\ asked' = asked /\ up' = up
             /\ setup[s] # "done"
    BY <1>1, <1>3 DEF Sockets!Find, Sockets!Create, Sockets!FindAgain, Sockets!EnterOwn,
           Sockets!SetupFails, Sockets!Enter, Aside, SocketDomains
  <2>2. open[s] = <<>> \/ Commanded(s)'
    BY <1>1, <2>1 DEF SocketFollows, Commanded
  <2>3. ASSUME up'[s], NEW c \in Sockets!Convs, \A i \in DOMAIN open'[s] : open'[s][i].conv # c
        PROVE  Placed(s, c)'
    <3>1. asked'[s][c] = "nothing"  BY <1>1, <2>1, <2>3 DEF SocketFollows, Placed
    <3> QED  BY <3>1 DEF Placed
  <2>4. SocketFollows(s)'  BY <1>1, <2>1, <2>2, <2>3 DEF SocketFollows
  <2> QED  BY <2>1, <2>4, OneFollows
<1>4. ASSUME NEW c \in Sockets!Convs, NEW kind \in {"join", "leave"}, Sockets!Ask(s, kind, c)
      PROVE  RoomsFollow'
  <2>1. open[s] = <<>>
    <3>1. Len(open[s]) < 1  BY <1>4 DEF Sockets!Ask
    <3>2. ASSUME Commanded(s) PROVE Len(open[s]) = 1
      BY <3>2 DEF Commanded
    <3> QED  BY <1>1, <3>1, <3>2 DEF SocketFollows
  <2>2. /\ open' = [open EXCEPT ![s] = <<Sockets!Command(kind, c, "ready")>>]
        /\ asked' = [asked EXCEPT ![s][c] = kind] /\ setup' = setup /\ rooms' = rooms /\ up' = up
    BY <1>1, <1>4, <2>1 DEF Sockets!Ask, SocketDomains
  <2>3. Aside(s) /\ SocketDomains'  BY <1>1, <2>2 DEF SocketDomains, Aside
  <2>4. /\ open'[s] = <<Sockets!Command(kind, c, "ready")>> /\ asked'[s][c] = kind
             /\ DOMAIN asked'[s] = Sockets!Convs
        /\ \A d \in Sockets!Convs \ {c} : asked'[s][d] = asked[s][d]
    BY <1>1, <2>2 DEF SocketDomains, SocketFollows
  <2>5. Commanded(s)'  BY <2>4 DEF Commanded
  <2>6. ASSUME up'[s], NEW d \in Sockets!Convs, \A i \in DOMAIN open'[s] : open'[s][i].conv # d
        PROVE  Placed(s, d)'
    <3>1. open'[s][1].conv = c /\ 1 \in DOMAIN open'[s]  BY <2>4 DEF Sockets!Command
    <3>2. d # c  BY <2>6, <3>1
    <3>3. Placed(s, d)  BY <1>1, <2>1, <2>2, <2>6 DEF SocketFollows
    <3> QED  BY <2>2, <2>4, <3>2, <3>3 DEF Placed
  <2>7. SocketFollows(s)'  BY <2>4, <2>5, <2>6 DEF SocketFollows
  <2> QED  BY <2>3, <2>7, OneFollows
<1>5. ASSUME NEW i \in DOMAIN open[s], Sockets!Join(s, i), ~Sockets!Full(s, open[s][i].conv)
      PROVE  RoomsFollow'
  <2>1. PICK c \in Sockets!Convs : i = 1 /\ open[s] = <<Sockets!Command("join", c, "ready")>>
          /\ (up[s] => asked[s][c] = "join")
    BY <1>5, InFlight DEF Sockets!Join, Sockets!Starts
  <2>2. /\ open' = [open EXCEPT ![s][i].at = "read"]
        /\ asked' = asked /\ setup' = setup /\ rooms' = rooms /\ up' = up /\ setup[s] = "done"
    BY <1>5 DEF Sockets!Join, Sockets!Starts
  <2>3. open'[s] = <<Sockets!Command("join", c, "read")>>
    <3>1. open'[s] = [open[s] EXCEPT ![1].at = "read"]  BY <1>1, <2>1, <2>2 DEF SocketDomains
    <3> QED  BY <2>1, <3>1 DEF Sockets!Command
  <2>4. Aside(s) /\ SocketDomains'  BY <1>1, <2>2 DEF SocketDomains, Aside
  <2>5. Commanded(s)'  BY <2>1, <2>2, <2>3 DEF Commanded
  <2>6. ASSUME up'[s], NEW d \in Sockets!Convs, \A j \in DOMAIN open'[s] : open'[s][j].conv # d
        PROVE  Placed(s, d)'
    <3>1. d # c  BY <2>3, <2>6 DEF Sockets!Command
    <3>2. \A j \in DOMAIN open[s] : open[s][j].conv # d  BY <2>1, <3>1 DEF Sockets!Command
    <3>3. Placed(s, d)  BY <1>1, <2>2, <2>6, <3>2 DEF SocketFollows
    <3> QED  BY <2>2, <3>3 DEF Placed
  <2>7. SocketFollows(s)'  BY <1>1, <2>2, <2>5, <2>6 DEF SocketFollows
  <2> QED  BY <2>4, <2>7, OneFollows
<1> QED  BY <1>2, <1>3, <1>4, <1>5

LEMMA StepFollows ==
  ASSUME MaxOpen = 1, RoomsFollow, [Sockets!Next]_(Sockets!vars)
  PROVE  RoomsFollow'
<1>1. CASE UNCHANGED Sockets!vars
  BY <1>1 DEF Sockets!vars, RoomsFollow, SocketDomains, SocketFollows, Commanded, Placed
<1>2. CASE Sockets!Next
  BY <1>2, OthersFollow, AnswersFollow, Zenon DEF Sockets!Next
<1> QED  BY <1>1, <1>2

\* A socket whose commands are answered is where its client asked to be, when the client waits for
\* the answer to one command before it gives another: `ready` holds both kinds of command back, so
\* neither the thread that is entered on connect nor a join it overtakes undoes what was asked.
THEOREM ClientIsWhereAsked ==
  ASSUME MaxOpen = 1 PROVE Sockets!Spec => []WhereAsked
<1>1. Sockets!Init => RoomsFollow  BY InitFollow
<1>2. RoomsFollow /\ [Sockets!Next]_(Sockets!vars) => RoomsFollow'  BY StepFollows
<1>3. RoomsFollow => WhereAsked
  BY DEF RoomsFollow, SocketFollows, Placed, WhereAsked, Sockets!WhereAsked
<1> QED  BY <1>1, <1>2, <1>3, PTL DEF Sockets!Spec

-----------------------------------------------------------------------------
(* Rooms: type correctness *)

PlaceTyped ==
  /\ thread \subseteq Own /\ setup \in [Sockets!Sockets -> Sockets!Setups]
  /\ rooms \in [Sockets!Sockets -> SUBSET Sockets!Convs] /\ up \in [Sockets!Sockets -> BOOLEAN]
  /\ sent \in 0..MaxCommands /\ faults \in 0..MaxFaults
  /\ asked \in [Sockets!Sockets -> [Sockets!Convs -> {"nothing", "join", "leave"}]]
  /\ \A s \in Sockets!Sockets : ~up[s] => rooms[s] = {}

\* No more is in flight than a client leaves unanswered, and nothing is read before `ready`.
InOrder(cmds, ready) ==
  /\ cmds \in Seq(Sockets!Commands) /\ Len(cmds) <= MaxOpen
  /\ \A i \in DOMAIN cmds : cmds[i].at = "read" => ready
FlightTyped ==
  /\ DOMAIN open = Sockets!Sockets
  /\ \A s \in Sockets!Sockets : InOrder(open[s], setup[s] = "done")

LEMMA RoomsConstants ==
  /\ MaxRooms \in Nat \ {0} /\ MaxOpen \in Nat \ {0} /\ MaxCommands \in Nat /\ MaxFaults \in Nat
BY Sockets!RoomsAssumption DEF Sockets!RoomsAssumption

LEMMA InitRoomsTyped == ASSUME Sockets!Init PROVE PlaceTyped /\ FlightTyped
<1>1. PlaceTyped
  BY RoomsConstants DEF Sockets!Init, PlaceTyped, Sockets!Setups, Sockets!Convs
<1>2. ASSUME NEW s \in Sockets!Sockets PROVE InOrder(open[s], setup[s] = "done")
  <2>1. open[s] = <<>>  BY DEF Sockets!Init
  <2> QED  BY <2>1, RoomsConstants DEF InOrder
<1> QED  BY <1>1, <1>2 DEF FlightTyped, Sockets!Init

LEMMA Slice ==
  ASSUME NEW T, NEW q \in Seq(T), NEW m \in Nat \ {0}, NEW n \in Nat, n <= Len(q), m <= n + 1
  PROVE  /\ SubSeq(q, m, n) \in Seq(T) /\ Len(SubSeq(q, m, n)) = n - m + 1
         /\ \A j \in 1..(n - m + 1) : SubSeq(q, m, n)[j] = q[m + j - 1]
<1>1. \A j \in m..n : q[j] \in T
  <2>1. \A j \in m..n : j \in 1..Len(q)  OBVIOUS
  <2> QED  BY <2>1, ElementOfSeq
<1>2. /\ SubSeq(q, m, n) \in Seq(T)
      /\ Len(SubSeq(q, m, n)) = IF m <= n THEN n - m + 1 ELSE 0
      /\ \A j \in 1..(n - m + 1) : SubSeq(q, m, n)[j] = q[m + j - 1]
  BY <1>1, SubSeqProperties
<1> QED  BY <1>2

\* What is left of the commands in flight when one is answered.
LEMMA OneAnswered ==
  ASSUME NEW cmds, NEW ready, InOrder(cmds, ready), NEW i \in DOMAIN cmds
  PROVE  InOrder(Sockets!RemoveAt(cmds, i), ready)
<1> DEFINE a == SubSeq(cmds, 1, i - 1)
           b == SubSeq(cmds, i + 1, Len(cmds))
<1>1. cmds \in Seq(Sockets!Commands) /\ Len(cmds) \in Nat /\ i \in 1..Len(cmds) /\ MaxOpen \in Nat
  BY RoomsConstants DEF InOrder
<1>2. \A j \in 1..Len(cmds) : cmds[j] \in Sockets!Commands /\ (cmds[j].at = "read" => ready)
  BY <1>1 DEF InOrder
<1> HIDE DEF a, b
<1>3. a \in Seq(Sockets!Commands) /\ Len(a) = i - 1 /\ \A j \in 1..Len(a) : a[j] = cmds[j]
  <2>1. a \in Seq(Sockets!Commands) /\ Len(a) = i - 1 /\ \A j \in 1..(i - 1) : a[j] = cmds[1 + j - 1]
    <3>1. 1 \in Nat \ {0} /\ i - 1 \in Nat /\ i - 1 <= Len(cmds) /\ 1 <= i - 1 + 1  BY <1>1
    <3>2. i - 1 - 1 + 1 = i - 1  BY <1>1
    <3>3. /\ a \in Seq(Sockets!Commands) /\ Len(a) = i - 1 - 1 + 1
          /\ \A j \in 1..(i - 1 - 1 + 1) : a[j] = cmds[1 + j - 1]
      BY <1>1, <3>1, Slice DEF a
    <3> QED  BY <3>2, <3>3
  <2> QED  BY <1>1, <2>1
<1>4. b \in Seq(Sockets!Commands) /\ Len(b) = Len(cmds) - i /\ \A j \in 1..Len(b) : b[j] = cmds[i + j]
  <2>1. /\ b \in Seq(Sockets!Commands) /\ Len(b) = Len(cmds) - (i + 1) + 1
        /\ \A j \in 1..(Len(cmds) - (i + 1) + 1) : b[j] = cmds[i + 1 + j - 1]
    <3>1. i + 1 \in Nat \ {0} /\ Len(cmds) \in Nat /\ Len(cmds) <= Len(cmds) /\ i + 1 <= Len(cmds) + 1  BY <1>1
    <3> QED  BY <1>1, <3>1, Slice DEF b
  <2> QED  BY <1>1, <2>1
<1>5. PICK rest : rest = a \o b  OBVIOUS
<1>6. Sockets!RemoveAt(cmds, i) = rest  BY <1>5 DEF Sockets!RemoveAt, a, b
<1>7. /\ rest \in Seq(Sockets!Commands) /\ Len(rest) = Len(a) + Len(b)
      /\ \A j \in 1..Len(a) + Len(b) : rest[j] = IF j <= Len(a) THEN a[j] ELSE b[j - Len(a)]
  BY <1>3, <1>4, <1>5, ConcatProperties
<1>8. Len(rest) = Len(cmds) - 1 /\ DOMAIN rest = 1..Len(rest)  BY <1>1, <1>3, <1>4, <1>7
<1>9. ASSUME NEW j \in 1..Len(rest) PROVE rest[j].at = "read" => ready
  <2>1. CASE j <= i - 1
    <3>1. j \in 1..Len(a) /\ j \in 1..Len(cmds)  BY <1>1, <1>3, <1>8, <2>1
    <3>2. rest[j] = cmds[j]  BY <1>3, <1>4, <1>7, <3>1
    <3> QED  BY <1>2, <3>1, <3>2
  <2>2. CASE ~(j <= i - 1)
    <3>1. j - Len(a) \in 1..Len(b) /\ i + (j - Len(a)) \in 1..Len(cmds)  BY <1>1, <1>3, <1>4, <1>8, <2>2
    <3>2. rest[j] = b[j - Len(a)]  BY <1>1, <1>3, <1>7, <2>2
    <3>3. b[j - Len(a)] = cmds[i + (j - Len(a))]  BY <1>4, <3>1
    <3> QED  BY <1>2, <3>1, <3>2, <3>3
  <2> QED  BY <2>1, <2>2
<1>10. Len(rest) <= MaxOpen  BY <1>1, <1>8 DEF InOrder
<1> QED  BY <1>6, <1>7, <1>8, <1>9, <1>10 DEF InOrder

\* Once a socket is ready it stays so.
LEMMA ReadyStays ==
  ASSUME PlaceTyped, Sockets!Next, NEW t \in Sockets!Sockets, setup[t] = "done" PROVE setup'[t] = "done"
<1>1. PICK s \in Sockets!Sockets :
        \/ Sockets!Find(s) \/ Sockets!Create(s) \/ Sockets!FindAgain(s) \/ Sockets!EnterOwn(s)
        \/ Sockets!SetupFails(s) \/ Sockets!Disconnect(s)
        \/ \E c \in Sockets!Convs, kind \in {"join", "leave"} : Sockets!Ask(s, kind, c)
        \/ \E i \in DOMAIN open[s] : \/ Sockets!Join(s, i) \/ Sockets!Joined(s, i)
                                     \/ Sockets!JoinFails(s, i) \/ Sockets!Leave(s, i)
  BY Zenon DEF Sockets!Next
<1>2. setup' = setup \/ \E to : setup[s] # "done" /\ setup' = [setup EXCEPT ![s] = to]
  BY <1>1 DEF Sockets!Find, Sockets!Create, Sockets!FindAgain, Sockets!EnterOwn, Sockets!SetupFails,
     Sockets!Disconnect, Sockets!Ask, Sockets!Join, Sockets!Joined, Sockets!JoinFails, Sockets!Leave
<1> QED  BY <1>2 DEF PlaceTyped

\* The commands of one socket change, and it is as ready as before or more so.
LEMMA FlightOf ==
  ASSUME PlaceTyped, FlightTyped, Sockets!Next, NEW s \in Sockets!Sockets, NEW cmds,
         open' = [open EXCEPT ![s] = cmds], InOrder(cmds, setup'[s] = "done")
  PROVE  FlightTyped'
<1>1. ASSUME NEW t \in Sockets!Sockets, t # s PROVE InOrder(open'[t], setup'[t] = "done")
  <2>1. open'[t] = open[t]  BY <1>1 DEF FlightTyped
  <2>2. InOrder(open[t], setup[t] = "done")  BY DEF FlightTyped
  <2> QED  BY <2>1, <2>2, ReadyStays DEF InOrder
<1>2. open'[s] = cmds /\ DOMAIN open' = Sockets!Sockets  BY DEF FlightTyped
<1> QED  BY <1>1, <1>2 DEF FlightTyped

LEMMA NextFlight == ASSUME PlaceTyped, FlightTyped, Sockets!Next PROVE FlightTyped'
<1>1. CASE open' = open
  <2>1. ASSUME NEW t \in Sockets!Sockets PROVE InOrder(open'[t], setup'[t] = "done")
    <3>1. InOrder(open[t], setup[t] = "done")  BY DEF FlightTyped
    <3> QED  BY <1>1, <3>1, ReadyStays DEF InOrder
  <2> QED  BY <1>1, <2>1 DEF FlightTyped
<1>2. ASSUME NEW s \in Sockets!Sockets, NEW c \in Sockets!Convs, NEW kind \in {"join", "leave"},
             Sockets!Ask(s, kind, c)
      PROVE  FlightTyped'
  <2> DEFINE cmd == Sockets!Command(kind, c, "ready")
  <2>1. cmd \in Sockets!Commands /\ cmd.at = "ready"  BY DEF Sockets!Commands, Sockets!Command
  <2>2. open' = [open EXCEPT ![s] = Append(open[s], cmd)] /\ setup' = setup /\ Len(open[s]) < MaxOpen
    BY <1>2 DEF Sockets!Ask
  <2> HIDE DEF cmd
  <2>3. InOrder(open[s], setup[s] = "done")  BY DEF FlightTyped
  <2>4. /\ Append(open[s], cmd) \in Seq(Sockets!Commands)
        /\ Len(Append(open[s], cmd)) = Len(open[s]) + 1
        /\ \A i \in 1..Len(open[s]) : Append(open[s], cmd)[i] = open[s][i]
        /\ Append(open[s], cmd)[Len(open[s]) + 1] = cmd
    BY <2>1, <2>3, AppendProperties DEF InOrder
  <2>5. Len(Append(open[s], cmd)) <= MaxOpen  BY <2>2, <2>3, <2>4, RoomsConstants DEF InOrder
  <2>6. ASSUME NEW i \in 1..Len(open[s]) + 1 PROVE Append(open[s], cmd)[i].at = "read" => setup[s] = "done"
    <3>1. CASE i \in 1..Len(open[s])  BY <2>3, <2>4, <3>1 DEF InOrder
    <3>2. CASE i = Len(open[s]) + 1  BY <2>1, <2>4, <3>2
    <3>3. Len(open[s]) \in Nat  BY <2>3 DEF InOrder
    <3> QED  BY <3>1, <3>2, <3>3
  <2>7. DOMAIN Append(open[s], cmd) = 1..Len(open[s]) + 1  BY <2>4
  <2>8. InOrder(Append(open[s], cmd), setup'[s] = "done")  BY <2>2, <2>4, <2>5, <2>6, <2>7 DEF InOrder
  <2> QED  BY <2>2, <2>8, FlightOf
<1>3. ASSUME NEW s \in Sockets!Sockets, NEW i \in DOMAIN open[s], open' = [open EXCEPT ![s] = Sockets!RemoveAt(@, i)]
      PROVE  FlightTyped'
  <2>1. InOrder(open[s], setup[s] = "done")  BY DEF FlightTyped
  <2>2. InOrder(open[s], setup'[s] = "done")  BY <2>1, ReadyStays DEF InOrder
  <2> QED  BY <1>3, <2>2, OneAnswered, FlightOf
<1>4. ASSUME NEW s \in Sockets!Sockets, NEW i \in DOMAIN open[s], Sockets!Join(s, i) PROVE FlightTyped'
  <2>1. CASE open' = [open EXCEPT ![s][i].at = "read"]
    <3>1. setup[s] = "done" /\ InOrder(open[s], setup[s] = "done")
      BY <1>4 DEF Sockets!Join, Sockets!Starts, FlightTyped
    <3> DEFINE cmd == [open[s][i] EXCEPT !.at = "read"]
    <3>2. open[s][i] \in Sockets!Commands  BY <3>1, ElementOfSeq DEF InOrder
    <3>3. cmd \in Sockets!Commands  BY <3>2 DEF Sockets!Commands, Sockets!Command
    <3>4. open' = [open EXCEPT ![s] = [open[s] EXCEPT ![i] = cmd]]  BY <2>1
    <3> HIDE DEF cmd
    <3>5. [open[s] EXCEPT ![i] = cmd] \in Seq(Sockets!Commands) /\ Len([open[s] EXCEPT ![i] = cmd]) = Len(open[s])
      BY <3>1, <3>3, ExceptSeq DEF InOrder
    <3>6. InOrder([open[s] EXCEPT ![i] = cmd], setup'[s] = "done")
      BY <3>1, <3>5, ReadyStays DEF InOrder
    <3> QED  BY <3>4, <3>6, FlightOf
  <2> QED  BY <1>3, <1>4, <2>1 DEF Sockets!Join
<1>5. ASSUME NEW s \in Sockets!Sockets, NEW i \in DOMAIN open[s],
             Sockets!Joined(s, i) \/ Sockets!JoinFails(s, i) \/ Sockets!Leave(s, i)
      PROVE  FlightTyped'
  BY <1>3, <1>5 DEF Sockets!Joined, Sockets!JoinFails, Sockets!Leave
<1>6. ASSUME NEW s \in Sockets!Sockets,
             \/ Sockets!Find(s) \/ Sockets!Create(s) \/ Sockets!FindAgain(s) \/ Sockets!EnterOwn(s)
             \/ Sockets!SetupFails(s) \/ Sockets!Disconnect(s)
      PROVE  FlightTyped'
  BY <1>1, <1>6 DEF Sockets!Find, Sockets!Create, Sockets!FindAgain, Sockets!EnterOwn, Sockets!SetupFails,
     Sockets!Disconnect
<1> QED  BY <1>2, <1>4, <1>5, <1>6, Zenon DEF Sockets!Next

\* A socket that is gone enters nothing.
LEMMA EnterTyped ==
  ASSUME PlaceTyped, NEW s \in Sockets!Sockets, NEW c \in Sockets!Convs, Sockets!Enter(s, c), up' = up
  PROVE  rooms' \in [Sockets!Sockets -> SUBSET Sockets!Convs] /\ \A t \in Sockets!Sockets : ~up'[t] => rooms'[t] = {}
BY DEF PlaceTyped, Sockets!Enter

LEMMA RefusedTyped ==
  ASSUME PlaceTyped, NEW s \in Sockets!Sockets, NEW c \in Sockets!Convs, Sockets!Refused(s, c)
  PROVE  asked' \in [Sockets!Sockets -> [Sockets!Convs -> {"nothing", "join", "leave"}]]
BY DEF PlaceTyped, Sockets!Refused

\* The conversation of a command in flight.
LEMMA FlightConv ==
  ASSUME FlightTyped, NEW s \in Sockets!Sockets, NEW i \in DOMAIN open[s]
  PROVE  open[s][i].conv \in Sockets!Convs
<1>1. open[s][i] \in Sockets!Commands  BY ElementOfSeq DEF FlightTyped, InOrder
<1> QED  BY <1>1 DEF Sockets!Commands, Sockets!Command

LEMMA NextPlace == ASSUME PlaceTyped, FlightTyped, Sockets!Next PROVE PlaceTyped'
<1>1. ASSUME NEW s \in Sockets!Sockets, Sockets!Find(s) \/ Sockets!FindAgain(s) \/ Sockets!Create(s)
      PROVE  PlaceTyped'
  <2>1. rooms' = rooms /\ up' = up /\ sent' = sent /\ asked' = asked /\ faults' = faults
    BY <1>1 DEF Sockets!Find, Sockets!FindAgain, Sockets!Create
  <2>2. thread' \subseteq Own  BY <1>1 DEF PlaceTyped, Sockets!Find, Sockets!FindAgain, Sockets!Create
  <2>3. setup' \in [Sockets!Sockets -> Sockets!Setups]
    BY <1>1 DEF PlaceTyped, Sockets!Find, Sockets!FindAgain, Sockets!Create, Sockets!Setups
  <2> QED  BY <2>1, <2>2, <2>3 DEF PlaceTyped
<1>2. ASSUME NEW s \in Sockets!Sockets, Sockets!EnterOwn(s) PROVE PlaceTyped'
  <2>1. PICK c \in thread : Sockets!Enter(s, c)  BY <1>2 DEF Sockets!EnterOwn
  <2>2. c \in Sockets!Convs  BY DEF PlaceTyped, Sockets!Convs
  <2>3. /\ thread' = thread /\ up' = up /\ sent' = sent /\ asked' = asked /\ faults' = faults
        /\ setup' = [setup EXCEPT ![s] = "done"]
    BY <1>2 DEF Sockets!EnterOwn
  <2> QED  BY <2>1, <2>2, <2>3, EnterTyped DEF PlaceTyped, Sockets!Setups
<1>3. ASSUME NEW s \in Sockets!Sockets, Sockets!SetupFails(s) PROVE PlaceTyped'
  <2>1. /\ thread' = thread /\ rooms' = rooms /\ up' = up /\ sent' = sent /\ asked' = asked
        /\ setup' = [setup EXCEPT ![s] = "done"] /\ faults < MaxFaults /\ faults' = faults + 1
    BY <1>3 DEF Sockets!SetupFails, Sockets!Fault
  <2>2. faults' \in 0..MaxFaults  BY <2>1, RoomsConstants DEF PlaceTyped
  <2> QED  BY <2>1, <2>2 DEF PlaceTyped, Sockets!Setups
<1>4. ASSUME NEW s \in Sockets!Sockets, Sockets!Disconnect(s) PROVE PlaceTyped'
  BY <1>4 DEF Sockets!Disconnect, PlaceTyped
<1>5. ASSUME NEW s \in Sockets!Sockets, NEW c \in Sockets!Convs, NEW kind \in {"join", "leave"},
             Sockets!Ask(s, kind, c)
      PROVE  PlaceTyped'
  <2>1. /\ thread' = thread /\ setup' = setup /\ rooms' = rooms /\ up' = up /\ faults' = faults
        /\ sent < MaxCommands /\ sent' = sent + 1 /\ asked' = [asked EXCEPT ![s][c] = kind]
    BY <1>5 DEF Sockets!Ask
  <2>2. sent' \in 0..MaxCommands  BY <2>1, RoomsConstants DEF PlaceTyped
  <2>3. asked' \in [Sockets!Sockets -> [Sockets!Convs -> {"nothing", "join", "leave"}]]
    BY <2>1 DEF PlaceTyped
  <2> QED  BY <2>1, <2>2, <2>3 DEF PlaceTyped
<1>6. ASSUME NEW s \in Sockets!Sockets, NEW i \in DOMAIN open[s], Sockets!Join(s, i) \/ Sockets!Joined(s, i)
      PROVE  PlaceTyped'
  <2>1. PICK c \in Sockets!Convs : c = open[s][i].conv  BY FlightConv
  <2>2. thread' = thread /\ setup' = setup /\ up' = up /\ sent' = sent /\ faults' = faults
    BY <1>6 DEF Sockets!Join, Sockets!Joined
  <2>3. \/ asked' = asked /\ (rooms' = rooms \/ Sockets!Enter(s, c))
        \/ Sockets!Refused(s, c) /\ rooms' = rooms
    BY <1>6, <2>1 DEF Sockets!Join, Sockets!Joined
  <2>4. asked' \in [Sockets!Sockets -> [Sockets!Convs -> {"nothing", "join", "leave"}]]
    BY <2>3, RefusedTyped DEF PlaceTyped
  <2>5. /\ rooms' \in [Sockets!Sockets -> SUBSET Sockets!Convs]
        /\ \A t \in Sockets!Sockets : ~up'[t] => rooms'[t] = {}
    BY <2>2, <2>3, EnterTyped DEF PlaceTyped
  <2> QED  BY <2>2, <2>4, <2>5 DEF PlaceTyped
<1>7. ASSUME NEW s \in Sockets!Sockets, NEW i \in DOMAIN open[s], Sockets!JoinFails(s, i) PROVE PlaceTyped'
  <2>1. /\ thread' = thread /\ setup' = setup /\ rooms' = rooms /\ up' = up /\ sent' = sent
        /\ Sockets!Refused(s, open[s][i].conv) /\ faults < MaxFaults /\ faults' = faults + 1
    BY <1>7 DEF Sockets!JoinFails, Sockets!Fault
  <2>2. faults' \in 0..MaxFaults  BY <2>1, RoomsConstants DEF PlaceTyped
  <2>3. asked' \in [Sockets!Sockets -> [Sockets!Convs -> {"nothing", "join", "leave"}]]
    BY <2>1, FlightConv, RefusedTyped
  <2> QED  BY <2>1, <2>2, <2>3 DEF PlaceTyped
<1>8. ASSUME NEW s \in Sockets!Sockets, NEW i \in DOMAIN open[s], Sockets!Leave(s, i) PROVE PlaceTyped'
  <2>1. /\ thread' = thread /\ setup' = setup /\ up' = up /\ sent' = sent /\ asked' = asked /\ faults' = faults
        /\ rooms' = [rooms EXCEPT ![s] = rooms[s] \ {open[s][i].conv}]
    BY <1>8 DEF Sockets!Leave, Sockets!Left
  <2> QED  BY <2>1 DEF PlaceTyped
<1> QED  BY <1>1, <1>2, <1>3, <1>4, <1>5, <1>6, <1>7, <1>8, Zenon DEF Sockets!Next

LEMMA StepRoomsTyped ==
  ASSUME PlaceTyped, FlightTyped, [Sockets!Next]_(Sockets!vars) PROVE PlaceTyped' /\ FlightTyped'
<1>1. CASE UNCHANGED Sockets!vars
  BY <1>1 DEF Sockets!vars, PlaceTyped, FlightTyped, InOrder
<1> QED  BY <1>1, NextPlace, NextFlight

\* In every state of the rooms the tables are well typed, a socket that is gone is in no room, and
\* a command reads the database only once its socket is ready.
THEOREM SocketsTyped == Sockets!Spec => []Sockets!TypeOK
<1>1. Sockets!Init => PlaceTyped /\ FlightTyped  BY InitRoomsTyped
<1>2. PlaceTyped /\ FlightTyped /\ [Sockets!Next]_(Sockets!vars) => PlaceTyped' /\ FlightTyped'
  BY StepRoomsTyped
<1>3. PlaceTyped /\ FlightTyped => Sockets!TypeOK
  BY Zenon DEF PlaceTyped, FlightTyped, InOrder, Sockets!TypeOK
<1> QED  BY <1>1, <1>2, <1>3, PTL DEF Sockets!Spec

-----------------------------------------------------------------------------
(* PushSubscriptions *)

LEMMA DevicesCount == \A S : Devices!Cardinality(S) = Cardinality(S)
BY DEF Devices!Cardinality, Cardinality

\* Requests that have looked up what to delete.
Deleters(u) == {p \in Savers : wanted[p].step = "delete" /\ wanted[p].user = u}
\* The rows of u that the deletions of Q leave.
Spared(u, Q) == {b \in Devices!RowsOf(u) : \A q \in Q : row[b].id \notin wanted[q].extra}
SavedRows == {b \in Browsers : row[b] # Devices!NoRow}
BusySavers == {p \in Savers : wanted[p].step # "idle"}

\* Each write of a row has a time of its own.
RowsTimed ==
  /\ writes \in Nat
  /\ \A b \in SavedRows : row[b].at \in 0..writes
  /\ \A b, c \in SavedRows : b # c => row[b].at # row[c].at

RowsFormed ==
  /\ DOMAIN row = Browsers /\ DOMAIN wanted = Savers
  /\ prunes \in Nat
  /\ IsFiniteSet(SavedRows) /\ IsFiniteSet(BusySavers)

\* A user's rows are within the limit already but for the requests that have yet to look them up
\* or to delete what they found: whichever of the deletions come, each makes up for its request.
WithinReach ==
  prunes = 0 => \A u \in Users : \A Q \in SUBSET Deleters(u) :
    Cardinality(Spared(u, Q)) <= MaxDevices + Cardinality(Devices!Pruning(u) \ Q)

DevInv == RowsFormed /\ RowsTimed /\ WithinReach

-----------------------------------------------------------------------------

LEMMA LeastOf ==
  ASSUME NEW T \in SUBSET Nat, T # {}
  PROVE  \E x \in T : \A y \in T : x <= y
<1> DEFINE R == OpToRel(<, Nat)
<1>1. IsWellFoundedOn(R, Nat)  BY NatLessThanWellFounded
<1>2. \A x, y \in Nat : x < y <=> <<x, y>> \in R  BY DEF OpToRel
<1> HIDE DEF R
<1>3. PICK x \in T : \A y \in T : <<y, x>> \notin R  BY <1>1, WFMin
<1>4. ASSUME NEW y \in T PROVE x <= y
  <2>1. x \in Nat /\ y \in Nat  OBVIOUS
  <2>2. ~(y < x)  BY <1>2, <1>3, <2>1, Zenon
  <2> QED  BY <2>1, <2>2
<1> QED  BY <1>4

\* Rows with times of their own, none of them older than MaxDevices others: MaxDevices at most.
LEMMA NewestFew ==
  ASSUME NEW S, IsFiniteSet(S), NEW time, \A b \in S : time[b] \in Nat,
         \A b, c \in S : b # c => time[b] # time[c],
         NEW m \in Nat \ {0}, NEW K \in SUBSET S,
         \A b \in K : Cardinality({c \in S : time[c] > time[b]}) < m
  PROVE  Cardinality(K) <= m
<1>1. CASE K = {}
  BY <1>1, FS_EmptySet
<1>2. CASE K # {}
  <2> DEFINE T == {time[b] : b \in K}
  <2>1. PICK x \in T : \A y \in T : x <= y
    <3>1. T \in SUBSET Nat /\ T # {}  BY <1>2
    <3> HIDE DEF T
    <3> QED  BY <3>1, LeastOf
  <2>2. PICK b \in K : x = time[b]  BY <2>1
  <2> DEFINE newer == {c \in S : time[c] > time[b]}
  <2>3. K \ {b} \subseteq newer  BY <2>1, <2>2
  <2>4. IsFiniteSet(newer) /\ IsFiniteSet(K)  BY FS_Subset
  <2>5. Cardinality(newer) < m  BY <2>2
  <2> HIDE DEF newer
  <2>6. Cardinality(K \ {b}) <= Cardinality(newer)  BY <2>3, <2>4, FS_Subset
  <2>7. Cardinality(K \ {b}) = Cardinality(K) - 1  BY <2>2, <2>4, FS_RemoveElement
  <2>8. Cardinality(K) \in Nat /\ Cardinality(newer) \in Nat  BY <2>4, FS_CardinalityType
  <2> QED  BY <2>5, <2>6, <2>7, <2>8
<1> QED  BY <1>1, <1>2

LEMMA OneMore ==
  ASSUME NEW S, IsFiniteSet(S), NEW x
  PROVE  IsFiniteSet(S \cup {x}) /\ Cardinality(S \cup {x}) <= Cardinality(S) + 1
<1>1. Cardinality(S) \in Nat  BY FS_CardinalityType
<1>2. IsFiniteSet(S \cup {x})  BY FS_AddElement
<1>3. Cardinality(S \cup {x}) = Cardinality(S) \/ Cardinality(S \cup {x}) = Cardinality(S) + 1
  BY FS_AddElement, Zenon
<1> QED  BY <1>1, <1>2, <1>3

LEMMA UserRows ==
  ASSUME RowsFormed, NEW u \in Users
  PROVE  /\ Devices!RowsOf(u) \subseteq SavedRows /\ IsFiniteSet(Devices!RowsOf(u))
              /\ IsFiniteSet(Devices!Pruning(u))
         /\ Devices!Pruning(u) \subseteq BusySavers /\ Deleters(u) \subseteq Devices!Pruning(u)
<1>1. u # None  BY Devices!DevicesAssumption DEF Devices!DevicesAssumption
<1>2. Devices!RowsOf(u) \subseteq SavedRows
  BY <1>1 DEF Devices!RowsOf, SavedRows, Devices!NoRow, Devices!Row
<1>3. Devices!Pruning(u) \subseteq BusySavers /\ Deleters(u) \subseteq Devices!Pruning(u)
  BY DEF Devices!Pruning, BusySavers, Deleters
<1> QED  BY <1>2, <1>3, FS_Subset DEF RowsFormed

\* What one row or request more or less does to the sizes.
LEMMA RowSizes ==
  ASSUME RowsFormed, NEW u \in Users, NEW Q
  PROVE  /\ IsFiniteSet(Spared(u, Q)) /\ Cardinality(Spared(u, Q)) \in Nat
         /\ IsFiniteSet(Devices!Pruning(u) \ Q) /\ Cardinality(Devices!Pruning(u) \ Q) \in Nat
<1>1. Spared(u, Q) \subseteq Devices!RowsOf(u)
        /\ Devices!Pruning(u) \ Q \subseteq Devices!Pruning(u)  BY DEF Spared
<1> QED  BY <1>1, UserRows, FS_Subset, FS_CardinalityType

LEMMA InitDev == Devices!Init => DevInv
<1> SUFFICES ASSUME Devices!Init PROVE DevInv  OBVIOUS
<1>1. SavedRows = {} /\ BusySavers = {}
  BY DEF Devices!Init, SavedRows, BusySavers, Devices!Free, Devices!Req
<1>2. RowsFormed /\ RowsTimed  BY <1>1, FS_EmptySet DEF Devices!Init, RowsFormed, RowsTimed
<1>3. ASSUME NEW u \in Users, NEW Q \in SUBSET Deleters(u)
      PROVE  Cardinality(Spared(u, Q)) <= MaxDevices + Cardinality(Devices!Pruning(u) \ Q)
  <2>1. Spared(u, Q) = {}  BY <1>1, <1>2, UserRows DEF Spared
  <2> QED
    BY <1>2, <2>1, RowSizes, FS_EmptySet, Devices!DevicesAssumption DEF Devices!DevicesAssumption
<1> QED  BY <1>2, <1>3 DEF DevInv, WithinReach

-----------------------------------------------------------------------------
(* PushSubscriptions: steps *)

\* A row is written, for its user of before or for another.
LEMMA WrittenRow ==
  ASSUME RowsFormed, RowsTimed, NEW b \in Browsers, NEW u \in Users, NEW id,
         row' = [row EXCEPT ![b] = Devices!Row(u, writes', id)], writes' = writes + 1
  PROVE  /\ RowsTimed' /\ DOMAIN row' = Browsers /\ IsFiniteSet(SavedRows')
         /\ Devices!RowsOf(u)' = Devices!RowsOf(u) \cup {b}
         /\ \A v \in Users \ {u} : Devices!RowsOf(v)' = Devices!RowsOf(v) \ {b}
         /\ \A c \in Browsers \ {b} : row'[c] = row[c]
<1>1. u # None  BY Devices!DevicesAssumption DEF Devices!DevicesAssumption
<1>2. /\ \A c \in Browsers \ {b} : row'[c] = row[c]
      /\ row'[b].user = u /\ row'[b].at = writes + 1 /\ row'[b] # Devices!NoRow
           /\ DOMAIN row' = Browsers
  BY <1>1 DEF RowsFormed, Devices!Row, Devices!NoRow
<1>3. SavedRows' = SavedRows \cup {b}  BY <1>2 DEF SavedRows
<1>4. IsFiniteSet(SavedRows')  BY <1>3, FS_AddElement DEF RowsFormed
<1>5. RowsTimed'
  <2>1. writes' \in Nat  BY DEF RowsTimed
  <2>2. ASSUME NEW c \in SavedRows' PROVE row'[c].at \in 0..writes'
    BY <1>2, <1>3, <2>2 DEF RowsTimed
  <2>3. ASSUME NEW c \in SavedRows', NEW d \in SavedRows', c # d PROVE row'[c].at # row'[d].at
    BY <1>2, <1>3, <2>3 DEF RowsTimed, SavedRows
  <2> QED  BY <2>1, <2>2, <2>3 DEF RowsTimed
<1> QED  BY <1>2, <1>4, <1>5 DEF Devices!RowsOf

LEMMA UpsertDev == ASSUME DevInv, NEW p \in Savers, NEW u \in Users, NEW b \in Browsers,
    Devices!Upsert(p, u, b)
                   PROVE  DevInv'
<1>1. RowsFormed /\ RowsTimed /\ WithinReach  BY DEF DevInv
<1>2. PICK id : row' = [row EXCEPT ![b] = Devices!Row(u, writes', id)]
  BY DEF Devices!Upsert
<1>3. /\ writes' = writes + 1 /\ wanted' = [wanted EXCEPT ![p] = Devices!Req("find", u, {})]
           /\ prunes' = prunes
      /\ wanted[p].step = "idle"
  BY DEF Devices!Upsert
<1>4. /\ RowsTimed' /\ DOMAIN row' = Browsers /\ IsFiniteSet(SavedRows')
      /\ Devices!RowsOf(u)' = Devices!RowsOf(u) \cup {b}
      /\ \A v \in Users \ {u} : Devices!RowsOf(v)' = Devices!RowsOf(v) \ {b}
      /\ \A c \in Browsers \ {b} : row'[c] = row[c]
  BY <1>1, <1>2, <1>3, WrittenRow
<1>5. /\ DOMAIN wanted' = Savers /\ wanted'[p].step = "find" /\ wanted'[p].user = u
      /\ \A q \in Savers \ {p} : wanted'[q] = wanted[q]
  BY <1>1, <1>3 DEF RowsFormed, Devices!Req
<1>6. RowsFormed'
  <2>1. BusySavers' = BusySavers \cup {p}  BY <1>5 DEF BusySavers
  <2> QED  BY <1>1, <1>3, <1>4, <1>5, <2>1, FS_AddElement DEF RowsFormed
<1>7. Devices!Pruning(u)' = Devices!Pruning(u) \cup {p} /\ p \notin Devices!Pruning(u)
  BY <1>3, <1>5 DEF Devices!Pruning
<1>8. \A v \in Users \ {u} : Devices!Pruning(v)' = Devices!Pruning(v)
  BY <1>3, <1>5 DEF Devices!Pruning
<1>9. \A v \in Users : Deleters(v)' = Deleters(v) /\ p \notin Deleters(v)
  BY <1>3, <1>5 DEF Deleters
<1>10. ASSUME NEW v \in Users, NEW Q \in SUBSET Deleters(v)
       PROVE  \A q \in Q : wanted'[q] = wanted[q]
  BY <1>5, <1>9 DEF Deleters
<1>11. ASSUME prunes = 0, NEW v \in Users, NEW Q \in SUBSET Deleters(v)
       PROVE  Cardinality(Spared(v, Q)') <= MaxDevices + Cardinality(Devices!Pruning(v)' \ Q)
  <2>1. Cardinality(Spared(v, Q)) <= MaxDevices + Cardinality(Devices!Pruning(v) \ Q)
    BY <1>1, <1>11 DEF WithinReach
  <2>2. /\ IsFiniteSet(Spared(v, Q)) /\ Cardinality(Spared(v, Q)) \in Nat
        /\ IsFiniteSet(Devices!Pruning(v) \ Q) /\ Cardinality(Devices!Pruning(v) \ Q) \in Nat
    BY <1>1, RowSizes
  <2>3. CASE v = u
    <3>1. Spared(v, Q)' \subseteq Spared(v, Q) \cup {b}
      BY <1>4, <1>10, <2>3 DEF Spared, Devices!RowsOf
    <3>2. Devices!Pruning(v)' \ Q = (Devices!Pruning(v) \ Q) \cup {p}
            /\ p \notin Devices!Pruning(v) \ Q
      BY <1>7, <1>9, <2>3
    <3>3. Cardinality(Devices!Pruning(v)' \ Q) = Cardinality(Devices!Pruning(v) \ Q) + 1
      BY <2>2, <3>2, FS_AddElement
    <3> DEFINE S == Spared(v, Q) \cup {b}
    <3>4. IsFiniteSet(S) /\ Cardinality(S) <= Cardinality(Spared(v, Q)) + 1
      BY <2>2, OneMore
    <3>5. Cardinality(Spared(v, Q)') <= Cardinality(S) /\ IsFiniteSet(Spared(v, Q)')
      BY <3>1, <3>4, FS_Subset
    <3>6. Cardinality(S) \in Nat /\ Cardinality(Spared(v, Q)') \in Nat
      BY <3>4, <3>5, FS_CardinalityType
    <3> HIDE DEF S
    <3> QED
      BY <2>1, <2>2, <3>3, <3>4, <3>5, <3>6, Devices!DevicesAssumption DEF Devices!DevicesAssumption
  <2>4. CASE v # u
    <3>1. Spared(v, Q)' \subseteq Spared(v, Q)
      BY <1>4, <1>10, <2>4 DEF Spared, Devices!RowsOf
    <3>2. Cardinality(Spared(v, Q)') <= Cardinality(Spared(v, Q)) /\ IsFiniteSet(Spared(v, Q)')
      BY <2>2, <3>1, FS_Subset
    <3>3. Cardinality(Spared(v, Q)') \in Nat  BY <3>2, FS_CardinalityType
    <3> QED
      BY <1>8, <2>1, <2>2, <2>4, <3>2, <3>3, Devices!DevicesAssumption DEF Devices!DevicesAssumption
  <2> QED  BY <2>3, <2>4
<1>12. WithinReach'  BY <1>3, <1>9, <1>11 DEF WithinReach
<1> QED  BY <1>4, <1>6, <1>12 DEF DevInv

\* A step that gives a user no row that the deletions under way would leave, and ends no request
\* but those of the failed.
LEMMA FewerDev ==
  ASSUME DevInv, RowsFormed', RowsTimed', prunes' = prunes,
         \A v \in Users : \A Q \in SUBSET Deleters(v)' :
           \E R \in SUBSET Deleters(v) :
             /\ Spared(v, Q)' \subseteq Spared(v, R)
             /\ Devices!Pruning(v)' \ Q = Devices!Pruning(v) \ R
  PROVE  DevInv'
<1>1. ASSUME prunes = 0, NEW v \in Users, NEW Q \in SUBSET Deleters(v)'
      PROVE  Cardinality(Spared(v, Q)') <= MaxDevices + Cardinality(Devices!Pruning(v)' \ Q)
  <2>1. PICK R \in SUBSET Deleters(v) : Spared(v, Q)' \subseteq Spared(v, R)
          /\ Devices!Pruning(v)' \ Q = Devices!Pruning(v) \ R
    OBVIOUS
  <2>2. Cardinality(Spared(v, R)) <= MaxDevices + Cardinality(Devices!Pruning(v) \ R)
    BY <1>1 DEF DevInv, WithinReach
  <2>3. IsFiniteSet(Spared(v, R)) /\ Cardinality(Spared(v, R)) \in Nat
          /\ Cardinality(Devices!Pruning(v) \ R) \in Nat
    BY RowSizes DEF DevInv
  <2>4. Cardinality(Spared(v, Q)') <= Cardinality(Spared(v, R)) /\ IsFiniteSet(Spared(v, Q)')
    BY <2>1, <2>3, FS_Subset
  <2>5. Cardinality(Spared(v, Q)') \in Nat  BY <2>4, FS_CardinalityType
  <2> QED  BY <2>1, <2>2, <2>3, <2>4, <2>5, Devices!DevicesAssumption DEF Devices!DevicesAssumption
<1>2. WithinReach'  BY <1>1 DEF WithinReach
<1> QED  BY <1>2 DEF DevInv

LEMMA MarkDev == ASSUME DevInv, NEW b \in Browsers, Devices!Mark(b) PROVE DevInv'
<1>1. RowsFormed /\ RowsTimed  BY DEF DevInv
<1>2. /\ row' = [row EXCEPT ![b] = Devices!Row(@.user, writes', @.id)] /\ writes' = writes + 1
      /\ wanted' = wanted /\ prunes' = prunes /\ row[b] # Devices!NoRow
  BY DEF Devices!Mark
<1>3. /\ DOMAIN row' = Browsers /\ \A c \in Browsers \ {b} : row'[c] = row[c]
      /\ row'[b].user = row[b].user /\ row'[b].id = row[b].id /\ row'[b].at = writes + 1
  BY <1>1, <1>2 DEF RowsFormed, Devices!Row
<1>4. row'[b] # Devices!NoRow
  BY <1>1, <1>3 DEF Devices!NoRow, Devices!Row, RowsTimed
<1>5. SavedRows' = SavedRows /\ BusySavers' = BusySavers
  BY <1>2, <1>3, <1>4 DEF SavedRows, BusySavers
<1>6. RowsFormed'  BY <1>1, <1>2, <1>3, <1>5 DEF RowsFormed
<1>7. RowsTimed'  BY <1>1, <1>2, <1>3, <1>5 DEF RowsTimed, SavedRows
<1>8. \A v : Devices!RowsOf(v)' = Devices!RowsOf(v) /\ Deleters(v)' = Deleters(v)
        /\ Devices!Pruning(v)' = Devices!Pruning(v)
  BY <1>2, <1>3 DEF Devices!RowsOf, Deleters, Devices!Pruning
<1>9. \A v, Q : Spared(v, Q)' = Spared(v, Q)
  BY <1>2, <1>3, <1>8 DEF Spared, Devices!RowsOf
<1> QED  BY <1>2, <1>6, <1>7, <1>8, <1>9, FewerDev

LEMMA GoneRows ==
  ASSUME RowsFormed, RowsTimed, NEW B,
         row' = [b \in Browsers |-> IF b \in B THEN Devices!NoRow ELSE row[b]],
         writes' = writes
  PROVE  /\ RowsTimed' /\ DOMAIN row' = Browsers /\ IsFiniteSet(SavedRows')
         /\ \A v \in Users : Devices!RowsOf(v)' = Devices!RowsOf(v) \ B
         /\ \A b \in Browsers \ B : row'[b] = row[b]
<1>1. SavedRows' \subseteq SavedRows /\ \A b \in SavedRows' : row'[b] = row[b]  BY DEF SavedRows
<1>2. RowsTimed'
  <2>1. \A b \in SavedRows' : row'[b].at = row[b].at  BY <1>1
  <2> QED  BY <1>1, <2>1 DEF RowsTimed
<1>3. IsFiniteSet(SavedRows')  BY <1>1, FS_Subset DEF RowsFormed
<1>4. ASSUME NEW v \in Users PROVE Devices!RowsOf(v)' = Devices!RowsOf(v) \ B
  <2>1. v # None  BY Devices!DevicesAssumption DEF Devices!DevicesAssumption
  <2> QED  BY <2>1 DEF Devices!RowsOf, Devices!NoRow, Devices!Row
<1> QED  BY <1>2, <1>3, <1>4

LEMMA RemoveDev == ASSUME DevInv, NEW b \in Browsers, Devices!Remove(b) PROVE DevInv'
<1>1. RowsFormed /\ RowsTimed  BY DEF DevInv
<1>2. /\ row' = [c \in Browsers |-> IF c \in {b} THEN Devices!NoRow ELSE row[c]]
      /\ wanted' = wanted /\ writes' = writes /\ prunes' = prunes
  BY <1>1 DEF Devices!Remove, RowsFormed
<1>3. /\ RowsTimed' /\ DOMAIN row' = Browsers /\ IsFiniteSet(SavedRows')
      /\ \A v \in Users : Devices!RowsOf(v)' = Devices!RowsOf(v) \ {b}
      /\ \A c \in Browsers \ {b} : row'[c] = row[c]
  BY <1>1, <1>2, GoneRows
<1>4. BusySavers' = BusySavers  BY <1>2 DEF BusySavers
<1>5. RowsFormed'  BY <1>1, <1>2, <1>3, <1>4 DEF RowsFormed
<1>6. \A v : Deleters(v)' = Deleters(v) /\ Devices!Pruning(v)' = Devices!Pruning(v)
  BY <1>2 DEF Deleters, Devices!Pruning
<1>7. ASSUME NEW v \in Users, NEW Q PROVE Spared(v, Q)' \subseteq Spared(v, Q)
  BY <1>2, <1>3 DEF Spared, Devices!RowsOf
<1> QED  BY <1>2, <1>3, <1>5, <1>6, <1>7, FewerDev

LEMMA DeleteDev == ASSUME DevInv, NEW p \in Savers, Devices!Delete(p) PROVE DevInv'
<1>1. RowsFormed /\ RowsTimed  BY DEF DevInv
<1>2. PICK B : B = Devices!Deleted(p)  OBVIOUS
<1>3. /\ row' = [c \in Browsers |-> IF c \in B THEN Devices!NoRow ELSE row[c]]
      /\ wanted' = [wanted EXCEPT ![p] = Devices!Free] /\ writes' = writes /\ prunes' = prunes
           /\ wanted[p].step = "delete"
  BY <1>2 DEF Devices!Delete
<1>4. /\ RowsTimed' /\ DOMAIN row' = Browsers /\ IsFiniteSet(SavedRows')
      /\ \A v \in Users : Devices!RowsOf(v)' = Devices!RowsOf(v) \ B
      /\ \A c \in Browsers \ B : row'[c] = row[c]
  BY <1>1, <1>3, GoneRows
<1>5. DOMAIN wanted' = Savers /\ wanted'[p] = Devices!Free
        /\ \A q \in Savers \ {p} : wanted'[q] = wanted[q]
  BY <1>1, <1>3 DEF RowsFormed
<1>6. RowsFormed'
  <2>1. BusySavers' \subseteq BusySavers  BY <1>5 DEF BusySavers, Devices!Free, Devices!Req
  <2> QED  BY <1>1, <1>3, <1>4, <1>5, <2>1, FS_Subset DEF RowsFormed
<1>7. ASSUME NEW v \in Users, NEW Q \in SUBSET Deleters(v)'
      PROVE  \E R \in SUBSET Deleters(v) :
               /\ Spared(v, Q)' \subseteq Spared(v, R)
               /\ Devices!Pruning(v)' \ Q = Devices!Pruning(v) \ R
  <2>1. Deleters(v)' = Deleters(v) \ {p} /\ Devices!Pruning(v)' = Devices!Pruning(v) \ {p}
    BY <1>5 DEF Deleters, Devices!Pruning, Devices!Free, Devices!Req
  <2>2. \A q \in Q : wanted'[q] = wanted[q]  BY <1>5, <2>1 DEF Deleters
  <2> DEFINE R == IF p \in Deleters(v) THEN Q \cup {p} ELSE Q
  <2>3. R \in SUBSET Deleters(v)  BY <2>1
  <2>4. Devices!Pruning(v)' \ Q = Devices!Pruning(v) \ R
    BY <1>3, <2>1 DEF Deleters, Devices!Pruning
  <2>5. Spared(v, Q)' \subseteq Spared(v, R)
    <3> SUFFICES ASSUME NEW b \in Spared(v, Q)' PROVE b \in Spared(v, R)  OBVIOUS
    <3>1. b \in Devices!RowsOf(v) /\ b \notin B /\ row'[b] = row[b]
      BY <1>4 DEF Spared, Devices!RowsOf
    <3>2. \A q \in Q : row[b].id \notin wanted[q].extra  BY <2>2, <3>1 DEF Spared
    <3>3. row[b].id \notin wanted[p].extra  BY <1>2, <3>1 DEF Devices!Deleted, Devices!RowsOf
    <3> QED  BY <3>1, <3>2, <3>3 DEF Spared
  <2> HIDE DEF R
  <2> QED  BY <2>3, <2>4, <2>5
<1> QED  BY <1>3, <1>4, <1>6, <1>7, FewerDev

LEMMA FindDev == ASSUME DevInv, NEW p \in Savers, Devices!Find(p) PROVE DevInv'
<1>1. RowsFormed /\ RowsTimed  BY DEF DevInv
<1>2. PICK u : u = wanted[p].user  OBVIOUS
<1>3. PICK extra : extra = {row[b].id : b \in Devices!Extra(u)}  OBVIOUS
<1>4. /\ wanted' = [wanted EXCEPT ![p] = IF extra = {} THEN Devices!Free
                                       ELSE Devices!Req("delete", u, extra)]
      /\ row' = row /\ writes' = writes /\ prunes' = prunes /\ wanted[p].step = "find"
  BY <1>2, <1>3 DEF Devices!Find
<1>5. /\ DOMAIN wanted' = Savers /\ \A q \in Savers \ {p} : wanted'[q] = wanted[q]
      /\ wanted'[p] = IF extra = {} THEN Devices!Free ELSE Devices!Req("delete", u, extra)
  BY <1>1, <1>4 DEF RowsFormed
<1>6. RowsFormed' /\ RowsTimed'
  <2>1. BusySavers' \subseteq BusySavers /\ SavedRows' = SavedRows
    BY <1>4, <1>5 DEF BusySavers, SavedRows
  <2> QED  BY <1>1, <1>4, <1>5, <2>1, FS_Subset DEF RowsFormed, RowsTimed
<1>7. \A v : Devices!RowsOf(v)' = Devices!RowsOf(v)  BY <1>4 DEF Devices!RowsOf
<1>8. ASSUME NEW v \in Users, v # u
      PROVE  Deleters(v)' = Deleters(v) /\ Devices!Pruning(v)' = Devices!Pruning(v)
               /\ p \notin Deleters(v)
  BY <1>2, <1>4, <1>5, <1>8, Devices!DevicesAssumption
  DEF Deleters, Devices!Pruning, Devices!Free, Devices!Req, Devices!DevicesAssumption
\* The rows that are not extra.
<1>9. ASSUME u \in Users PROVE Cardinality(Devices!RowsOf(u) \ Devices!Extra(u)) <= MaxDevices
  <2> DEFINE S == Devices!RowsOf(u)
             time == [b \in S |-> row[b].at]
             K == S \ Devices!Extra(u)
  <2>1. IsFiniteSet(S) /\ S \subseteq SavedRows  BY <1>1, <1>9, UserRows
  <2>2. \A b \in S : time[b] \in Nat  BY <1>1, <2>1 DEF RowsTimed
  <2>3. \A b, c \in S : b # c => time[b] # time[c]  BY <1>1, <2>1 DEF RowsTimed
  <2>4. ASSUME NEW b \in K PROVE Cardinality({c \in S : time[c] > time[b]}) < MaxDevices
    <3>1. PICK newer : newer = {c \in S : row[c].at > row[b].at}  OBVIOUS
    <3>2. {c \in S : time[c] > time[b]} = newer  BY <3>1
    <3>3. ~(Cardinality(newer) >= MaxDevices)  BY <3>1, DevicesCount DEF Devices!Extra
    <3>4. Cardinality(newer) \in Nat  BY <2>1, <3>1, FS_Subset, FS_CardinalityType
    <3>5. Cardinality(newer) < MaxDevices
      BY <3>3, <3>4, Devices!DevicesAssumption DEF Devices!DevicesAssumption
    <3> QED  BY <3>2, <3>5
  <2>5. MaxDevices \in Nat \ {0} /\ K \in SUBSET S
    BY Devices!DevicesAssumption DEF Devices!DevicesAssumption
  <2> HIDE DEF S, time, K
  <2>6. Cardinality(K) <= MaxDevices  BY <2>1, <2>2, <2>3, <2>4, <2>5, NewestFew
  <2> QED  BY <2>6 DEF K, S
<1>10. ASSUME prunes = 0, NEW v \in Users, NEW Q \in SUBSET Deleters(v)'
       PROVE  Cardinality(Spared(v, Q)') <= MaxDevices + Cardinality(Devices!Pruning(v)' \ Q)
  <2>1. CASE p \in Q \/ (v = u /\ extra = {})
    <3>1. v = u  BY <1>8, <1>5, <2>1 DEF Deleters
    <3>2. Spared(v, Q)' \subseteq Devices!RowsOf(u) \ Devices!Extra(u)
      <4>1. CASE p \in Q
        <5>1. wanted'[p].extra = extra  BY <1>5, <2>1, <4>1 DEF Deleters, Devices!Free, Devices!Req
        <5> QED  BY <1>3, <1>4, <1>7, <3>1, <4>1, <5>1 DEF Spared
      <4>2. CASE extra = {}
        BY <1>3, <1>7, <3>1, <4>2 DEF Spared
      <4> QED  BY <2>1, <4>1, <4>2
    <3>3. IsFiniteSet(Devices!RowsOf(u) \ Devices!Extra(u))  BY <1>1, <3>1, UserRows, FS_Subset
    <3>4. Cardinality(Spared(v, Q)') <= Cardinality(Devices!RowsOf(u) \ Devices!Extra(u))
            /\ IsFiniteSet(Spared(v, Q)')
      BY <3>2, <3>3, FS_Subset
    <3>5. Cardinality(Devices!Pruning(v)' \ Q) \in Nat
      <4>1. IsFiniteSet(Devices!Pruning(v)')
              /\ Devices!Pruning(v)' \ Q \subseteq Devices!Pruning(v)'
        <5>1. Devices!Pruning(v)' \subseteq BusySavers'  BY DEF Devices!Pruning, BusySavers
        <5> QED  BY <1>6, <5>1, FS_Subset DEF RowsFormed
      <4> QED  BY <4>1, FS_Subset, FS_CardinalityType
    <3>6. Cardinality(Devices!RowsOf(u) \ Devices!Extra(u)) <= MaxDevices  BY <1>9, <3>1
    <3>7. Cardinality(Spared(v, Q)') \in Nat
            /\ Cardinality(Devices!RowsOf(u) \ Devices!Extra(u)) \in Nat
      BY <3>3, <3>4, FS_CardinalityType
    <3> QED  BY <3>4, <3>5, <3>6, <3>7, Devices!DevicesAssumption DEF Devices!DevicesAssumption
  <2>2. CASE p \notin Q /\ ~(v = u /\ extra = {})
    <3>1. Devices!Pruning(v)' = Devices!Pruning(v)
      BY <1>2, <1>4, <1>5, <1>8, <2>2 DEF Devices!Pruning, Devices!Req
    <3>2. Q \in SUBSET Deleters(v) /\ \A q \in Q : wanted'[q] = wanted[q]
      BY <1>5, <2>2 DEF Deleters
    <3>3. Spared(v, Q)' = Spared(v, Q)  BY <1>4, <1>7, <3>2 DEF Spared
    <3> QED  BY <1>10, <3>1, <3>2, <3>3 DEF DevInv, WithinReach
  <2> QED  BY <2>1, <2>2
<1>11. WithinReach'  BY <1>4, <1>10 DEF WithinReach
<1> QED  BY <1>6, <1>11 DEF DevInv

LEMMA FailDev == ASSUME DevInv, NEW p \in Savers, Devices!Fails(p) PROVE DevInv'
<1>1. RowsFormed /\ RowsTimed  BY DEF DevInv
<1>2. wanted' = [wanted EXCEPT ![p] = Devices!Free] /\ row' = row /\ writes' = writes
        /\ prunes' = prunes + 1
  BY DEF Devices!Fails
<1>3. DOMAIN wanted' = Savers /\ wanted'[p] = Devices!Free
        /\ \A q \in Savers \ {p} : wanted'[q] = wanted[q]
  BY <1>1, <1>2 DEF RowsFormed
<1>4. BusySavers' \subseteq BusySavers /\ SavedRows' = SavedRows
  BY <1>2, <1>3 DEF BusySavers, SavedRows, Devices!Free, Devices!Req
<1>5. RowsFormed' /\ RowsTimed' /\ prunes' # 0
  BY <1>1, <1>2, <1>3, <1>4, FS_Subset DEF RowsFormed, RowsTimed
<1> QED  BY <1>5 DEF DevInv, WithinReach

LEMMA StepDev == ASSUME DevInv, [Devices!Next]_(Devices!vars) PROVE DevInv'
<1>1. CASE UNCHANGED Devices!vars
  BY <1>1 DEF Devices!vars, DevInv, RowsFormed, RowsTimed, WithinReach, SavedRows, BusySavers,
         Spared, Deleters, Devices!RowsOf, Devices!Pruning
<1>2. CASE Devices!Next
  BY <1>2, UpsertDev, FindDev, DeleteDev, FailDev, RemoveDev, MarkDev, Zenon DEF Devices!Next
<1> QED  BY <1>1, <1>2

\* However saves interleave, and whoever takes over or gives up a browser meanwhile, a user is over
\* the limit of devices by no more rows than he has saves that have yet to prune
\* (push-subscriptions.service.ts): what each of them deletes makes up for the row it wrote.
THEOREM DevicesCapped == Devices!Spec => []AtMostDevices
<1>1. Devices!Init => DevInv  BY InitDev
<1>2. DevInv /\ [Devices!Next]_(Devices!vars) => DevInv'  BY StepDev
<1>3. ASSUME DevInv PROVE AtMostDevices
  <2> SUFFICES ASSUME prunes = 0, NEW u \in Users
               PROVE  Cardinality(Devices!RowsOf(u)) <= MaxDevices + Cardinality(Devices!Pruning(u))
    BY DevicesCount DEF AtMostDevices, Devices!AtMostDevices
  <2>1. Spared(u, {}) = Devices!RowsOf(u) /\ Devices!Pruning(u) \ {} = Devices!Pruning(u)
    BY DEF Spared
  <2>2. {} \in SUBSET Deleters(u)  OBVIOUS
  <2> QED  BY <1>3, <2>1, <2>2 DEF DevInv, WithinReach
<1> QED  BY <1>1, <1>2, <1>3, PTL DEF Devices!Spec

-----------------------------------------------------------------------------
(* PushSubscriptions: type correctness *)

RowFit == [user : Users \cup {None}, at : 0..MaxSaves, id : 0..MaxSaves]
ReqFit == [step : {"idle", "find", "delete"}, user : Users \cup {None}, extra : SUBSET (1..MaxSaves)]

\* A row that is there has a user and an id, and so has whoever looks for rows or deletes some.
Held(r) == r = Devices!NoRow \/ (r.user \in Users /\ r.id \in 1..MaxSaves)
DevTyped ==
  /\ row \in [Browsers -> RowFit] /\ \A b \in Browsers : Held(row[b])
  /\ wanted \in [Savers -> ReqFit] /\ \A p \in Savers : wanted[p].step # "idle" => wanted[p].user \in Users
  /\ writes \in 0..MaxSaves /\ prunes \in 0..MaxFaults /\ dropped \in BOOLEAN

LEMMA DevicesConstants ==
  /\ MaxDevices \in Nat \ {0} /\ MaxSaves \in Nat /\ MaxFaults \in Nat /\ None \notin Users
BY Devices!DevicesAssumption DEF Devices!DevicesAssumption

LEMMA FreeFits == Devices!Free \in ReqFit /\ Devices!Free.step = "idle"
BY DEF Devices!Free, Devices!Req, ReqFit

LEMMA NoRowFits == Devices!NoRow \in RowFit /\ Held(Devices!NoRow)
BY DevicesConstants DEF Devices!NoRow, Devices!Row, RowFit, Held

LEMMA InitDevTyped == ASSUME Devices!Init PROVE DevTyped
<1>1. row \in [Browsers -> RowFit] /\ \A b \in Browsers : Held(row[b])
  BY NoRowFits DEF Devices!Init
<1>2. wanted \in [Savers -> ReqFit] /\ \A p \in Savers : wanted[p].step = "idle"
  BY FreeFits DEF Devices!Init
<1>3. writes \in 0..MaxSaves /\ prunes \in 0..MaxFaults  BY DevicesConstants DEF Devices!Init
<1>4. dropped \in BOOLEAN  BY Zenon DEF Devices!Init
<1> QED  BY <1>1, <1>2, <1>3, <1>4 DEF DevTyped

\* One row, or none, is written.
LEMMA RowWritten ==
  ASSUME DevTyped, NEW b \in Browsers, NEW r \in RowFit, Held(r), row' = [row EXCEPT ![b] = r]
  PROVE  row' \in [Browsers -> RowFit] /\ \A c \in Browsers : Held(row'[c])
<1>1. row \in [Browsers -> RowFit] /\ \A c \in Browsers : Held(row[c])  BY DEF DevTyped
<1>2. row'[b] = r /\ \A c \in Browsers : c # b => row'[c] = row[c]  BY <1>1
<1>3. row' \in [Browsers -> RowFit]  BY <1>1
<1>4. ASSUME NEW c \in Browsers PROVE Held(row'[c])  BY <1>1, <1>2, Zenon
<1> QED  BY <1>3, <1>4

LEMMA ReqWritten ==
  ASSUME DevTyped, NEW p \in Savers, NEW q \in ReqFit, q.step # "idle" => q.user \in Users,
         wanted' = [wanted EXCEPT ![p] = q]
  PROVE  wanted' \in [Savers -> ReqFit] /\ \A s \in Savers : wanted'[s].step # "idle" => wanted'[s].user \in Users
BY DEF DevTyped

LEMMA ReqRecord ==
  ASSUME NEW step \in {"find", "delete"}, NEW u \in Users, NEW extra \in SUBSET (1..MaxSaves)
  PROVE  Devices!Req(step, u, extra) \in ReqFit /\ Devices!Req(step, u, extra).user = u
BY DEF Devices!Req, ReqFit

LEMMA RowRecord ==
  ASSUME NEW u \in Users, NEW at \in 0..MaxSaves, NEW id \in 1..MaxSaves
  PROVE  Devices!Row(u, at, id) \in RowFit /\ Held(Devices!Row(u, at, id))
<1>1. id \in 0..MaxSaves  BY DevicesConstants
<1> QED  BY <1>1 DEF Devices!Row, RowFit, Held

LEMMA UpsertDevTyped ==
  ASSUME DevTyped, NEW p \in Savers, NEW u \in Users, NEW b \in Browsers, Devices!Upsert(p, u, b)
  PROVE  DevTyped'
<1> DEFINE id == IF row[b] = Devices!NoRow THEN writes' ELSE row[b].id
<1>1. /\ writes < MaxSaves /\ writes' = writes + 1 /\ row' = [row EXCEPT ![b] = Devices!Row(u, writes', id)]
      /\ wanted' = [wanted EXCEPT ![p] = Devices!Req("find", u, {})] /\ prunes' = prunes
  BY DEF Devices!Upsert
<1>2. writes' \in 1..MaxSaves /\ writes' \in 0..MaxSaves  BY <1>1, DevicesConstants DEF DevTyped
<1>3. id \in 1..MaxSaves  BY <1>2 DEF DevTyped, Held
<1>4. dropped' \in BOOLEAN  BY Zenon DEF Devices!Upsert, DevTyped
<1> HIDE DEF id
<1>5. row' \in [Browsers -> RowFit] /\ \A c \in Browsers : Held(row'[c])
  BY <1>1, <1>2, <1>3, RowRecord, RowWritten
<1>6. {} \in SUBSET (1..MaxSaves)  OBVIOUS
<1>7. wanted' \in [Savers -> ReqFit] /\ \A s \in Savers : wanted'[s].step # "idle" => wanted'[s].user \in Users
  BY <1>1, <1>6, ReqRecord, ReqWritten
<1>8. prunes' \in 0..MaxFaults  BY <1>1 DEF DevTyped
<1> QED  BY <1>2, <1>4, <1>5, <1>7, <1>8, Zenon DEF DevTyped

LEMMA FindDevTyped == ASSUME DevTyped, NEW p \in Savers, Devices!Find(p) PROVE DevTyped'
<1> DEFINE extra == {row[b].id : b \in Devices!Extra(wanted[p].user)}
<1>1. wanted[p].step = "find" /\ row' = row /\ writes' = writes /\ prunes' = prunes
  BY DEF Devices!Find
<1>2. wanted' = [wanted EXCEPT ![p] = IF extra = {} THEN Devices!Free
                                      ELSE Devices!Req("delete", wanted[p].user, extra)]
  BY DEF Devices!Find
<1>3. wanted[p].user \in Users  BY <1>1 DEF DevTyped
<1>4. extra \in SUBSET (1..MaxSaves)
  <2> SUFFICES ASSUME NEW b \in Devices!Extra(wanted[p].user) PROVE row[b].id \in 1..MaxSaves  OBVIOUS
  <2>1. b \in Browsers /\ row[b].user = wanted[p].user  BY DEF Devices!Extra, Devices!RowsOf
  <2>2. row[b] # Devices!NoRow  BY <1>3, <2>1, DevicesConstants DEF Devices!NoRow, Devices!Row
  <2> QED  BY <2>1, <2>2 DEF DevTyped, Held
<1> HIDE DEF extra
<1>5. wanted' = [wanted EXCEPT ![p] = Devices!Free]
        \/ wanted' = [wanted EXCEPT ![p] = Devices!Req("delete", wanted[p].user, extra)]
  BY <1>2
<1>6. wanted' \in [Savers -> ReqFit] /\ \A s \in Savers : wanted'[s].step # "idle" => wanted'[s].user \in Users
  BY <1>3, <1>4, <1>5, FreeFits, ReqRecord, ReqWritten
<1>7. dropped' \in BOOLEAN  BY Zenon DEF Devices!Find, DevTyped
<1>8. /\ row' \in [Browsers -> RowFit] /\ \A b \in Browsers : Held(row'[b])
      /\ writes' \in 0..MaxSaves /\ prunes' \in 0..MaxFaults
  BY <1>1 DEF DevTyped
<1> QED  BY <1>6, <1>7, <1>8, Zenon DEF DevTyped

LEMMA DeleteDevTyped == ASSUME DevTyped, NEW p \in Savers, Devices!Delete(p) \/ Devices!Fails(p) PROVE DevTyped'
<1>1. wanted' = [wanted EXCEPT ![p] = Devices!Free] /\ writes' = writes
  BY DEF Devices!Delete, Devices!Fails
<1>2. prunes' = prunes \/ (prunes < MaxFaults /\ prunes' = prunes + 1)
  BY DEF Devices!Delete, Devices!Fails
<1>3. prunes' \in 0..MaxFaults  BY <1>2, DevicesConstants DEF DevTyped
<1>4. wanted' \in [Savers -> ReqFit] /\ \A s \in Savers : wanted'[s].step # "idle" => wanted'[s].user \in Users
  BY <1>1, FreeFits, ReqWritten
<1>5. row' = row \/ row' = [b \in Browsers |-> IF b \in Devices!Deleted(p) THEN Devices!NoRow ELSE row[b]]
  BY DEF Devices!Delete, Devices!Fails
<1>6. row' \in [Browsers -> RowFit] /\ \A b \in Browsers : Held(row'[b])
  BY <1>5, NoRowFits DEF DevTyped
<1>7. dropped' \in BOOLEAN  BY Zenon DEF Devices!Delete, Devices!Fails, DevTyped
<1>8. writes' \in 0..MaxSaves  BY <1>1 DEF DevTyped
<1> QED  BY <1>3, <1>4, <1>6, <1>7, <1>8, Zenon DEF DevTyped

LEMMA MarkDevTyped == ASSUME DevTyped, NEW b \in Browsers, Devices!Remove(b) \/ Devices!Mark(b) PROVE DevTyped'
<1>1. row[b] # Devices!NoRow /\ wanted' = wanted /\ prunes' = prunes  BY DEF Devices!Remove, Devices!Mark
<1>2. row[b].user \in Users /\ row[b].id \in 1..MaxSaves  BY <1>1 DEF DevTyped, Held
<1>3. /\ writes' \in 0..MaxSaves
      /\ row' = [row EXCEPT ![b] = Devices!NoRow] \/ row' = [row EXCEPT ![b] = Devices!Row(row[b].user, writes', row[b].id)]
  BY DevicesConstants DEF Devices!Remove, Devices!Mark, DevTyped
<1>4. row' \in [Browsers -> RowFit] /\ \A c \in Browsers : Held(row'[c])
  BY <1>2, <1>3, NoRowFits, RowRecord, RowWritten
<1>5. dropped' \in BOOLEAN  BY Zenon DEF Devices!Remove, Devices!Mark, DevTyped
<1>6. /\ wanted' \in [Savers -> ReqFit] /\ prunes' \in 0..MaxFaults
      /\ \A s \in Savers : wanted'[s].step # "idle" => wanted'[s].user \in Users
  BY <1>1 DEF DevTyped
<1> QED  BY <1>3, <1>4, <1>5, <1>6, Zenon DEF DevTyped

LEMMA StepDevTyped == ASSUME DevTyped, [Devices!Next]_(Devices!vars) PROVE DevTyped'
<1>1. CASE UNCHANGED Devices!vars  BY <1>1, Zenon DEF Devices!vars, DevTyped
<1> QED  BY <1>1, UpsertDevTyped, FindDevTyped, DeleteDevTyped, MarkDevTyped, Zenon DEF Devices!Next

\* In every state of the subscriptions the rows and the requests are well formed: what is to be
\* deleted are ids that rows have had.
THEOREM DevicesTyped == Devices!Spec => []Devices!TypeOK
<1>1. Devices!Init => DevTyped  BY InitDevTyped
<1>2. DevTyped /\ [Devices!Next]_(Devices!vars) => DevTyped'  BY StepDevTyped
<1>3. DevTyped => Devices!TypeOK  BY Zenon DEF DevTyped, RowFit, ReqFit, Devices!TypeOK
<1> QED  BY <1>1, <1>2, <1>3, PTL DEF Devices!Spec

-----------------------------------------------------------------------------
(* OpenThread: its cache *)

AskingSteps == {"lookup", "load", "load_only", "store", "answer"}
Asks(p) == task[p] \in AskingSteps
\* What is cached or about to be.
LoadedPages == pages \cup {job[p] : p \in {q \in Procs : task[q] = "store"}}

CacheFormed ==
  /\ db \in Nat /\ ver \in Nat /\ settled \in Nat
  /\ DOMAIN task = Procs /\ job = [p \in Procs |-> job[p]]
  /\ \A p \in Procs : job[p].ver \in Nat /\ job[p].base \in Nat /\ job[p].content \in Nat
  /\ \A e \in pages : e.ver \in Nat /\ e.content \in Nat

\* A page under a version has what was invalidated when anybody read that version, or an older one.
PagesFresh ==
  /\ settled <= db
  /\ \A p \in Procs : task[p] = "invalidate" => job[p].content <= db
  /\ \A p \in Procs : Asks(p) => job[p].ver <= ver /\ job[p].base <= settled
  /\ \A x \in LoadedPages :
       /\ x.ver <= ver /\ (x.ver = ver => settled <= x.content)
       /\ \A p \in Procs : Asks(p) /\ job[p].ver <= x.ver => job[p].base <= x.content
  /\ \A p \in Procs : task[p] = "answer" => job[p].base <= job[p].content

CacheFresh == CacheFormed /\ PagesFresh

\* The page is asked for in the room, and the request is on its way until it is answered.
Viewing ==
  /\ stage \in {"joined", "loading", "open"} => room
  /\ stage = "loading" => viewer \in Procs /\ Asks(viewer)

\* Where a message is that is neither old enough for the page nor heard.
OnItsWay(m) == \E p \in Procs : task[p] = "invalidate" /\ job[p].content = m

MessagesKnown ==
  /\ \A m \in 1..db : m <= settled \/ m \in lost \/ OnItsWay(m)
  /\ stage \in {"loading", "open"} =>
       \A m \in 1..db : \/ stage = "loading" /\ m <= job[viewer].base
                        \/ m \in screen \cup unsent \cup lost \/ OnItsWay(m)

ThreadInv == CacheFresh /\ Viewing /\ MessagesKnown

-----------------------------------------------------------------------------

LEMMA InitThread == Thread!Init => ThreadInv
BY DEF Thread!Init, Thread!Cache!Init, ThreadInv, CacheFresh, CacheFormed, PagesFresh, Viewing,
       MessagesKnown, LoadedPages, Asks, AskingSteps,
       Thread!Cache!NoJob, Thread!Cache!Job

\* A request of a reader goes on or ends: with the version and the base it has, or with the ones of
\* now.
LEMMA ReaderFresh ==
  ASSUME CacheFresh, NEW p \in Procs, NEW s, NEW j,
         task' = [task EXCEPT ![p] = s], job' = [job EXCEPT ![p] = j],
         db' = db, ver' = ver, settled' = settled,
         j.ver \in Nat /\ j.base \in Nat /\ j.content \in Nat,
         s \in AskingSteps =>
           \/ Asks(p) /\ j.ver = job[p].ver /\ j.base = job[p].base
           \/ j.ver = ver /\ j.base = settled,
         s # "invalidate",
         s = "store" => settled <= j.content,
         s = "answer" => j.base <= j.content,
         \A e \in pages' : e \in pages \/ (task[p] = "store" /\ e.ver = job[p].ver
           /\ e.content = job[p].content)
  PROVE  CacheFresh'
<1>1. CacheFormed /\ PagesFresh  BY DEF CacheFresh
<1>2. /\ task'[p] = s /\ job'[p] = j /\ DOMAIN task' = Procs /\ DOMAIN job' = Procs
      /\ \A q \in Procs \ {p} : task'[q] = task[q] /\ job'[q] = job[q]
  BY <1>1 DEF CacheFormed
<1>3. CacheFormed'  BY <1>1, <1>2 DEF CacheFormed
<1>4. s \in AskingSteps => j.ver <= ver /\ j.base <= settled
  BY <1>1 DEF PagesFresh, CacheFormed
<1>5. ASSUME NEW x \in LoadedPages'
      PROVE  \/ \E y \in LoadedPages : x.ver = y.ver /\ x.content = y.content
             \/ s = "store" /\ x = j
  BY <1>2 DEF LoadedPages
<1>6. ASSUME NEW x \in LoadedPages', s # "store" \/ x # j
      PROVE  /\ x.ver <= ver /\ (x.ver = ver => settled <= x.content)
             /\ \A q \in Procs : Asks(q)' /\ job'[q].ver <= x.ver => job'[q].base <= x.content
  <2>1. PICK y \in LoadedPages : x.ver = y.ver /\ x.content = y.content  BY <1>5, <1>6
  <2>2. y.ver \in Nat /\ y.content \in Nat  BY <1>1 DEF LoadedPages, CacheFormed
  <2>3. y.ver <= ver /\ (y.ver = ver => settled <= y.content)  BY <1>1 DEF PagesFresh
  <2>4. ASSUME NEW q \in Procs, Asks(q)', job'[q].ver <= x.ver PROVE job'[q].base <= x.content
    <3>1. CASE q # p
      BY <1>1, <1>2, <2>1, <2>4, <3>1 DEF PagesFresh, Asks
    <3>2. CASE q = p
      <4>1. s \in AskingSteps  BY <1>2, <2>4, <3>2 DEF Asks
      <4>2. CASE Asks(p) /\ j.ver = job[p].ver /\ j.base = job[p].base
        BY <1>1, <1>2, <2>1, <2>4, <3>2, <4>2 DEF PagesFresh
      <4>3. CASE j.ver = ver /\ j.base = settled
        BY <1>1, <1>2, <2>1, <2>2, <2>3, <2>4, <3>2, <4>3 DEF CacheFormed
      <4> QED  BY <4>1, <4>2, <4>3
    <3> QED  BY <3>1, <3>2
  <2> QED  BY <2>1, <2>3, <2>4
<1>7. ASSUME s = "store"
      PROVE  /\ j.ver <= ver /\ settled <= j.content
             /\ \A q \in Procs : Asks(q)' => job'[q].base <= j.content
  <2>1. \A q \in Procs : Asks(q)' => job'[q].base <= settled /\ job'[q].base \in Nat
    BY <1>1, <1>2, <1>3, <1>4 DEF PagesFresh, Asks, CacheFormed
  <2>2. settled \in Nat  BY <1>1 DEF CacheFormed
  <2>3. j.ver <= ver  BY <1>4, <1>7 DEF AskingSteps
  <2> QED  BY <1>7, <2>1, <2>2, <2>3
<1>8. PagesFresh'
  <2>1. settled' <= db' /\ \A q \in Procs : task'[q] = "invalidate" => job'[q].content <= db'
    BY <1>1, <1>2 DEF PagesFresh
  <2>2. \A q \in Procs : Asks(q)' => job'[q].ver <= ver' /\ job'[q].base <= settled'
    BY <1>1, <1>2, <1>4 DEF PagesFresh, Asks
  <2>3. \A q \in Procs : task'[q] = "answer" => job'[q].base <= job'[q].content
    BY <1>1, <1>2 DEF PagesFresh
  <2>4. \A x \in LoadedPages' : /\ x.ver <= ver' /\ (x.ver = ver' => settled' <= x.content)
                           /\ \A q \in Procs : Asks(q)'
                                /\ job'[q].ver <= x.ver => job'[q].base <= x.content
    BY <1>6, <1>7
  <2> QED  BY <2>1, <2>2, <2>3, <2>4 DEF PagesFresh
<1> QED  BY <1>3, <1>8 DEF CacheFresh

\* A request for the history goes on: the writes and what is on its way stay what they are.
Onward(p) ==
  /\ db' = db /\ settled' = settled
  /\ task[p] # "invalidate" /\ task'[p] # "invalidate"
  /\ \A q \in Procs \ {p} : task'[q] = task[q] /\ job'[q] = job[q]

LEMMA JobFields ==
  ASSUME NEW v, NEW e, NEW b, NEW d, NEW n, NEW s
  PROVE  /\ Thread!Cache!Job(v, e, b, d, n, s).ver = v
              /\ Thread!Cache!Job(v, e, b, d, n, s).base = b
         /\ Thread!Cache!Job(v, e, b, d, n, s).content = n
BY DEF Thread!Cache!Job

LEMMA BeginStep ==
  ASSUME CacheFresh, NEW p \in Procs, task[p] = "idle",
         Thread!Cache!Read(p) \/ Thread!Cache!ReadWithoutCache(p)
  PROVE  CacheFresh' /\ Onward(p) /\ Asks(p)' /\ job'[p].base = settled
<1>1. CacheFormed  BY DEF CacheFresh
<1>2. PICK j : j = Thread!Cache!Job(ver, epoch, settled, answered, 0, epoch)  OBVIOUS
<1>3. PICK s \in {"lookup", "load_only"} : task' = [task EXCEPT ![p] = s]
  BY DEF Thread!Cache!Read, Thread!Cache!ReadWithoutCache, Thread!Cache!Goto
<1>4. /\ job' = [job EXCEPT ![p] = j]
      /\ db' = db /\ ver' = ver /\ settled' = settled /\ pages' = pages
  BY <1>2
  DEF Thread!Cache!Read, Thread!Cache!ReadWithoutCache, Thread!Cache!SetJob, Thread!Cache!history
<1>5. j.ver = ver /\ j.base = settled /\ j.content = 0  BY <1>2, JobFields
<1>6. CacheFresh'
  <2>1. j.ver \in Nat /\ j.base \in Nat /\ j.content \in Nat  BY <1>1, <1>5 DEF CacheFormed
  <2> QED  BY <1>3, <1>4, <1>5, <2>1, ReaderFresh
<1> QED  BY <1>1, <1>3, <1>4, <1>5, <1>6 DEF Onward, Asks, AskingSteps, CacheFormed

\* A request that is under way keeps what it has read.
LEMMA GoOnStep ==
  ASSUME CacheFresh, NEW p \in Procs, task[p] # "idle",
         \/ Thread!Cache!Read(p) \/ Thread!Cache!ReadWithoutCache(p) \/ Thread!Cache!Hit(p)
              \/ Thread!Cache!Miss(p)
         \/ Thread!Cache!Load(p) \/ Thread!Cache!Store(p) \/ Thread!Cache!StoreFails(p)
  PROVE  CacheFresh' /\ Onward(p) /\ Asks(p)' /\ job'[p].base = job[p].base
<1>1. CacheFormed /\ PagesFresh  BY DEF CacheFresh
<1> DEFINE MovesOn(s, j) ==
      /\ Asks(p) /\ s \in AskingSteps /\ task' = [task EXCEPT ![p] = s]
           /\ job' = [job EXCEPT ![p] = j]
      /\ db' = db /\ ver' = ver /\ settled' = settled
      /\ j.ver = job[p].ver /\ j.base = job[p].base /\ j.content \in Nat
<1>2. ASSUME NEW s, NEW j, MovesOn(s, j),
             s = "store" => settled <= j.content,
             s = "answer" => j.base <= j.content,
             \A e \in pages' : e \in pages
                               \/ (task[p] = "store" /\ e.ver = job[p].ver
                                    /\ e.content = job[p].content)
      PROVE  CacheFresh' /\ Onward(p) /\ Asks(p)' /\ job'[p].base = job[p].base
  <2>1. j.ver \in Nat /\ j.base \in Nat /\ s # "invalidate"
    BY <1>1, <1>2 DEF CacheFormed, AskingSteps
  <2>2. CacheFresh'  BY <1>2, <2>1, ReaderFresh
  <2> QED  BY <1>1, <1>2, <2>2 DEF Onward, Asks, AskingSteps, CacheFormed
<1>3. CASE Thread!Cache!Read(p) \/ Thread!Cache!ReadWithoutCache(p)
  <2>1. /\ pages' = pages /\ MovesOn("load_only", job[p])
    BY <1>1, <1>3 DEF Thread!Cache!Read, Thread!Cache!ReadWithoutCache, Thread!Cache!Goto,
           Thread!Cache!SetJob, Thread!Cache!history,
                      Asks, AskingSteps, CacheFormed
  <2> QED  BY <1>2, <2>1
<1>4. CASE Thread!Cache!Hit(p)
  <2>1. PICK e \in pages : /\ e.ver = job[p].ver
                           /\ Thread!Cache!SetJob(p, Thread!Cache!Job(e.ver, job[p].epoch,
                                  job[p].base, job[p].done,
                                                        e.content, e.epoch))
    BY <1>4 DEF Thread!Cache!Hit
  <2>2. PICK j : j = Thread!Cache!Job(e.ver, job[p].epoch, job[p].base, job[p].done, e.content,
            e.epoch)  OBVIOUS
  <2>3. j.ver = job[p].ver /\ j.base = job[p].base /\ j.content = e.content
    BY <2>1, <2>2, JobFields
  <2>4. pages' = pages /\ MovesOn("answer", j)
    BY <1>1, <1>4, <2>1, <2>2, <2>3
       DEF Thread!Cache!Hit, Thread!Cache!Goto, Thread!Cache!SetJob, Thread!Cache!history, Asks,
           AskingSteps, CacheFormed
  <2>5. j.base <= j.content
    BY <1>1, <2>1, <2>3, <2>4 DEF PagesFresh, LoadedPages, CacheFormed
  <2> QED  BY <1>2, <2>4, <2>5
<1>5. CASE Thread!Cache!Miss(p)
  <2>1. pages' = pages /\ MovesOn("load", job[p])
    BY <1>1, <1>5
    DEF Thread!Cache!Miss, Thread!Cache!Goto, Thread!Cache!history, Asks, AskingSteps, CacheFormed
  <2> QED  BY <1>2, <2>1
<1>6. CASE Thread!Cache!Load(p)
  <2>1. PICK j : j = Thread!Cache!Job(job[p].ver, job[p].epoch, job[p].base, job[p].done, db,
            job[p].epoch)  OBVIOUS
  <2>2. j.ver = job[p].ver /\ j.base = job[p].base /\ j.content = db  BY <2>1, JobFields
  <2>3. PICK s : s = IF task[p] = "load" THEN "store" ELSE "answer"  OBVIOUS
  <2>4. pages' = pages /\ MovesOn(s, j)
    BY <1>1, <1>6, <2>1, <2>2, <2>3
       DEF Thread!Cache!Load, Thread!Cache!Goto, Thread!Cache!SetJob, Thread!Cache!history, Asks,
           AskingSteps, CacheFormed
  <2>5. settled <= j.content /\ j.base <= j.content
    BY <1>1, <2>2, <2>4 DEF PagesFresh, CacheFormed
  <2> QED  BY <1>2, <2>4, <2>5
<1>7. CASE Thread!Cache!Store(p) \/ Thread!Cache!StoreFails(p)
  <2>1. /\ task[p] = "store" /\ MovesOn("answer", job[p])
    BY <1>1, <1>7 DEF Thread!Cache!Store, Thread!Cache!StoreFails, Thread!Cache!Goto,
           Thread!Cache!history, Asks, AskingSteps, CacheFormed
  <2>2. ASSUME NEW e \in pages'
        PROVE  e \in pages \/ (e.ver = job[p].ver /\ e.content = job[p].content)
    BY <1>7 DEF Thread!Cache!Store, Thread!Cache!StoreFails, Thread!Cache!Page, Thread!Cache!history
  <2>3. job[p] \in LoadedPages  BY <2>1 DEF LoadedPages
  <2>4. job[p].base <= job[p].content
    BY <1>1, <2>1, <2>3 DEF PagesFresh, CacheFormed
  <2> QED  BY <1>2, <2>1, <2>2, <2>4
<1> QED  BY <1>3, <1>4, <1>5, <1>6, <1>7

LEMMA AnswerStep ==
  ASSUME CacheFresh, NEW p \in Procs, Thread!Cache!Answer(p)
  PROVE  CacheFresh' /\ Onward(p) /\ Asks(p) /\ job[p].base <= job[p].content
<1>1. CacheFormed /\ PagesFresh  BY DEF CacheFresh
<1>2. PICK j : j = Thread!Cache!NoJob  OBVIOUS
<1>3. j.ver = 0 /\ j.base = 0 /\ j.content = 0  BY <1>2, JobFields DEF Thread!Cache!NoJob
<1>4. /\ task[p] = "answer" /\ task' = [task EXCEPT ![p] = "idle"] /\ job' = [job EXCEPT ![p] = j]
      /\ db' = db /\ ver' = ver /\ settled' = settled /\ pages' = pages
  BY <1>2 DEF Thread!Cache!Answer, Thread!Cache!End, Thread!Cache!Goto, Thread!Cache!SetJob,
         Thread!Cache!history
<1>5. CacheFresh'
  <2>1. "idle" \notin AskingSteps /\ j.ver \in Nat /\ j.base \in Nat /\ j.content \in Nat
    BY <1>3 DEF AskingSteps
  <2> QED  BY <1>4, <2>1, ReaderFresh
<1> QED  BY <1>1, <1>4, <1>5 DEF Onward, Asks, AskingSteps, PagesFresh, CacheFormed

LEMMA ExpiresStep ==
  ASSUME CacheFresh, Thread!Cache!PageExpires
  PROVE  CacheFresh' /\ UNCHANGED <<db, settled, task, job>>
<1>1. pages' \subseteq pages /\ UNCHANGED <<db, ver, settled, task, job>>
  BY DEF Thread!Cache!PageExpires, Thread!Cache!history
<1>2. LoadedPages' \subseteq LoadedPages  BY <1>1 DEF LoadedPages
<1> QED  BY <1>1, <1>2 DEF CacheFresh, CacheFormed, PagesFresh, Asks

\* The writer's steps.
LEMMA SaveStep ==
  ASSUME CacheFresh, NEW p \in Procs, Thread!Cache!Write(p)
  PROVE  /\ CacheFresh' /\ db' = db + 1 /\ settled' = settled /\ task[p] = "idle"
         /\ task'[p] = "invalidate" /\ job'[p].content = db + 1
         /\ \A q \in Procs \ {p} : task'[q] = task[q] /\ job'[q] = job[q]
<1>1. CacheFormed /\ PagesFresh  BY DEF CacheFresh
<1>2. PICK j : j = Thread!Cache!Job(0, 0, 0, 0, db + 1, 0)  OBVIOUS
<1>3. j.ver = 0 /\ j.base = 0 /\ j.content = db + 1  BY <1>2, JobFields
<1>4. /\ task[p] = "idle" /\ task' = [task EXCEPT ![p] = "invalidate"]
           /\ job' = [job EXCEPT ![p] = j]
      /\ db' = db + 1 /\ ver' = ver /\ settled' = settled /\ pages' = pages
  BY <1>2 DEF Thread!Cache!Write, Thread!Cache!Goto, Thread!Cache!SetJob, Thread!Cache!history
<1>5. /\ task'[p] = "invalidate" /\ job'[p] = j /\ DOMAIN task' = Procs /\ DOMAIN job' = Procs
      /\ \A q \in Procs \ {p} : task'[q] = task[q] /\ job'[q] = job[q]
  BY <1>1, <1>4 DEF CacheFormed
<1>6. CacheFormed'  BY <1>1, <1>3, <1>4, <1>5 DEF CacheFormed
<1>7. LoadedPages' \subseteq LoadedPages  BY <1>4, <1>5 DEF LoadedPages
<1>8. \A q \in Procs : Asks(q)' => q # p /\ Asks(q)  BY <1>5 DEF Asks, AskingSteps
<1>9. PagesFresh'
  <2>1. settled' <= db' /\ \A q \in Procs : task'[q] = "invalidate" => job'[q].content <= db'
    BY <1>1, <1>3, <1>4, <1>5 DEF PagesFresh, CacheFormed
  <2> QED  BY <1>1, <1>4, <1>5, <1>7, <1>8, <2>1 DEF PagesFresh
<1> QED  BY <1>3, <1>4, <1>5, <1>6, <1>9 DEF CacheFresh

LEMMA SavedStep ==
  ASSUME CacheFresh, NEW p \in Procs,
         Thread!Cache!Invalidate(p) \/ Thread!Cache!InvalidateSkipped(p)
  PROVE  /\ CacheFresh' /\ db' = db /\ settled <= settled' /\ task[p] = "invalidate"
              /\ task'[p] = "idle"
         /\ Thread!Cache!Invalidate(p) => job[p].content <= settled'
         /\ \A q \in Procs \ {p} : task'[q] = task[q] /\ job'[q] = job[q]
<1>1. CacheFormed /\ PagesFresh  BY DEF CacheFresh
<1>2. PICK j : j = Thread!Cache!NoJob  OBVIOUS
<1>3. j.ver = 0 /\ j.base = 0 /\ j.content = 0  BY <1>2, JobFields DEF Thread!Cache!NoJob
<1>4. /\ task[p] = "invalidate" /\ task' = [task EXCEPT ![p] = "idle"]
           /\ job' = [job EXCEPT ![p] = j]
      /\ db' = db /\ pages' = pages
  BY <1>2 DEF Thread!Cache!Invalidate, Thread!Cache!InvalidateSkipped, Thread!Cache!End,
         Thread!Cache!Goto, Thread!Cache!SetJob
<1>5. /\ task'[p] = "idle" /\ job'[p] = j /\ DOMAIN task' = Procs /\ DOMAIN job' = Procs
      /\ \A q \in Procs \ {p} : task'[q] = task[q] /\ job'[q] = job[q]
  BY <1>1, <1>4 DEF CacheFormed
<1>6. /\ ver' \in Nat /\ settled' \in Nat /\ settled <= settled' /\ settled' <= db
      /\ Thread!Cache!Invalidate(p) => ver' = ver + 1 /\ job[p].content <= settled'
      /\ ver' = ver => settled' = settled
      /\ ver <= ver'
  <2>1. CASE Thread!Cache!Invalidate(p)
    <3>1. ver' = ver + 1 /\ settled' = Thread!Cache!Later(settled, job[p].content)
      BY <2>1 DEF Thread!Cache!Invalidate
    <3> QED  BY <1>1, <1>4, <3>1 DEF Thread!Cache!Later, PagesFresh, CacheFormed
  <2>2. CASE Thread!Cache!InvalidateSkipped(p)
    BY <1>1, <1>4, <2>2
    DEF Thread!Cache!InvalidateSkipped, Thread!Cache!Invalidate, PagesFresh, CacheFormed
  <2> QED  BY <2>1, <2>2
<1>7. CacheFormed'  BY <1>1, <1>3, <1>4, <1>5, <1>6 DEF CacheFormed
<1>8. LoadedPages' \subseteq LoadedPages  BY <1>4, <1>5 DEF LoadedPages
<1>9. \A q \in Procs : Asks(q)' => q # p /\ Asks(q)  BY <1>5 DEF Asks, AskingSteps
<1>10. PagesFresh'
  <2>1. settled' <= db' /\ \A q \in Procs : task'[q] = "invalidate" => job'[q].content <= db'
    BY <1>1, <1>3, <1>4, <1>5, <1>6 DEF PagesFresh, CacheFormed
  <2>2. \A q \in Procs : Asks(q)' => job'[q].ver <= ver' /\ job'[q].base <= settled'
    BY <1>1, <1>5, <1>6, <1>9 DEF PagesFresh, CacheFormed
  <2>3. ASSUME NEW x \in LoadedPages'
        PROVE  /\ x.ver <= ver' /\ (x.ver = ver' => settled' <= x.content)
               /\ \A q \in Procs : Asks(q)' /\ job'[q].ver <= x.ver => job'[q].base <= x.content
    <3>1. x \in LoadedPages /\ x.ver \in Nat  BY <1>1, <1>8 DEF LoadedPages, CacheFormed
    <3>2. x.ver <= ver /\ (x.ver = ver => settled <= x.content)  BY <1>1, <3>1 DEF PagesFresh
    <3>3. x.ver <= ver' /\ (x.ver = ver' => ver' = ver)  BY <1>1, <1>6, <3>1, <3>2 DEF CacheFormed
    <3>4. \A q \in Procs : Asks(q)' /\ job'[q].ver <= x.ver => job'[q].base <= x.content
      BY <1>1, <1>5, <1>9, <3>1 DEF PagesFresh
    <3> QED  BY <1>6, <3>2, <3>3, <3>4
  <2>4. \A q \in Procs : task'[q] = "answer" => job'[q].base <= job'[q].content
    BY <1>1, <1>5 DEF PagesFresh
  <2> QED  BY <2>1, <2>2, <2>3, <2>4 DEF PagesFresh
<1> QED  BY <1>4, <1>5, <1>6, <1>7, <1>10 DEF CacheFresh

-----------------------------------------------------------------------------
(* OpenThread: the viewer *)

LEMMA OnwardWay ==
  ASSUME NEW p \in Procs, Onward(p)
  PROVE  \A m : OnItsWay(m)' <=> OnItsWay(m)
BY DEF Onward, OnItsWay

\* A step of a request that is not the viewer's, or not its last.
LEMMA RequestKeeps ==
  ASSUME ThreadInv, CacheFresh', NEW p \in Procs, Onward(p),
         p = viewer /\ stage = "loading" => Asks(p)' /\ job'[p].base = job[p].base,
         UNCHANGED <<stage, room, viewer, screen, unsent, lost>>
  PROVE  ThreadInv'
<1>1. Viewing /\ MessagesKnown  BY DEF ThreadInv
<1>2. stage = "loading" => viewer \in Procs /\ Asks(viewer)' /\ job'[viewer].base = job[viewer].base
  BY <1>1 DEF Viewing, Onward, Asks
<1>3. Viewing'  BY <1>1, <1>2 DEF Viewing
<1>4. MessagesKnown'  BY <1>1, <1>2, OnwardWay DEF MessagesKnown, Onward
<1> QED  BY <1>3, <1>4 DEF ThreadInv

LEMMA OtherRequestsKeep == ASSUME ThreadInv, Thread!OtherRequests PROVE ThreadInv'
<1>1. CacheFresh /\ Viewing /\ MessagesKnown
        /\ UNCHANGED <<stage, room, viewer, screen, unsent, lost>>
  BY DEF ThreadInv, Thread!OtherRequests, Thread!viewVars
<1>2. CASE Thread!Cache!PageExpires
  <2>1. CacheFresh' /\ UNCHANGED <<db, settled, task, job>>  BY <1>1, <1>2, ExpiresStep
  <2> QED  BY <1>1, <2>1 DEF ThreadInv, Viewing, MessagesKnown, OnItsWay, Asks
<1>3. ASSUME NEW p \in Procs,
             \/ Thread!Cache!Read(p) \/ Thread!Cache!ReadWithoutCache(p) \/ Thread!Cache!Hit(p)
                  \/ Thread!Cache!Miss(p)
             \/ Thread!Cache!Load(p) \/ Thread!Cache!Store(p) \/ Thread!Cache!StoreFails(p)
      PROVE  ThreadInv'
  <2>1. CASE task[p] = "idle"
    <3>1. Thread!Cache!Read(p) \/ Thread!Cache!ReadWithoutCache(p)
      BY <1>3, <2>1 DEF Thread!Cache!Hit, Thread!Cache!Miss, Thread!Cache!Load,
             Thread!Cache!Store, Thread!Cache!StoreFails
    <3>2. ~(p = viewer /\ stage = "loading")  BY <1>1, <2>1 DEF Viewing, Asks, AskingSteps
    <3> QED  BY <1>1, <2>1, <3>1, <3>2, BeginStep, RequestKeeps
  <2>2. CASE task[p] # "idle"
    <3>1. CacheFresh' /\ Onward(p) /\ Asks(p)' /\ job'[p].base = job[p].base
      BY <1>1, <1>3, <2>2, GoOnStep
    <3> QED  BY <1>1, <3>1, RequestKeeps
  <2> QED  BY <2>1, <2>2
<1>4. ASSUME NEW p \in Procs, p # viewer, Thread!Cache!Answer(p) PROVE ThreadInv'
  BY <1>1, <1>4, AnswerStep, RequestKeeps
<1> QED  BY <1>2, <1>3, <1>4, Zenon DEF Thread!OtherRequests

LEMMA GetKeeps == ASSUME ThreadInv, WaitsForRoom, NEW p \in Procs, Thread!Get(p) PROVE ThreadInv'
<1>1. CacheFresh /\ Viewing /\ MessagesKnown  BY DEF ThreadInv
<1>2. /\ stage = "joined" /\ task[p] = "idle"
           /\ (Thread!Cache!Read(p) \/ Thread!Cache!ReadWithoutCache(p))
      /\ stage' = "loading" /\ viewer' = p /\ UNCHANGED <<room, screen, unsent, lost>>
  BY DEF Thread!Get
<1>3. CacheFresh' /\ Onward(p) /\ Asks(p)' /\ job'[p].base = settled
  BY <1>1, <1>2, BeginStep
<1>4. Viewing'  BY <1>1, <1>2, <1>3 DEF Viewing
<1>5. MessagesKnown'
  <2>1. \A m \in 1..db : m <= settled \/ m \in lost \/ OnItsWay(m)'
    BY <1>1, <1>3, OnwardWay DEF MessagesKnown
  <2>2. db' = db /\ settled' = settled  BY <1>3 DEF Onward
  <2> QED  BY <1>2, <1>3, <2>1, <2>2 DEF MessagesKnown
<1> QED  BY <1>3, <1>4, <1>5 DEF ThreadInv

LEMMA ShownKeeps == ASSUME ThreadInv, Thread!Shown PROVE ThreadInv'
<1>1. CacheFresh /\ Viewing /\ MessagesKnown  BY DEF ThreadInv
<1>2. /\ stage = "loading" /\ Thread!Cache!Answer(viewer)
           /\ screen' = screen \cup 1..job[viewer].content
      /\ stage' = "open" /\ UNCHANGED <<room, unsent, lost>>
  BY DEF Thread!Shown
<1>3. viewer \in Procs /\ room  BY <1>1, <1>2 DEF Viewing
<1>4. CacheFresh' /\ Onward(viewer) /\ job[viewer].base <= job[viewer].content
  BY <1>1, <1>2, <1>3, AnswerStep
<1>5. Viewing'  BY <1>2, <1>3 DEF Viewing
<1>6. MessagesKnown'
  <2>1. db' = db /\ settled' = settled /\ \A m : OnItsWay(m)' <=> OnItsWay(m)
    BY <1>3, <1>4, OnwardWay DEF Onward
  <2>2. job[viewer].base \in Nat /\ job[viewer].content \in Nat /\ db \in Nat
    BY <1>1, <1>3 DEF CacheFresh, CacheFormed
  <2>3. ASSUME NEW m \in 1..db, m <= job[viewer].base PROVE m \in screen'
    BY <1>2, <1>4, <2>2, <2>3
  <2>4. ASSUME NEW m \in 1..db PROVE m \in screen' \cup unsent' \cup lost' \/ OnItsWay(m)'
    BY <1>1, <1>2, <2>1, <2>3 DEF MessagesKnown
  <2> QED  BY <1>1, <1>2, <2>1, <2>4 DEF MessagesKnown
<1> QED  BY <1>4, <1>5, <1>6 DEF ThreadInv

LEMMA SaveKeeps == ASSUME ThreadInv, NEW p \in Procs, Thread!Save(p) PROVE ThreadInv'
<1>1. CacheFresh /\ Viewing /\ MessagesKnown  BY DEF ThreadInv
<1>2. Thread!Cache!Write(p) /\ UNCHANGED <<stage, room, viewer, screen, unsent, lost>>
  BY DEF Thread!Save, Thread!viewVars
<1>3. /\ CacheFresh' /\ db' = db + 1 /\ settled' = settled /\ task[p] = "idle"
      /\ task'[p] = "invalidate" /\ job'[p].content = db + 1
      /\ \A q \in Procs \ {p} : task'[q] = task[q] /\ job'[q] = job[q]
  BY <1>1, <1>2, SaveStep
<1>4. stage = "loading" => viewer \in Procs \ {p} /\ Asks(viewer)
  BY <1>1, <1>3 DEF Viewing, Asks, AskingSteps
<1>5. Viewing'  BY <1>1, <1>2, <1>3, <1>4 DEF Viewing, Asks
<1>6. \A m : OnItsWay(m) \/ m = db + 1 => OnItsWay(m)'
  BY <1>3 DEF OnItsWay
<1>7. \A m \in 1..db' : m \in 1..db \/ m = db + 1
  BY <1>1, <1>3 DEF CacheFresh, CacheFormed
<1>8. \A m \in 1..db' : m <= settled' \/ m \in lost' \/ OnItsWay(m)'
  BY <1>1, <1>2, <1>3, <1>6, <1>7 DEF MessagesKnown
<1>9. ASSUME stage \in {"loading", "open"}, NEW m \in 1..db'
      PROVE  \/ stage = "loading" /\ m <= job'[viewer].base
             \/ m \in screen \cup unsent \cup lost \/ OnItsWay(m)'
  BY <1>1, <1>3, <1>4, <1>6, <1>7, <1>9 DEF MessagesKnown
<1>10. MessagesKnown'  BY <1>2, <1>8, <1>9 DEF MessagesKnown
<1> QED  BY <1>3, <1>5, <1>10 DEF ThreadInv

LEMMA SavedKeeps == ASSUME ThreadInv, NEW p \in Procs, Thread!Saved(p) PROVE ThreadInv'
<1>1. CacheFresh /\ Viewing /\ MessagesKnown  BY DEF ThreadInv
<1>2. /\ Thread!Cache!Invalidate(p) \/ Thread!Cache!InvalidateSkipped(p)
      /\ unsent' = unsent \cup {job[p].content} /\ lost \subseteq lost'
      /\ Thread!Cache!Invalidate(p) \/ job[p].content \in lost'
      /\ UNCHANGED <<stage, room, viewer, screen>>
  BY DEF Thread!Saved, Thread!viewVars
<1>3. /\ CacheFresh' /\ db' = db /\ settled <= settled' /\ task[p] = "invalidate"
           /\ task'[p] = "idle"
      /\ Thread!Cache!Invalidate(p) => job[p].content <= settled'
      /\ \A q \in Procs \ {p} : task'[q] = task[q] /\ job'[q] = job[q]
  BY <1>1, <1>2, SavedStep
<1>4. stage = "loading" => viewer \in Procs \ {p} /\ Asks(viewer)
  BY <1>1, <1>3 DEF Viewing, Asks, AskingSteps
<1>5. Viewing'  BY <1>1, <1>2, <1>3, <1>4 DEF Viewing, Asks
<1>6. \A m : OnItsWay(m) => OnItsWay(m)' \/ m = job[p].content
  BY <1>3 DEF OnItsWay
<1>7. settled \in Nat /\ settled' \in Nat  BY <1>1, <1>3 DEF CacheFresh, CacheFormed
<1>8. ASSUME NEW m \in 1..db PROVE m <= settled' \/ m \in lost' \/ OnItsWay(m)'
  <2>1. CASE m <= settled  BY <1>3, <1>7, <2>1
  <2>2. CASE m \in lost  BY <1>2, <2>2
  <2>3. CASE OnItsWay(m)  BY <1>2, <1>3, <1>6, <2>3
  <2> QED  BY <1>1, <2>1, <2>2, <2>3 DEF MessagesKnown
<1>9. ASSUME stage \in {"loading", "open"}, NEW m \in 1..db
      PROVE  \/ stage = "loading" /\ m <= job[viewer].base
             \/ m \in screen \cup unsent' \cup lost' \/ OnItsWay(m)'
  BY <1>1, <1>2, <1>6, <1>9 DEF MessagesKnown
<1>10. MessagesKnown'  BY <1>2, <1>3, <1>4, <1>8, <1>9 DEF MessagesKnown
<1> QED  BY <1>3, <1>5, <1>10 DEF ThreadInv

LEMMA RoomKeeps ==
  ASSUME ThreadInv, Thread!Open \/ Thread!Enter \/ Thread!Leave
           \/ (\E m \in unsent : Thread!Emit(m) \/ Thread!HandlerFails(m)) \/ UNCHANGED Thread!vars
  PROVE  ThreadInv'
<1>1. CacheFresh /\ Viewing /\ MessagesKnown  BY DEF ThreadInv
<1>2. UNCHANGED <<db, ver, settled, pages, task, job, viewer>>
  BY DEF Thread!Open, Thread!Enter, Thread!Leave, Thread!Emit, Thread!HandlerFails, Thread!vars,
         Thread!cacheVars, Thread!viewVars
<1>3. CacheFresh'  BY <1>1, <1>2 DEF CacheFresh, CacheFormed, PagesFresh, LoadedPages, Asks
<1>4. \A m : OnItsWay(m)' <=> OnItsWay(m)  BY <1>2 DEF OnItsWay
<1>5. CASE UNCHANGED Thread!vars
  BY <1>1, <1>2, <1>3, <1>4, <1>5
  DEF Thread!vars, Thread!viewVars, ThreadInv, Viewing, MessagesKnown, Asks
<1>6. CASE Thread!Open \/ Thread!Enter \/ Thread!Leave
  BY <1>1, <1>2, <1>3, <1>4, <1>6
  DEF Thread!Open, Thread!Enter, Thread!Leave, ThreadInv, Viewing, MessagesKnown, Asks
<1>7. ASSUME NEW m \in unsent, Thread!Emit(m) PROVE ThreadInv'
  <2>1. stage' = stage /\ room' = room /\ lost' = lost /\ unsent' = unsent \ {m}
    BY <1>7 DEF Thread!Emit
  <2>2. stage \in {"loading", "open"} => screen' = screen \cup {m}
    BY <1>1, <1>7 DEF Thread!Emit, Viewing
  <2>3. Viewing'  BY <1>1, <1>2, <2>1 DEF Viewing, Asks
  <2>4. MessagesKnown'  BY <1>1, <1>2, <1>4, <2>1, <2>2 DEF MessagesKnown
  <2> QED  BY <1>3, <2>3, <2>4 DEF ThreadInv
<1>8. ASSUME NEW m \in unsent, Thread!HandlerFails(m) PROVE ThreadInv'
  <2>1. /\ stage' = stage /\ room' = room /\ screen' = screen
        /\ lost' = lost \cup {m} /\ unsent' = unsent \ {m}
    BY <1>8 DEF Thread!HandlerFails, Thread!viewVars
  <2>2. Viewing'  BY <1>1, <1>2, <2>1 DEF Viewing, Asks
  <2>3. MessagesKnown'  BY <1>1, <1>2, <1>4, <2>1 DEF MessagesKnown
  <2> QED  BY <1>3, <2>2, <2>3 DEF ThreadInv
<1> QED  BY <1>5, <1>6, <1>7, <1>8

LEMMA StepThread == ASSUME WaitsForRoom, ThreadInv, [Thread!Next]_(Thread!vars) PROVE ThreadInv'
<1>1. CASE UNCHANGED Thread!vars  BY <1>1, RoomKeeps
<1>2. CASE Thread!Next
  <2>1. CASE Thread!OtherRequests  BY <2>1, OtherRequestsKeep
  <2>2. CASE Thread!Shown  BY <2>2, ShownKeeps
  <2>3. CASE \E p \in Procs : Thread!Save(p) \/ Thread!Saved(p) \/ Thread!Get(p)
    BY <2>3, SaveKeeps, SavedKeeps, GetKeeps
  <2>4. CASE Thread!Open \/ Thread!Enter \/ Thread!Leave \/ (\E m \in unsent : Thread!Emit(m)
          \/ Thread!HandlerFails(m))
    BY <2>4, RoomKeeps
  <2> QED  BY <1>2, <2>1, <2>2, <2>3, <2>4, Zenon DEF Thread!Next
<1> QED  BY <1>1, <1>2

\* Whoever opens a conversation has all of its messages, when the history is asked for after the
\* join is acked: what is emitted before the socket is in the room was invalidated before that.
THEOREM ViewerSeesAll == ASSUME WaitsForRoom PROVE Thread!Spec => []SeesAll
<1>1. Thread!Init => ThreadInv  BY InitThread
<1>2. ThreadInv /\ [Thread!Next]_(Thread!vars) => ThreadInv'  BY StepThread
<1>3. ThreadInv => SeesAll
  BY DEF ThreadInv, MessagesKnown, SeesAll, Thread!SeesAll, OnItsWay
<1> QED  BY <1>1, <1>2, <1>3, PTL DEF Thread!Spec

\* The viewer's request is one of those that use the cache.
PageInv == CacheFresh /\ (stage = "loading" => viewer \in Procs)

LEMMA CacheStepsFresh == ASSUME PageInv, Thread!Next PROVE CacheFresh'
<1>1. CacheFresh  BY DEF PageInv
<1>2. ASSUME NEW p \in Procs, Thread!Save(p) \/ Thread!Saved(p) \/ Thread!Get(p) PROVE CacheFresh'
  <2>1. CASE Thread!Save(p)  BY <1>1, <2>1, SaveStep, Zenon DEF Thread!Save
  <2>2. CASE Thread!Saved(p)  BY <1>1, <2>2, SavedStep, Zenon DEF Thread!Saved
  <2>3. CASE Thread!Get(p)  BY <1>1, <2>3, BeginStep, Zenon DEF Thread!Get
  <2> QED  BY <1>2, <2>1, <2>2, <2>3
<1>3. CASE Thread!Open \/ Thread!Enter \/ Thread!Leave
           \/ \E m \in unsent : Thread!Emit(m) \/ Thread!HandlerFails(m)
  <2>1. UNCHANGED <<db, ver, settled, pages, task, job>>
    BY <1>3 DEF Thread!Open, Thread!Enter, Thread!Leave, Thread!Emit, Thread!HandlerFails,
                Thread!cacheVars
  <2> QED  BY <1>1, <2>1 DEF CacheFresh, CacheFormed, PagesFresh, LoadedPages, Asks
<1>4. CASE Thread!Shown
  <2>1. viewer \in Procs /\ Thread!Cache!Answer(viewer)  BY <1>4, Zenon DEF Thread!Shown, PageInv
  <2> QED  BY <1>1, <2>1, AnswerStep, Zenon
<1>5. CASE Thread!OtherRequests
  <2>1. CASE Thread!Cache!PageExpires  BY <1>1, <2>1, ExpiresStep
  <2>2. ASSUME NEW p \in Procs,
               \/ Thread!Cache!Read(p) \/ Thread!Cache!ReadWithoutCache(p)
               \/ Thread!Cache!Hit(p) \/ Thread!Cache!Miss(p) \/ Thread!Cache!Load(p)
               \/ Thread!Cache!Store(p) \/ Thread!Cache!StoreFails(p)
        PROVE  CacheFresh'
    <3>1. CASE task[p] # "idle"  BY <1>1, <2>2, <3>1, GoOnStep, Zenon
    <3>2. CASE task[p] = "idle"
      <4>1. ~(\/ Thread!Cache!Hit(p) \/ Thread!Cache!Miss(p) \/ Thread!Cache!Load(p)
              \/ Thread!Cache!Store(p) \/ Thread!Cache!StoreFails(p))
        BY <3>2 DEF Thread!Cache!Hit, Thread!Cache!Miss, Thread!Cache!Load, Thread!Cache!Store,
                    Thread!Cache!StoreFails
      <4> QED  BY <1>1, <2>2, <3>2, <4>1, BeginStep, Zenon
    <3> QED  BY <3>1, <3>2
  <2>3. ASSUME NEW p \in Procs, Thread!Cache!Answer(p) PROVE CacheFresh'  BY <1>1, <2>3, AnswerStep
  <2> QED  BY <1>5, <2>1, <2>2, <2>3, Zenon DEF Thread!OtherRequests
<1> QED  BY <1>2, <1>3, <1>4, <1>5, Zenon DEF Thread!Next

LEMMA StepPages == ASSUME PageInv, [Thread!Next]_(Thread!vars) PROVE PageInv'
<1>1. CASE UNCHANGED Thread!vars
  BY <1>1 DEF Thread!vars, Thread!cacheVars, Thread!viewVars, PageInv, CacheFresh, CacheFormed, PagesFresh,
              LoadedPages, Asks
<1>2. CASE Thread!Next
  <2>1. \/ stage' = stage /\ viewer' = viewer
        \/ stage' \in {"joining", "joined", "open", "away"}
        \/ viewer' \in Procs
    BY <1>2 DEF Thread!Next, Thread!Save, Thread!Saved, Thread!Get, Thread!Emit, Thread!HandlerFails, Thread!Open,
                Thread!Enter, Thread!Shown, Thread!Leave, Thread!OtherRequests, Thread!viewVars
  <2> QED  BY <1>2, <2>1, CacheStepsFresh DEF PageInv
<1> QED  BY <1>1, <1>2

\* Whatever the viewer waits for, and whatever else uses the cache: no page that is answered lacks a
\* message whose invalidation had been done when the request read the version, and what is cached under the
\* present version has every such message (message-cache.service.ts in the hands of the gateway).
THEOREM ViewerPagesFresh ==
  Thread!Spec => [](Thread!Cache!AnswerIsFresh /\ Thread!Cache!CachedPageFresh)
<1>1. Thread!Init => PageInv
  BY InitThread DEF ThreadInv, PageInv, Thread!Init
<1>2. PageInv /\ [Thread!Next]_(Thread!vars) => PageInv'  BY StepPages
<1>3. PageInv => Thread!Cache!AnswerIsFresh /\ Thread!Cache!CachedPageFresh
  BY DEF PageInv, CacheFresh, CacheFormed, PagesFresh, LoadedPages, Thread!Cache!AnswerIsFresh,
         Thread!Cache!CachedPageFresh
<1> QED  BY <1>1, <1>2, <1>3, PTL DEF Thread!Spec

-----------------------------------------------------------------------------
(* History: lists in the order of the index *)

LEMMA ReadingCount == \A S : Reading!Cardinality(S) = Cardinality(S)
BY DEF Reading!Cardinality, Cardinality

\* A finite set can be listed in any strict total order (the pairs of R): each element goes
\* where the number of elements before it says.
LEMMA Sortable ==
  ASSUME NEW S, IsFiniteSet(S), NEW R,
         \A x \in S : <<x, x>> \notin R,
         \A x, y, z \in S : <<x, y>> \in R /\ <<y, z>> \in R => <<x, z>> \in R,
         \A x, y \in S : x = y \/ <<x, y>> \in R \/ <<y, x>> \in R
  PROVE  \E s \in Reading!SetToSeqs(S) : \A i, j \in DOMAIN s : i < j => <<s[i], s[j]>> \in R
<1> DEFINE n == Cardinality(S)
           Lower(x) == {y \in S : <<y, x>> \in R}
           rank == [x \in S |-> Cardinality(Lower(x)) + 1]
<1>1. n \in Nat /\ IsFiniteSet(1..n) /\ Cardinality(1..n) = n
  BY FS_CardinalityType, FS_Interval
<1>2. ASSUME NEW x \in S
      PROVE  IsFiniteSet(Lower(x)) /\ Cardinality(Lower(x)) \in Nat
  BY FS_Subset, FS_CardinalityType
<1>3. ASSUME NEW x \in S PROVE rank[x] \in 1..n
  <2>1. Lower(x) \subseteq S /\ Lower(x) # S  OBVIOUS
  <2>2. Cardinality(Lower(x)) <= n /\ Cardinality(Lower(x)) # n  BY <2>1, FS_Subset
  <2> QED  BY <1>1, <1>2, <2>2
<1>4. ASSUME NEW x \in S, NEW y \in S, <<x, y>> \in R PROVE rank[x] < rank[y]
  <2>1. Lower(x) \subseteq Lower(y) /\ x \in Lower(y) /\ x \notin Lower(x)  BY <1>4
  <2>2. Cardinality(Lower(x)) <= Cardinality(Lower(y)) /\ Cardinality(Lower(x)) # Cardinality(Lower(y))
    BY <1>2, <2>1, FS_Subset
  <2> QED  BY <1>2, <2>2
<1> HIDE DEF rank, n
<1>5. rank \in [S -> 1..n]  BY <1>3 DEF rank
<1>6. \A x, y \in S : rank[x] = rank[y] => x = y
  <2> SUFFICES ASSUME NEW x \in S, NEW y \in S, x # y PROVE rank[x] # rank[y]  OBVIOUS
  <2>1. rank[x] \in Int /\ rank[y] \in Int  BY <1>1, <1>3
  <2>2. CASE <<x, y>> \in R
    <3>1. rank[x] < rank[y]  BY <1>4, <2>2
    <3> QED  BY <2>1, <3>1
  <2>3. CASE <<y, x>> \in R
    <3>1. rank[y] < rank[x]  BY <1>4, <2>3
    <3> QED  BY <2>1, <3>1
  <2> QED  BY <2>2, <2>3
<1>7. rank \in Injection(S, 1..n)  BY <1>5, <1>6 DEF Injection, IsInjective
<1>8. rank \in Surjection(S, 1..n)  BY <1>1, <1>7, FS_Injection DEF n
<1>9. \A i \in 1..n : \E x \in S : rank[x] = i  BY <1>8 DEF Surjection
<1> DEFINE s == [i \in 1..n |-> CHOOSE x \in S : rank[x] = i]
<1>10. \A i \in 1..n : s[i] \in S /\ rank[s[i]] = i  BY <1>9
<1>11. DOMAIN s = 1..n  OBVIOUS
<1>12. s \in [1..n -> S]  BY <1>10
<1> HIDE DEF s
<1>13. s \in Reading!SetToSeqs(S)  BY <1>10, <1>12, ReadingCount DEF Reading!SetToSeqs, n
<1>14. ASSUME NEW i \in 1..n, NEW j \in 1..n, i < j PROVE <<s[i], s[j]>> \in R
  <2>1. s[i] \in S /\ s[j] \in S /\ rank[s[i]] = i /\ rank[s[j]] = j /\ i \in Int /\ j \in Int
    BY <1>1, <1>10
  <2>2. s[i] # s[j]  BY <1>14, <2>1
  <2>3. <<s[j], s[i]>> \notin R  BY <1>4, <1>14, <2>1
  <2> QED  BY <2>1, <2>2, <2>3
<1> QED  BY <1>11, <1>13, <1>14

\* A list of a set has all of its elements.
HasAll(q, S) == q \in Seq(S) /\ \A x \in S : \E i \in 1..Len(q) : q[i] = x

LEMMA ListsAll == ASSUME NEW S, IsFiniteSet(S), NEW q \in Reading!SetToSeqs(S) PROVE HasAll(q, S)
<1> DEFINE n == Cardinality(S)
<1>1. n \in Nat /\ IsFiniteSet(1..n) /\ Cardinality(1..n) = n  BY FS_CardinalityType, FS_Interval
<1>2. q \in [1..n -> S] /\ \A i, j \in 1..n : i # j => q[i] # q[j]
  BY ReadingCount DEF Reading!SetToSeqs
<1> HIDE DEF n
<1>3. q \in Injection(1..n, S)  BY <1>2 DEF Injection, IsInjective
<1>4. q \in Surjection(1..n, S)  BY <1>1, <1>3, FS_Injection DEF n
<1>5. q \in Seq(S) /\ Len(q) = n  BY <1>1, <1>2
<1> QED  BY <1>4, <1>5 DEF Surjection, HasAll

\* Messages that the ids tell apart.
OwnIds(S) == \A k, l \in S : k[2] = l[2] => k = l

LEMMA KeyParts == ASSUME NEW k \in Reading!Keys PROVE k[1] \in Nat /\ k[2] \in Nat /\ k # <<>>
<1>1. PICK a \in Stamps, b \in Ids : k = <<a, b>>  BY DEF Reading!Keys
<1>2. a \in Nat /\ b \in Nat  BY Reading!HistoryAssumption DEF Reading!HistoryAssumption
<1> QED  BY <1>1, <1>2

LEMMA IndexOrder ==
  ASSUME NEW S \in SUBSET Reading!Keys, OwnIds(S)
  PROVE  /\ \A k \in S : ~Reading!Older(k, k)
         /\ \A k, l, m \in S : Reading!Older(k, l) /\ Reading!Older(l, m) => Reading!Older(k, m)
         /\ \A k, l \in S : k = l \/ Reading!Older(k, l) \/ Reading!Older(l, k)
<1>1. \A k \in S : k[1] \in Nat /\ k[2] \in Nat  BY KeyParts
<1>2. ASSUME NEW k \in S PROVE ~Reading!Older(k, k)  BY <1>1 DEF Reading!Older
<1>3. ASSUME NEW k \in S, NEW l \in S, NEW m \in S, Reading!Older(k, l), Reading!Older(l, m)
      PROVE  Reading!Older(k, m)
  BY <1>1, <1>3 DEF Reading!Older
<1>4. ASSUME NEW k \in S, NEW l \in S, k # l PROVE Reading!Older(k, l) \/ Reading!Older(l, k)
  <2>1. k[2] # l[2]  BY <1>4 DEF OwnIds
  <2> QED  BY <1>1, <2>1 DEF Reading!Older
<1> QED  BY <1>2, <1>3, <1>4

LEMMA ListedOldest ==
  ASSUME NEW S \in SUBSET Reading!Keys, IsFiniteSet(S), OwnIds(S), NEW q, q = Reading!OldestFirst(S)
  PROVE  /\ q \in Seq(S) /\ \A x \in S : \E i \in 1..Len(q) : q[i] = x
         /\ \A i, j \in 1..Len(q) : i < j => Reading!Older(q[i], q[j])
<1> DEFINE R == {p \in S \X S : Reading!Older(p[1], p[2])}
           P(s) == \A i, j \in DOMAIN s : i < j => Reading!Older(s[i], s[j])
<1>1. \A k, l \in S : <<k, l>> \in R <=> Reading!Older(k, l)  OBVIOUS
<1> HIDE DEF R
<1>2. \A k \in S : <<k, k>> \notin R  BY <1>1, IndexOrder
<1>3. \A k, l, m \in S : <<k, l>> \in R /\ <<l, m>> \in R => <<k, m>> \in R  BY <1>1, IndexOrder
<1>4. \A k, l \in S : k = l \/ <<k, l>> \in R \/ <<l, k>> \in R  BY <1>1, IndexOrder
<1>5. PICK s \in Reading!SetToSeqs(S) : \A i, j \in DOMAIN s : i < j => <<s[i], s[j]>> \in R
  BY <1>2, <1>3, <1>4, Sortable
<1>6. \A i \in DOMAIN s : s[i] \in S  BY <1>5 DEF Reading!SetToSeqs
<1>7. P(s)  BY <1>1, <1>5, <1>6
<1>8. q \in Reading!SetToSeqs(S) /\ P(q)  BY <1>5, <1>7 DEF Reading!OldestFirst
<1>9. HasAll(q, S)  BY <1>8, ListsAll
<1> QED  BY <1>8, <1>9 DEF HasAll

LEMMA ListedNewest ==
  ASSUME NEW S \in SUBSET Reading!Keys, IsFiniteSet(S), OwnIds(S), NEW q, q = Reading!NewestFirst(S)
  PROVE  /\ q \in Seq(S) /\ \A x \in S : \E i \in 1..Len(q) : q[i] = x
         /\ \A i, j \in 1..Len(q) : i < j => Reading!Older(q[j], q[i])
<1> DEFINE R == {p \in S \X S : Reading!Older(p[2], p[1])}
           P(s) == \A i, j \in DOMAIN s : i < j => Reading!Newer(s[i], s[j])
<1>1. \A k, l \in S : <<k, l>> \in R <=> Reading!Older(l, k)  OBVIOUS
<1> HIDE DEF R
<1>2. \A k \in S : <<k, k>> \notin R  BY <1>1, IndexOrder
<1>3. \A k, l, m \in S : <<k, l>> \in R /\ <<l, m>> \in R => <<k, m>> \in R  BY <1>1, IndexOrder
<1>4. \A k, l \in S : k = l \/ <<k, l>> \in R \/ <<l, k>> \in R  BY <1>1, IndexOrder
<1>5. PICK s \in Reading!SetToSeqs(S) : \A i, j \in DOMAIN s : i < j => <<s[i], s[j]>> \in R
  BY <1>2, <1>3, <1>4, Sortable
<1>6. \A i \in DOMAIN s : s[i] \in S  BY <1>5 DEF Reading!SetToSeqs
<1>7. P(s)  BY <1>1, <1>5, <1>6 DEF Reading!Newer
<1>8. q \in Reading!SetToSeqs(S) /\ P(q)  BY <1>5, <1>7 DEF Reading!NewestFirst
<1>9. HasAll(q, S)  BY <1>8, ListsAll
<1> QED  BY <1>8, <1>9 DEF Reading!Newer, HasAll

LEMMA FirstOnes ==
  ASSUME NEW T, NEW s \in Seq(T), NEW n \in Nat
  PROVE  /\ Reading!Upto(s, n) \in Seq(T)
         /\ Len(Reading!Upto(s, n)) = (IF n < Len(s) THEN n ELSE Len(s))
         /\ \A i \in 1..Len(Reading!Upto(s, n)) : Reading!Upto(s, n)[i] = s[i]
<1> DEFINE m == IF n < Len(s) THEN n ELSE Len(s)
<1>1. m \in Nat /\ m <= Len(s) /\ Len(s) \in Nat  OBVIOUS
<1>2. Reading!Min({n, Len(s)}) = m
  BY <1>1 DEF Reading!Min
<1>3. \A i \in 1..m : s[i] \in T  BY <1>1
<1>4. Reading!Upto(s, n) = SubSeq(s, 1, m)  BY <1>2 DEF Reading!Upto
<1> HIDE DEF m
<1>5. /\ SubSeq(s, 1, m) \in Seq(T)
      /\ Len(SubSeq(s, 1, m)) = IF 1 <= m THEN m - 1 + 1 ELSE 0
      /\ \A i \in 1..(m - 1 + 1) : SubSeq(s, 1, m)[i] = s[1 + i - 1]
  BY <1>1, <1>3, SubSeqProperties
<1>6. Len(SubSeq(s, 1, m)) = m /\ \A i \in 1..m : SubSeq(s, 1, m)[i] = s[i]  BY <1>1, <1>5
<1> QED  BY <1>4, <1>5, <1>6 DEF m

-----------------------------------------------------------------------------
(* History: what is left is past the cursor *)

\* The reader has still to come to k.
Left(k) ==
  /\ ~done
  /\ IF reader = "pages" THEN Reading!PastCursor(k, cursor) ELSE Reading!Ahead(k, cursor)
In(k, s) == \E i \in 1..Len(s) : s[i] = k
Has(k) == In(k, got)

HistInv ==
  /\ saved \subseteq Reading!Keys /\ OwnIds(saved) /\ before \subseteq saved
  /\ got \in Seq(Reading!Keys) /\ cursor \in Reading!Keys \cup {<<>>}
  /\ reader \in {"pages", "export"}
  /\ \A k \in before : Has(k) \/ Left(k)

LEMMA InitHist == ASSUME Reading!Init PROVE HistInv
<1>1. saved \subseteq Reading!Keys /\ OwnIds(saved) /\ before = saved
  BY DEF Reading!Init, OwnIds
<1>2. got \in Seq(Reading!Keys) /\ cursor = <<>> /\ reader \in {"pages", "export"} /\ ~done
  BY DEF Reading!Init
<1>3. \A k \in before : Left(k)  BY <1>2 DEF Left, Reading!PastCursor, Reading!Ahead
<1> QED  BY <1>1, <1>2, <1>3 DEF HistInv

LEMMA SaveHist == ASSUME HistInv, NEW k \in Reading!Keys, Reading!Save(k) PROVE HistInv'
<1>1. /\ saved' = saved \cup {k} /\ \A l \in saved : l[2] # k[2]
      /\ UNCHANGED <<before, reader, cursor, got, done>>
  BY DEF Reading!Save
<1>2. saved' \subseteq Reading!Keys /\ OwnIds(saved') /\ before' \subseteq saved'
  BY <1>1 DEF HistInv, OwnIds
<1>3. \A l \in before' : Has(l)' \/ Left(l)'
  BY <1>1 DEF HistInv, Has, In, Left
<1> QED  BY <1>1, <1>2, <1>3 DEF HistInv, OwnIds

LEMMA ReversedHas ==
  ASSUME NEW T, NEW s \in Seq(T)
  PROVE  Reading!Reverse(s) \in Seq(T) /\ \A k : In(k, s) => In(k, Reading!Reverse(s))
<1> DEFINE r == [i \in 1..Len(s) |-> s[(Len(s) - i) + 1]]
<1>1. Len(s) \in Nat /\ \A i \in 1..Len(s) : Len(s) - i + 1 \in 1..Len(s)  OBVIOUS
<1>2. r \in [1..Len(s) -> T]  BY <1>1
<1>3. r \in Seq(T) /\ Len(r) = Len(s)  BY <1>1, <1>2
<1>4. ASSUME NEW i \in 1..Len(s) PROVE r[Len(s) - i + 1] = s[i]
  <2>1. Len(s) - (Len(s) - i + 1) + 1 = i  BY <1>1
  <2> QED  BY <1>1, <2>1
<1>5. Reading!Reverse(s) = r  BY DEF Reading!Reverse
<1> HIDE DEF r
<1>6. \A k : In(k, s) => In(k, r)  BY <1>1, <1>3, <1>4 DEF In
<1> QED  BY <1>3, <1>5, <1>6

LEMMA JoinedHas ==
  ASSUME NEW T, NEW s \in Seq(T), NEW t \in Seq(T)
  PROVE  s \o t \in Seq(T) /\ \A k : In(k, s) \/ In(k, t) => In(k, s \o t)
<1>1. Len(s \o t) = Len(s) + Len(t) /\ Len(s) \in Nat /\ Len(t) \in Nat  OBVIOUS
<1>2. ASSUME NEW i \in 1..Len(s) PROVE i \in 1..Len(s \o t) /\ (s \o t)[i] = s[i]  BY <1>1
<1>3. ASSUME NEW i \in 1..Len(t)
      PROVE  Len(s) + i \in 1..Len(s \o t) /\ (s \o t)[Len(s) + i] = t[i]
  BY <1>1
<1>4. \A k : In(k, s) => In(k, s \o t)  BY <1>2 DEF In
<1>5. \A k : In(k, t) => In(k, s \o t)  BY <1>3 DEF In
<1> QED  BY <1>4, <1>5

LEMMA NextPageHist == ASSUME IsFiniteSet(Reading!Keys), HistInv, Reading!NextPage PROVE HistInv'
<1> DEFINE S == {k \in saved : Reading!PastCursor(k, cursor)}
<1>1. PICK q : q = Reading!NewestFirst(S)  OBVIOUS
<1>2. PICK found : found = Reading!Rows(S)  OBVIOUS
<1>3. PICK page : page = Reading!Upto(found, Limit)  OBVIOUS
<1>4. S \subseteq Reading!Keys /\ OwnIds(S) /\ IsFiniteSet(S)
  BY FS_Subset DEF HistInv, OwnIds
<1>5. /\ got' = Reading!Reverse(Reading!Upto(Reading!Rows(S), Limit)) \o got
      /\ done' = ~(Len(Reading!Rows(S)) > Limit)
      /\ cursor' = IF Len(Reading!Rows(S)) > Limit
                   THEN Reading!Last(Reading!Upto(Reading!Rows(S), Limit)) ELSE cursor
  BY Zenon DEF Reading!NextPage, Reading!Oldest
<1> HIDE DEF S
<1>6. /\ q \in Seq(S) /\ \A x \in S : \E i \in 1..Len(q) : q[i] = x
      /\ \A i, j \in 1..Len(q) : i < j => Reading!Older(q[j], q[i])
  BY <1>1, <1>4, ListedNewest
<1>7. found = Reading!Upto(q, Limit + 1)  BY <1>1, <1>2 DEF Reading!Rows
<1>8. Limit \in Nat /\ Limit > 0  BY Reading!HistoryAssumption DEF Reading!HistoryAssumption
<1>9. reader = "pages" /\ ~done /\ saved' = saved /\ before' = before /\ reader' = reader
  BY DEF Reading!NextPage
<1>10. /\ got' = Reading!Reverse(page) \o got /\ done' = ~(Len(found) > Limit)
      /\ cursor' = IF Len(found) > Limit THEN Reading!Last(page) ELSE cursor
  BY <1>5, <1>2, <1>3
<1>11. q \in Seq(Reading!Keys) /\ Len(q) \in Nat  BY <1>4, <1>6
<1>12. /\ found \in Seq(Reading!Keys) /\ Len(found) = (IF Limit + 1 < Len(q) THEN Limit + 1 ELSE Len(q))
       /\ \A i \in 1..Len(found) : found[i] = q[i]
  BY <1>7, <1>8, <1>11, FirstOnes
<1>13. /\ page \in Seq(Reading!Keys) /\ Len(page) = (IF Limit < Len(found) THEN Limit ELSE Len(found))
       /\ \A i \in 1..Len(page) : page[i] = found[i]
  BY <1>3, <1>8, <1>12, FirstOnes
<1>14. /\ Len(page) = (IF Limit < Len(q) THEN Limit ELSE Len(q))
       /\ \A i \in 1..Len(page) : page[i] = q[i]
       /\ Len(found) > Limit <=> Len(q) > Limit
  BY <1>8, <1>11, <1>12, <1>13
<1>15. got \in Seq(Reading!Keys)  BY DEF HistInv
<1>16. /\ got' \in Seq(Reading!Keys) /\ \A k : Has(k) => Has(k)'
       /\ \A i \in 1..Len(page) : Has(page[i])'
  <2>1. PICK r : r = Reading!Reverse(page)  OBVIOUS
  <2>2. r \in Seq(Reading!Keys) /\ \A k : In(k, page) => In(k, r)
    BY <1>13, <2>1, ReversedHas
  <2>3. r \o got \in Seq(Reading!Keys) /\ \A k : In(k, r) \/ In(k, got) => In(k, r \o got)
    BY <1>15, <2>2, JoinedHas
  <2>4. got' = r \o got  BY <1>10, <2>1
  <2>5. \A i \in 1..Len(page) : In(page[i], page)  BY DEF In
  <2>6. \A k : Has(k)' <=> In(k, r \o got)  BY <2>4, Zenon DEF Has, In
  <2> QED  BY <2>2, <2>3, <2>4, <2>5, <2>6 DEF Has
<1>17. cursor' \in Reading!Keys \cup {<<>>}
  BY <1>8, <1>10, <1>12, <1>13 DEF HistInv, Reading!Last
<1>18. ASSUME NEW k \in before, Left(k) PROVE Has(k)' \/ Left(k)'
  <2>1. k \in S  BY <1>9, <1>18 DEF S, Left, HistInv
  <2>2. PICK i \in 1..Len(q) : q[i] = k  BY <1>6, <2>1
  <2>3. CASE i \in 1..Len(page)  BY <1>14, <1>16, <2>2, <2>3
  <2>4. CASE i \notin 1..Len(page)
    <3>1. Len(q) > Limit /\ Len(page) = Limit /\ Limit < i  BY <1>8, <1>11, <1>14, <2>4
    <3>2. cursor' = q[Limit]  BY <1>8, <1>10, <1>14, <3>1 DEF Reading!Last
    <3>3. Limit \in 1..Len(q)  BY <1>8, <1>11, <3>1
    <3>4. Reading!Older(k, cursor')  BY <1>6, <2>2, <3>1, <3>2, <3>3
    <3> QED  BY <1>9, <1>10, <1>14, <3>1, <3>4 DEF Left, Reading!PastCursor
  <2> QED  BY <2>3, <2>4
<1>19. \A k \in before' : Has(k)' \/ Left(k)'  BY <1>9, <1>16, <1>18 DEF HistInv
<1> QED  BY <1>9, <1>16, <1>17, <1>19 DEF HistInv

LEMMA NextBatchHist == ASSUME IsFiniteSet(Reading!Keys), HistInv, Reading!NextBatch PROVE HistInv'
<1> DEFINE S == {k \in saved : Reading!Ahead(k, cursor)}
<1>1. PICK q : q = Reading!OldestFirst(S)  OBVIOUS
<1>2. PICK found : found = Reading!Upto(q, Batch)  OBVIOUS
<1>3. S \subseteq Reading!Keys /\ OwnIds(S) /\ IsFiniteSet(S)
  BY FS_Subset DEF HistInv, OwnIds
<1>4. /\ got' = got \o Reading!Upto(Reading!OldestFirst(S), Batch)
      /\ done' = (Reading!Upto(Reading!OldestFirst(S), Batch) = <<>>)
      /\ cursor' = IF Reading!Upto(Reading!OldestFirst(S), Batch) = <<>>
                   THEN cursor ELSE Reading!Last(Reading!Upto(Reading!OldestFirst(S), Batch))
  BY Zenon DEF Reading!NextBatch
<1> HIDE DEF S
<1>5. /\ q \in Seq(S) /\ \A x \in S : \E i \in 1..Len(q) : q[i] = x
      /\ \A i, j \in 1..Len(q) : i < j => Reading!Older(q[i], q[j])
  BY <1>1, <1>3, ListedOldest
<1>6. Batch \in Nat /\ Batch > 0  BY Reading!HistoryAssumption DEF Reading!HistoryAssumption
<1>7. reader = "export" /\ ~done /\ saved' = saved /\ before' = before /\ reader' = reader
  BY DEF Reading!NextBatch
<1>8. /\ got' = got \o found /\ done' = (found = <<>>)
      /\ cursor' = IF found = <<>> THEN cursor ELSE Reading!Last(found)
  BY <1>4, <1>1, <1>2
<1>9. q \in Seq(Reading!Keys) /\ Len(q) \in Nat  BY <1>3, <1>5
<1>10. /\ found \in Seq(Reading!Keys) /\ Len(found) = (IF Batch < Len(q) THEN Batch ELSE Len(q))
      /\ \A i \in 1..Len(found) : found[i] = q[i]
  BY <1>2, <1>6, <1>9, FirstOnes
<1>11. got \in Seq(Reading!Keys)  BY DEF HistInv
<1>12. /\ got' \in Seq(Reading!Keys) /\ \A k : Has(k) => Has(k)'
       /\ \A i \in 1..Len(found) : Has(found[i])'
  <2>1. /\ got \o found \in Seq(Reading!Keys)
        /\ \A k : In(k, got) \/ In(k, found) => In(k, got \o found)
    BY <1>10, <1>11, JoinedHas
  <2>2. \A i \in 1..Len(found) : In(found[i], found)  BY DEF In
  <2>3. \A k : Has(k)' <=> In(k, got \o found)  BY <1>8, Zenon DEF Has, In
  <2> QED  BY <1>8, <2>1, <2>2, <2>3 DEF Has
<1>13. found = <<>> <=> Len(found) = 0  BY <1>10
<1>14. cursor' \in Reading!Keys \cup {<<>>}
  <2>1. CASE found = <<>>  BY <1>8, <2>1 DEF HistInv
  <2>2. CASE found # <<>>
    <3>1. Len(found) \in 1..Len(found)  BY <1>10, <1>13, <2>2
    <3> QED  BY <1>8, <1>10, <2>2, <3>1 DEF Reading!Last
  <2> QED  BY <2>1, <2>2
<1>15. ASSUME NEW k \in before, Left(k) PROVE Has(k)' \/ Left(k)'
  <2>1. k \in S  BY <1>7, <1>15 DEF S, Left, HistInv
  <2>2. PICK i \in 1..Len(q) : q[i] = k  BY <1>5, <2>1
  <2>3. CASE i \in 1..Len(found)  BY <1>10, <1>12, <2>2, <2>3
  <2>4. CASE i \notin 1..Len(found)
    <3>1. Len(found) = Batch /\ Batch < i  BY <1>6, <1>9, <1>10, <2>4
    <3>2. found # <<>> /\ cursor' = q[Batch]  BY <1>6, <1>8, <1>10, <1>13, <3>1 DEF Reading!Last
    <3>3. Batch \in 1..Len(q)  BY <1>6, <1>9, <3>1
    <3>4. Reading!Older(cursor', k)  BY <1>5, <2>2, <3>1, <3>2, <3>3
    <3>5. reader' = "export"  BY <1>7
    <3>6. ~done'  BY <1>8, <3>2
    <3> QED  BY <3>4, <3>5, <3>6 DEF Left, Reading!Ahead
  <2> QED  BY <2>3, <2>4
<1>16. \A k \in before' : Has(k)' \/ Left(k)'  BY <1>7, <1>12, <1>15 DEF HistInv
<1> QED  BY <1>7, <1>12, <1>14, <1>16 DEF HistInv

LEMMA StepHist ==
  ASSUME IsFiniteSet(Reading!Keys), HistInv, [Reading!Next]_(Reading!vars)
  PROVE  HistInv'
<1>1. CASE UNCHANGED Reading!vars
  BY <1>1 DEF Reading!vars, HistInv, OwnIds, Has, In, Left
<1> QED  BY <1>1, SaveHist, NextPageHist, NextBatchHist DEF Reading!Next

\* A reader who pages to the end, or an export, has every message that was there when it began,
\* whatever is saved meanwhile by servers with any clocks, and however many have one createdAt:
\* what it has not got is past its cursor (messages.service.ts, getHistory and streamAll).
THEOREM ReadersMissNothing ==
  ASSUME IsFiniteSet(Stamps), IsFiniteSet(Ids) PROVE Reading!Spec => []Complete
<1>1. IsFiniteSet(Reading!Keys)  BY FS_Product DEF Reading!Keys
<1>2. Reading!Init => HistInv  BY InitHist
<1>3. HistInv /\ [Reading!Next]_(Reading!vars) => HistInv'  BY <1>1, StepHist
<1>4. HistInv => Complete
  <2> SUFFICES ASSUME HistInv, done, NEW k \in before PROVE k \in Reading!Range(got)
    BY DEF Complete, Reading!Complete
  <2>1. Has(k)  BY DEF HistInv, Left
  <2>2. DOMAIN got = 1..Len(got)  BY DEF HistInv
  <2> QED  BY <2>1, <2>2 DEF Has, In, Reading!Range
<1> QED  BY <1>2, <1>3, <1>4, PTL DEF Reading!Spec

-----------------------------------------------------------------------------
(* History: type correctness *)

\* Only messages of the conversation have been read, and the cursor is the end of them.
ReadTyped ==
  /\ HistInv /\ done \in BOOLEAN /\ got \in Seq(saved)
  /\ got # <<>> /\ ~done => cursor = IF reader = "pages" THEN Head(got) ELSE Reading!Last(got)

LEMMA EndsOfJoined ==
  ASSUME NEW T, NEW s \in Seq(T), NEW t \in Seq(T)
  PROVE  /\ s # <<>> => Head(Reading!Reverse(s) \o t) = Reading!Last(s)
         /\ t # <<>> => Reading!Last(s \o t) = Reading!Last(t)
<1>1. ASSUME s # <<>> PROVE Head(Reading!Reverse(s) \o t) = Reading!Last(s)
  <2>1. Len(s) \in Nat /\ Len(s) > 0  BY <1>1
  <2>2. PICK r : r = Reading!Reverse(s)  OBVIOUS
  <2>3. r = [i \in 1..Len(s) |-> s[(Len(s) - i) + 1]]  BY <2>2 DEF Reading!Reverse
  <2>4. r \in Seq(T) /\ Len(r) = Len(s) /\ r[1] = s[Len(s)]
    <3>1. \A i \in 1..Len(s) : s[(Len(s) - i) + 1] \in T  BY <2>1
    <3> QED  BY <2>1, <2>3, <3>1
  <2>5. PICK j : j = r \o t  OBVIOUS
  <2>6. j \in Seq(T) /\ Len(j) > 0 /\ j[1] = r[1]  BY <2>1, <2>4, <2>5, ConcatProperties
  <2>7. Head(j) = j[1]  BY <2>6
  <2> QED  BY <2>2, <2>4, <2>5, <2>6, <2>7 DEF Reading!Last
<1>2. ASSUME t # <<>> PROVE Reading!Last(s \o t) = Reading!Last(t)
  <2>1. Len(t) \in Nat /\ Len(t) > 0 /\ Len(s) \in Nat  BY <1>2
  <2>2. PICK j : j = s \o t  OBVIOUS
  <2>3. Len(j) = Len(s) + Len(t) /\ j[Len(s) + Len(t)] = t[Len(t)]  BY <2>1, <2>2, ConcatProperties
  <2> QED  BY <2>2, <2>3 DEF Reading!Last
<1> QED  BY <1>1, <1>2

LEMMA InitRead == ASSUME Reading!Init PROVE ReadTyped
<1>1. HistInv  BY InitHist
<1>2. got = <<>> /\ got \in Seq(saved)  BY DEF Reading!Init
<1>3. done \in BOOLEAN  BY Zenon DEF Reading!Init
<1> QED  BY <1>1, <1>2, <1>3 DEF ReadTyped

LEMMA NextPageRead == ASSUME IsFiniteSet(Reading!Keys), ReadTyped, Reading!NextPage PROVE ReadTyped'
<1> DEFINE S == {k \in saved : Reading!PastCursor(k, cursor)}
<1>1. HistInv /\ HistInv'  BY NextPageHist DEF ReadTyped
<1>2. PICK q, found, page :
        q = Reading!NewestFirst(S) /\ found = Reading!Upto(q, Limit + 1) /\ page = Reading!Upto(found, Limit)
  OBVIOUS
<1>3. S \subseteq Reading!Keys /\ OwnIds(S) /\ IsFiniteSet(S)
  BY <1>1, FS_Subset DEF HistInv, OwnIds
<1>4. /\ got' = Reading!Reverse(page) \o got
      /\ done' = ~(Len(found) > Limit)
      /\ cursor' = IF Len(found) > Limit THEN Reading!Last(page) ELSE cursor
      /\ reader = "pages" /\ reader' = reader /\ saved' = saved
  BY <1>2 DEF Reading!NextPage, Reading!Oldest, Reading!Rows
<1>5. S \subseteq saved  OBVIOUS
<1> HIDE DEF S
<1>6. q \in Seq(saved)
  <2>1. q \in Seq(S)  BY <1>2, <1>3, ListedNewest
  <2> QED  BY <1>5, <2>1
<1>7. Limit \in Nat /\ Limit > 0  BY Reading!HistoryAssumption DEF Reading!HistoryAssumption
<1>8. found \in Seq(saved)  BY <1>2, <1>6, <1>7, FirstOnes
<1>9. page \in Seq(saved) /\ Len(page) = (IF Limit < Len(found) THEN Limit ELSE Len(found))
  BY <1>2, <1>7, <1>8, FirstOnes
<1>10. got \in Seq(saved)  BY DEF ReadTyped
<1>11. got' \in Seq(saved')
  <2>1. PICK r : r = Reading!Reverse(page)  OBVIOUS
  <2>2. r \in Seq(saved)  BY <1>9, <2>1, ReversedHas
  <2>3. r \o got \in Seq(saved)  BY <1>10, <2>2, JoinedHas
  <2> QED  BY <1>4, <2>1, <2>3, Zenon
<1>12. ASSUME ~done' PROVE cursor' = Head(got')
  <2>1. Len(found) > Limit  BY <1>4, <1>12
  <2>2. page # <<>>  BY <1>7, <1>8, <1>9, <2>1
  <2>3. Head(Reading!Reverse(page) \o got) = Reading!Last(page)  BY <1>9, <1>10, <2>2, EndsOfJoined
  <2> QED  BY <1>4, <2>1, <2>3, Zenon
<1>13. done' \in BOOLEAN  BY <1>4, Zenon
<1> QED  BY <1>1, <1>4, <1>11, <1>12, <1>13, Zenon DEF ReadTyped

LEMMA NextBatchRead == ASSUME IsFiniteSet(Reading!Keys), ReadTyped, Reading!NextBatch PROVE ReadTyped'
<1> DEFINE S == {k \in saved : Reading!Ahead(k, cursor)}
<1>1. HistInv /\ HistInv'  BY NextBatchHist DEF ReadTyped
<1>2. PICK q, found : q = Reading!OldestFirst(S) /\ found = Reading!Upto(q, Batch)  OBVIOUS
<1>3. S \subseteq Reading!Keys /\ OwnIds(S) /\ IsFiniteSet(S)
  BY <1>1, FS_Subset DEF HistInv, OwnIds
<1>4. /\ got' = got \o found
      /\ done' = (found = <<>>)
      /\ cursor' = IF found = <<>> THEN cursor ELSE Reading!Last(found)
      /\ reader = "export" /\ reader' = reader /\ saved' = saved
  BY <1>2 DEF Reading!NextBatch
<1>5. S \subseteq saved  OBVIOUS
<1> HIDE DEF S
<1>6. q \in Seq(saved)
  <2>1. q \in Seq(S)  BY <1>2, <1>3, ListedOldest
  <2> QED  BY <1>5, <2>1
<1>7. Batch \in Nat  BY Reading!HistoryAssumption DEF Reading!HistoryAssumption
<1>8. found \in Seq(saved)  BY <1>2, <1>6, <1>7, FirstOnes
<1>9. got \in Seq(saved)  BY DEF ReadTyped
<1>10. got \o found \in Seq(saved)  BY <1>8, <1>9, JoinedHas
<1>11. ASSUME ~done' PROVE cursor' = Reading!Last(got')
  <2>1. found # <<>>  BY <1>4, <1>11
  <2>2. Reading!Last(got \o found) = Reading!Last(found)  BY <1>8, <1>9, <2>1, EndsOfJoined
  <2> QED  BY <1>4, <2>1, <2>2, Zenon
<1>12. done' \in BOOLEAN  BY <1>4, Zenon
<1>13. reader' # "pages"  BY <1>4
<1> QED
  <2>1. got' \in Seq(saved')  BY <1>4, <1>10, Zenon
  <2>2. (got # <<>> /\ ~done => cursor = IF reader = "pages" THEN Head(got) ELSE Reading!Last(got))'
    BY <1>11, <1>13, Zenon
  <2> QED  BY <1>1, <1>12, <2>1, <2>2, Zenon DEF ReadTyped

LEMMA StepRead == ASSUME IsFiniteSet(Reading!Keys), ReadTyped, [Reading!Next]_(Reading!vars) PROVE ReadTyped'
<1>1. HistInv'  BY StepHist DEF ReadTyped
<1>2. ASSUME saved \subseteq saved', UNCHANGED <<got, done, cursor, reader>> PROVE ReadTyped'
  <2>1. got' \in Seq(saved')
    <3>1. got \in Seq(saved)  BY DEF ReadTyped
    <3> QED  BY <1>2, <3>1
  <2> QED  BY <1>1, <1>2, <2>1, Zenon DEF ReadTyped
<1>3. CASE UNCHANGED Reading!vars
  <2>1. saved' = saved /\ UNCHANGED <<got, done, cursor, reader>>  BY <1>3 DEF Reading!vars
  <2> QED  BY <1>2, <2>1
<1>4. ASSUME NEW k \in Reading!Keys, Reading!Save(k) PROVE ReadTyped'
  <2>1. saved \subseteq saved' /\ UNCHANGED <<got, done, cursor, reader>>  BY <1>4 DEF Reading!Save
  <2> QED  BY <1>2, <2>1
<1> QED  BY <1>3, <1>4, NextPageRead, NextBatchRead, Zenon DEF Reading!Next

\* In every state of a history reader, what it has are messages of the conversation, and until the
\* end the cursor is the message it will go on from: the oldest of a screen, the last row of a file.
THEOREM ReadingTyped ==
  ASSUME IsFiniteSet(Stamps), IsFiniteSet(Ids) PROVE Reading!Spec => []Reading!TypeOK
<1>1. IsFiniteSet(Reading!Keys)  BY FS_Product DEF Reading!Keys
<1>2. Reading!Init => ReadTyped  BY InitRead
<1>3. ReadTyped /\ [Reading!Next]_(Reading!vars) => ReadTyped'  BY <1>1, StepRead
<1>4. ReadTyped => Reading!TypeOK  BY Zenon DEF ReadTyped, HistInv, Reading!TypeOK
<1> QED  BY <1>2, <1>3, <1>4, PTL DEF Reading!Spec

-----------------------------------------------------------------------------
(* Analytics: days begin at whole slots *)

LEMMA Times ==
  ASSUME NEW n \in Nat, NEW a \in Int, NEW b \in Int, a <= b PROVE n * a <= n * b
<1>1. b - a \in Nat  OBVIOUS
<1>2. n * (b - a) >= 0  BY <1>1
<1>3. n * (b - a) = n * b - n * a  OBVIOUS
<1>4. n * a \in Int /\ n * b \in Int  OBVIOUS
<1> QED  BY <1>2, <1>3, <1>4

\* No multiple of n lies between an instant and the beginning of its slot.
LEMMA NoSeam ==
  ASSUME NEW n \in Nat \ {0}, NEW t \in Nat, NEW q \in Int
  PROVE  n * q <= t <=> n * q <= (t \div n) * n
<1> DEFINE c == t \div n
<1>1. c \in Nat /\ t = n * c + (t % n) /\ t % n \in 0..(n - 1)  OBVIOUS
<1> HIDE DEF c
<1>2. n * c \in Nat /\ c * n = n * c /\ n * c <= t /\ n * q \in Int  BY <1>1
<1>3. CASE q <= c
  <2>1. n * q <= n * c  BY <1>1, <1>3, Times
  <2> QED  BY <1>2, <2>1 DEF c
<1>4. CASE c + 1 <= q
  <2>1. n * (c + 1) <= n * q  BY <1>1, <1>4, Times
  <2>2. n * (c + 1) = n * c + n  BY <1>1
  <2>3. t < n * c + n  BY <1>1, <1>2
  <2>4. n * c < n * q /\ t < n * q  BY <1>2, <2>1, <2>2, <2>3
  <2> QED  BY <1>2, <2>4 DEF c
<1>5. q <= c \/ c + 1 <= q  BY <1>1
<1> QED  BY <1>3, <1>4, <1>5, Zenon

LEMMA Whole ==
  ASSUME NEW n \in Nat \ {0}, NEW a \in Int, a % n = 0
  PROVE  a \div n \in Int /\ a = n * (a \div n)
OBVIOUS

LEMMA DayConstants ==
  /\ SlotLength \in Nat \ {0} /\ DayLength \in Nat \ {0} /\ DaysAsked \in Nat \ {0}
  /\ Horizon \in Nat \ {0} /\ ChangeDay \in Nat
  /\ \A h \in Changes : h \in Int /\ -DayLength < h /\ h < DayLength /\ h % SlotLength = 0
  /\ DayLength % SlotLength = 0
BY Daily!AnalyticsAssumption DEF Daily!AnalyticsAssumption

LEMMA ZoneParts ==
  ASSUME NEW z \in Daily!Zones
  PROVE  /\ z.change \in Int /\ -DayLength < z.change /\ z.change < DayLength
         /\ \E j \in Int : z.change = SlotLength * j
         /\ \E i \in Int : z.offset = SlotLength * i
         /\ z.offset \in Nat /\ z.offset < DayLength
<1> USE DayConstants
<1>1. z.change \in Changes  BY DEF Daily!Zones
<1>2. PICK i \in 0..(DayLength \div SlotLength - 1) : z.offset = SlotLength * i
  BY DEF Daily!Zones
<1>3. z.change \div SlotLength \in Int /\ z.change = SlotLength * (z.change \div SlotLength)
  BY <1>1, Whole
<1>4. DayLength \div SlotLength \in Int /\ DayLength = SlotLength * (DayLength \div SlotLength)
  BY Whole
<1>5. i \in Int /\ i + 1 <= DayLength \div SlotLength /\ 0 <= i  BY <1>2, <1>4
<1>6. SlotLength * (i + 1) <= DayLength  BY <1>4, <1>5, Times
<1>7. SlotLength * (i + 1) = SlotLength * i + SlotLength /\ SlotLength * i \in Nat  BY <1>5
<1> QED  BY <1>1, <1>2, <1>3, <1>5, <1>6, <1>7

LEMMA WholeSlots ==
  ASSUME NEW z \in Daily!Zones, NEW d \in Nat
  PROVE  \E q \in Int : Daily!Begins(z, d) = SlotLength * q
<1> USE DayConstants
<1>1. PICK i \in Int : z.offset = SlotLength * i  BY ZoneParts
<1>2. PICK j \in Int : z.change = SlotLength * j  BY ZoneParts
<1>3. DayLength \div SlotLength \in Int /\ DayLength = SlotLength * (DayLength \div SlotLength)
  BY Whole
<1>4. PICK k \in Int : DayLength = SlotLength * k  BY <1>3
<1>5. PICK m \in Int : m = (d - 1) * k  BY <1>4
<1>6. (d - 1) * DayLength = SlotLength * m  BY <1>4, <1>5
<1>7. Daily!Begins(z, d) = SlotLength * i + SlotLength * m + (IF d > ChangeDay THEN SlotLength * j ELSE 0)
  BY <1>1, <1>2, <1>5, <1>6 DEF Daily!Begins
<1>8. CASE d > ChangeDay
  <2>1. Daily!Begins(z, d) = SlotLength * (i + m + j)  BY <1>7, <1>8
  <2> QED  BY <2>1
<1>9. CASE ~(d > ChangeDay)
  <2>1. Daily!Begins(z, d) = SlotLength * (i + m)  BY <1>7, <1>9
  <2> QED  BY <2>1
<1> QED  BY <1>8, <1>9

\* t is on day d.
On(z, t, d) == Daily!Begins(z, d) <= t /\ t < Daily!Begins(z, d + 1)

LEMMA SlotOn ==
  ASSUME NEW z \in Daily!Zones, NEW t \in Nat, NEW d \in Nat
  PROVE  On(z, Daily!SlotOf(t) * SlotLength, d) <=> On(z, t, d)
<1> USE DayConstants
<1>1. PICK q \in Int : Daily!Begins(z, d) = SlotLength * q  BY WholeSlots
<1>2. d + 1 \in Nat  OBVIOUS
<1>3. PICK r \in Int : Daily!Begins(z, d + 1) = SlotLength * r  BY <1>2, WholeSlots
<1>4. SlotLength * q <= t <=> SlotLength * q <= (t \div SlotLength) * SlotLength  BY NoSeam
<1>5. SlotLength * r <= t <=> SlotLength * r <= (t \div SlotLength) * SlotLength  BY NoSeam
<1>6. PICK b \in Int : b = SlotLength * q  OBVIOUS
<1>7. PICK e \in Int : e = SlotLength * r  OBVIOUS
<1>8. PICK s \in Int : s = (t \div SlotLength) * SlotLength  OBVIOUS
<1>9. (b <= t <=> b <= s) /\ (e <= t <=> e <= s)  BY <1>4, <1>5, <1>6, <1>7, <1>8
<1>10. b <= t /\ t < e <=> b <= s /\ s < e  BY <1>6, <1>7, <1>8, <1>9
<1>11. Daily!Begins(z, d) = b /\ Daily!Begins(z, d + 1) = e /\ Daily!SlotOf(t) * SlotLength = s
  BY <1>1, <1>3, <1>6, <1>7, <1>8 DEF Daily!SlotOf
<1> HIDE DayConstants
<1> QED  BY <1>10, <1>11, Zenon DEF On

LEMMA SameDay ==
  ASSUME NEW z \in Daily!Zones, NEW t \in Nat
  PROVE  Daily!DayOf(z, Daily!SlotOf(t) * SlotLength) = Daily!DayOf(z, t)
<1> DEFINE D == 0..(Horizon \div DayLength + 3)
           s == Daily!SlotOf(t) * SlotLength
<1>1. D \subseteq Nat  OBVIOUS
<1>2. \A d \in D : On(z, s, d) <=> On(z, t, d)  BY <1>1, SlotOn
<1> HIDE DEF D, s
<1>3. (CHOOSE d \in D : On(z, s, d)) = (CHOOSE d \in D : On(z, t, d))  BY <1>2
<1> QED  BY <1>3 DEF Daily!DayOf, On, D, s

\* Every instant up to the horizon is on the day that DayOf finds.
LEMMA DayFound ==
  ASSUME NEW z \in Daily!Zones, NEW t \in Daily!Instants
  PROVE  Daily!DayOf(z, t) \in Nat /\ On(z, t, Daily!DayOf(z, t))
<1> DEFINE last == Horizon \div DayLength + 3
           D == 0..last
           Later == {d \in Nat : t < Daily!Begins(z, d + 1)}
<1> USE DayConstants
<1>1. z.change \in Int /\ -DayLength < z.change /\ z.offset \in Nat /\ z.offset < DayLength
  BY ZoneParts
<1>2. t \in Nat /\ t <= Horizon  BY DEF Daily!Instants
<1>3. last \in Nat /\ last \in Later
  <2>1. PICK n \in Nat : n = Horizon \div DayLength  OBVIOUS
  <2>2. Horizon < (n + 1) * DayLength  BY <2>1
  <2>3. Daily!Begins(z, last + 1) =
          z.offset + (n + 3) * DayLength + (IF last + 1 > ChangeDay THEN z.change ELSE 0)
    BY <2>1 DEF Daily!Begins
  <2>4. PICK m \in Int : m = (n + 1) * DayLength  OBVIOUS
  <2>5. (n + 3) * DayLength = m + DayLength + DayLength  BY <2>4
  <2>6. t < Daily!Begins(z, last + 1)  BY <1>1, <1>2, <2>2, <2>3, <2>4, <2>5
  <2> QED  BY <2>1, <2>6
<1> HIDE DEF last
<1>4. PICK d \in Later : \A e \in Later : d <= e
  <2>1. Later \subseteq Nat /\ Later # {}  BY <1>3
  <2> HIDE DEF Later
  <2> QED  BY <2>1, LeastOf
<1>5. d \in D  BY <1>3, <1>4
<1>6. Daily!Begins(z, d) <= t
  <2>1. CASE d = 0
    <3>1. Daily!Begins(z, d) = z.offset - DayLength  BY <1>1, <2>1 DEF Daily!Begins
    <3> QED  BY <1>1, <1>2, <3>1
  <2>2. CASE d # 0
    <3>1. d - 1 \in Nat /\ d - 1 \notin Later  BY <1>4, <2>2
    <3>2. ~(t < Daily!Begins(z, d))  BY <3>1
    <3>3. Daily!Begins(z, d) \in Int  BY <1>1, <1>4 DEF Daily!Begins
    <3> QED  BY <1>2, <3>2, <3>3
  <2> QED  BY <2>1, <2>2
<1>7. On(z, t, d)  BY <1>4, <1>6 DEF On
<1>8. Daily!DayOf(z, t) = CHOOSE e \in D : On(z, t, e)  BY DEF Daily!DayOf, On, last
<1> HIDE DEF D
<1>9. Daily!DayOf(z, t) \in D /\ On(z, t, Daily!DayOf(z, t))  BY <1>5, <1>7, <1>8
<1> QED  BY <1>9 DEF D

\* A day is shorter than two, with a change of the clocks, too.
LEMMA ShortDay ==
  ASSUME NEW z \in Daily!Zones, NEW d \in Nat
  PROVE  Daily!Begins(z, d) \in Int /\ Daily!Begins(z, d + 1) < Daily!Begins(z, d) + 2 * DayLength
<1> USE DayConstants
<1>1. /\ z.change \in Int /\ -DayLength < z.change /\ z.change < DayLength /\ z.offset \in Nat
  BY ZoneParts
<1>2. PICK m \in Int : m = (d - 1) * DayLength  OBVIOUS
<1>3. (d + 1) - 1 = d /\ d * DayLength = m + DayLength  BY <1>2
<1>4. Daily!Begins(z, d) = z.offset + m + (IF d > ChangeDay THEN z.change ELSE 0)
  BY <1>2 DEF Daily!Begins
<1>5. Daily!Begins(z, d + 1) = z.offset + m + DayLength + (IF d + 1 > ChangeDay THEN z.change ELSE 0)
  <2>1. Daily!Begins(z, d + 1) =
          z.offset + ((d + 1) - 1) * DayLength + (IF d + 1 > ChangeDay THEN z.change ELSE 0)
    BY DEF Daily!Begins
  <2>2. ((d + 1) - 1) * DayLength = m + DayLength  BY <1>3
  <2> QED  BY <1>1, <1>2, <2>1, <2>2
<1> QED  BY <1>1, <1>2, <1>4, <1>5

LEMMA NotSameDay ==
  ASSUME NEW z \in Daily!Zones, NEW t \in Daily!Instants, NEW u \in Daily!Instants,
         t + 2 * DayLength < u
  PROVE  Daily!DayOf(z, t) # Daily!DayOf(z, u)
<1>1. PICK d : d = Daily!DayOf(z, t)  OBVIOUS
<1>2. d \in Nat /\ On(z, t, d)  BY <1>1, DayFound
<1>3. t \in Int /\ u \in Int /\ DayLength \in Int  BY DayConstants DEF Daily!Instants
<1>4. Daily!Begins(z, d) \in Int /\ Daily!Begins(z, d + 1) \in Int
  BY <1>2, ShortDay
<1>5. ~(u < Daily!Begins(z, d + 1))  BY <1>2, <1>3, <1>4, ShortDay DEF On
<1>6. ~On(z, u, d)  BY <1>5 DEF On
<1> QED  BY <1>1, <1>6, DayFound

-----------------------------------------------------------------------------
(* Analytics: the window covers the days of the report *)

DayInv ==
  /\ zone \in Daily!Zones /\ messages \in Seq(Daily!Instants)
  /\ now \in Daily!Instants /\ now >= (2 * DaysAsked + 1) * DayLength
  /\ DaysCountedRight

LEMMA LabelInstant ==
  ASSUME DayInv, NEW i \in 1..(2 * DaysAsked)
  PROVE  Daily!LabelAt(i) \in Daily!Instants /\ Daily!Since + 2 * DayLength <= Daily!LabelAt(i)
         /\ Daily!Since \in Int
<1> USE DayConstants
<1>1. PICK m \in Int : m = (2 * DaysAsked + 1) * DayLength  OBVIOUS
<1>2. PICK k \in Int : k = (2 * DaysAsked - i) * DayLength  OBVIOUS
<1>3. 2 * DaysAsked - i >= 0  OBVIOUS
<1>4. 0 <= k  BY <1>2, <1>3
<1>5. k + 2 * DayLength <= m
  <2>1. DayLength * (2 * DaysAsked - i) <= DayLength * (2 * DaysAsked - 1)  BY Times
  <2>2. DayLength * (2 * DaysAsked - i) = k  BY <1>2
  <2>3. DayLength * (2 * DaysAsked - 1) = m - 2 * DayLength  BY <1>1
  <2> QED  BY <1>1, <1>2, <2>1, <2>2, <2>3
<1>6. now \in Nat /\ now <= Horizon /\ now >= m  BY <1>1 DEF DayInv, Daily!Instants
<1>7. Daily!LabelAt(i) = now - k /\ Daily!Since = now - m  BY <1>1, <1>2 DEF Daily!LabelAt, Daily!Since
<1> QED  BY <1>1, <1>2, <1>4, <1>5, <1>6, <1>7 DEF Daily!Instants

LEMMA CountedRight ==
  ASSUME DayInv, NEW i \in 1..(2 * DaysAsked)
  PROVE  Daily!CountOf(Daily!Labels[i]) = Daily!InDay(Daily!Labels[i])
<1>1. PICK d : d = Daily!DayOf(zone, Daily!LabelAt(i))  OBVIOUS
<1>2. Daily!Labels[i] = d  BY <1>1 DEF Daily!Labels
<1>3. \A j \in DOMAIN messages : messages[j] \in Daily!Instants  BY DEF DayInv
<1>4. ASSUME NEW j \in DOMAIN messages
      PROVE  Daily!DayOf(zone, Daily!SlotOf(messages[j]) * SlotLength) = Daily!DayOf(zone, messages[j])
  BY <1>3, SameDay DEF DayInv, Daily!Instants
<1>5. ASSUME NEW j \in DOMAIN messages, Daily!DayOf(zone, messages[j]) = d
      PROVE  messages[j] >= Daily!Since
  <2> SUFFICES ASSUME ~(messages[j] >= Daily!Since) PROVE FALSE  OBVIOUS
  <2>1. messages[j] \in Int /\ DayLength \in Int  BY <1>3, DayConstants DEF Daily!Instants
  <2>2. messages[j] + 2 * DayLength < Daily!LabelAt(i)  BY <2>1, LabelInstant DEF Daily!Instants
  <2> QED  BY <1>1, <1>3, <1>5, <2>2, LabelInstant, NotSameDay DEF DayInv
<1>6. {j \in Daily!Found : Daily!DayOf(zone, Daily!SlotOf(messages[j]) * SlotLength) = d}
        = {j \in DOMAIN messages : Daily!DayOf(zone, messages[j]) = d}
  BY <1>4, <1>5 DEF Daily!Found
<1> QED  BY <1>2, <1>6 DEF Daily!CountOf, Daily!InDay
LEMMA DayInvInductive ==
  /\ Daily!Init => DayInv
  /\ DayInv /\ [Daily!Next]_(Daily!vars) => DayInv'
<1>1. Daily!Init => DayInv
  BY DEF Daily!Init, DayInv, DaysCountedRight, Daily!DaysCountedRight
<1>2. ASSUME DayInv, NEW t \in Daily!Instants, Daily!Save(t) PROVE DayInv'
  <2>1. messages' = Append(messages, t) /\ UNCHANGED <<zone, now, report>> /\ report = <<>>
    BY <1>2 DEF Daily!Save
  <2>2. messages' \in Seq(Daily!Instants)  BY <1>2, <2>1 DEF DayInv
  <2>3. DaysCountedRight'  BY <2>1 DEF DaysCountedRight, Daily!DaysCountedRight
  <2> QED  BY <1>2, <2>1, <2>2, <2>3 DEF DayInv
<1>3. ASSUME DayInv, Daily!Compute PROVE DayInv'
  <2>1. UNCHANGED <<zone, now, messages>>  BY <1>3 DEF Daily!Compute
  <2>2. PICK labels : labels = Daily!Labels  OBVIOUS
  <2>3. DOMAIN labels = 1..(2 * DaysAsked)  BY <2>2 DEF Daily!Labels
  <2>4. PICK daily : daily = [i \in DOMAIN labels |-> Daily!CountOf(labels[i])]  OBVIOUS
  <2>5. report' = <<[labels |-> labels, daily |-> daily, total |-> Daily!Total(daily)]>>
    BY <1>3, <2>2, <2>4 DEF Daily!Compute
  <2>6. report'[1].labels = labels /\ report'[1].daily = daily  BY <2>5
  <2>7. \A i \in DOMAIN labels : daily[i] = Daily!InDay(labels[i])
    BY <1>3, <2>2, <2>3, <2>4, CountedRight
  <2>8. \A d : Daily!InDay(d)' = Daily!InDay(d)
    BY <2>1 DEF Daily!InDay, Daily!DayOf, Daily!Begins
  <2>9. DaysCountedRight'  BY <2>6, <2>7, <2>8 DEF DaysCountedRight, Daily!DaysCountedRight
  <2> QED  BY <1>3, <2>1, <2>9 DEF DayInv
<1>4. ASSUME DayInv, UNCHANGED Daily!vars PROVE DayInv'
  <2>1. UNCHANGED <<zone, now, messages, report>>  BY <1>4 DEF Daily!vars
  <2>2. \A d : Daily!InDay(d)' = Daily!InDay(d)
    BY <2>1 DEF Daily!InDay, Daily!DayOf, Daily!Begins
  <2>3. DaysCountedRight'
    BY <1>4, <2>1, <2>2 DEF DayInv, DaysCountedRight, Daily!DaysCountedRight
  <2> QED  BY <1>4, <2>1, <2>3 DEF DayInv
<1> QED  BY <1>1, <1>2, <1>3, <1>4, Zenon DEF Daily!Next

\* Every day of the report holds the messages of that calendar day, in any zone whose offset and
\* change of the clocks are whole slots (analytics.service.ts): no slot reaches over midnight, and
\* the window that is read begins two days before the oldest instant labelled, longer than any day
\* with a change of the clocks.
THEOREM EveryDayCounted == Daily!Spec => []DaysCountedRight
<1>1. DayInv => DaysCountedRight  BY DEF DayInv
<1> QED  BY <1>1, DayInvInductive, PTL DEF Daily!Spec

-----------------------------------------------------------------------------
(* Metrics: sums over minutes *)

Cells(f, S) == {p \in S \X (1..(MaxMessages + MaxFaults)) : p[2] <= f[p[1]]}

LEMMA CounterConstants ==
  /\ SeriesLength \in Nat \ {0} /\ MinutesPerDay \in Nat \ {0}
  /\ MaxMinute \in Nat /\ MaxMessages \in Nat /\ MaxFaults \in Nat
BY Counters!MetricsAssumption DEF Counters!MetricsAssumption

LEMMA TotalCells == \A f, S : Counters!Total(f, S) = Cardinality(Cells(f, S))
BY DEF Counters!Total, Counters!Cardinality, Cardinality, Cells

LEMMA CellsFinite ==
  ASSUME NEW S \in SUBSET Counters!Minutes, NEW f
  PROVE  IsFiniteSet(Cells(f, S)) /\ Counters!Total(f, S) \in Nat
<1>1. IsFiniteSet(Counters!Minutes)  BY CounterConstants, FS_Interval DEF Counters!Minutes
<1>2. IsFiniteSet(S) /\ IsFiniteSet(1..(MaxMessages + MaxFaults))
  BY <1>1, CounterConstants, FS_Subset, FS_Interval
<1>3. IsFiniteSet(S \X (1..(MaxMessages + MaxFaults)))  BY <1>2, FS_Product
<1>4. Cells(f, S) \subseteq S \X (1..(MaxMessages + MaxFaults))  BY DEF Cells
<1>5. IsFiniteSet(Cells(f, S))  BY <1>3, <1>4, FS_Subset
<1> QED  BY <1>5, FS_CardinalityType, TotalCells

LEMMA TotalGrows ==
  ASSUME NEW S \in SUBSET Counters!Minutes,
         NEW f \in [Counters!Minutes -> Nat], NEW g \in [Counters!Minutes -> Nat],
         \A m \in S : f[m] <= g[m]
  PROVE  Counters!Total(f, S) <= Counters!Total(g, S)
<1>1. Cells(f, S) \subseteq Cells(g, S)
  <2> SUFFICES ASSUME NEW p \in S \X (1..(MaxMessages + MaxFaults)), p[2] <= f[p[1]] PROVE p[2] <= g[p[1]]
    BY DEF Cells
  <2>1. p[1] \in S /\ p[1] \in Counters!Minutes /\ p[2] \in Nat  OBVIOUS
  <2>2. f[p[1]] <= g[p[1]] /\ f[p[1]] \in Nat /\ g[p[1]] \in Nat  BY <2>1
  <2> QED  BY <2>1, <2>2
<1> QED  BY <1>1, CellsFinite, FS_Subset, TotalCells

LEMMA TotalCounts ==
  ASSUME NEW S \in SUBSET Counters!Minutes, NEW m \in S,
         NEW f \in [Counters!Minutes -> Counters!Messages], f[m] < MaxMessages
  PROVE  Counters!Total([f EXCEPT ![m] = @ + 1], S) = Counters!Total(f, S) + 1
<1>1. PICK g : g = [f EXCEPT ![m] = @ + 1]  OBVIOUS
<1>2. m \in Counters!Minutes /\ f[m] \in Nat /\ f[m] + 1 \in 1..(MaxMessages + MaxFaults)
  BY CounterConstants DEF Counters!Messages
<1>3. g[m] = f[m] + 1 /\ \A n \in S : n # m => g[n] = f[n]  BY <1>1, <1>2
<1>4. Cells(g, S) = Cells(f, S) \cup {<<m, f[m] + 1>>}
  <2>1. ASSUME NEW p \in S \X (1..(MaxMessages + MaxFaults))
        PROVE  p[2] <= g[p[1]] <=> p[2] <= f[p[1]] \/ p = <<m, f[m] + 1>>
    <3>1. p = <<p[1], p[2]>> /\ p[1] \in S /\ p[2] \in Nat  OBVIOUS
    <3>2. CASE p[1] = m
      <4>1. p[2] <= f[m] + 1 <=> p[2] <= f[m] \/ p[2] = f[m] + 1  BY <1>2, <3>1
      <4> QED  BY <1>3, <3>1, <3>2, <4>1
    <3>3. CASE p[1] # m  BY <1>3, <3>1, <3>3
    <3> QED  BY <3>2, <3>3
  <2>2. <<m, f[m] + 1>> \in S \X (1..(MaxMessages + MaxFaults))  BY <1>2
  <2> QED  BY <2>1, <2>2 DEF Cells
<1>5. <<m, f[m] + 1>> \notin Cells(f, S)  BY <1>2 DEF Cells
<1>6. Cardinality(Cells(g, S)) = Cardinality(Cells(f, S)) + 1
  BY <1>4, <1>5, CellsFinite, FS_AddElement
<1> QED  BY <1>1, <1>6, TotalCells

LEMMA TotalOfOne ==
  ASSUME NEW S \in SUBSET Counters!Minutes, NEW m \in S,
         NEW f \in [Counters!Minutes -> Counters!Messages], Counters!Total(f, S) < MaxMessages
  PROVE  f[m] < MaxMessages
<1> SUFFICES ASSUME f[m] = MaxMessages PROVE FALSE
  BY CounterConstants DEF Counters!Messages
<1> DEFINE h == [i \in 1..MaxMessages |-> <<m, i>>]
<1>1. MaxMessages \in Nat /\ IsFiniteSet(1..MaxMessages) /\ Cardinality(1..MaxMessages) = MaxMessages
  BY CounterConstants, FS_Interval
<1>2. \A i \in 1..MaxMessages : <<m, i>> \in Cells(f, S)  BY <1>1, CounterConstants DEF Cells
<1>3. h \in Injection(1..MaxMessages, Cells(f, S))  BY <1>2 DEF Injection, IsInjective
<1> HIDE DEF h
<1>4. MaxMessages <= Cardinality(Cells(f, S))  BY <1>1, <1>3, CellsFinite, FS_Injection
<1> QED  BY <1>1, <1>4, CellsFinite, TotalCells

-----------------------------------------------------------------------------
(* Metrics: nothing is read that no INCR stands for *)

RoundType ==
  [at : {"idle", "tick", "ack"}, minute : Counters!Minutes, series : Seq(Nat), today : Seq(Nat)]

\* How often an INCR of a minute, of a day, may count.
Ran == [m \in Counters!Minutes |-> recorded[m] + twiceOfMinute[m]]
RanOn(d) == Counters!Total(recorded, Counters!MinutesOf(d)) + twiceOfDay[d]

SeriesFits(s, m) ==
  s # <<>> => \E a, b \in Nat : /\ s = <<a, b>> /\ a <= Ran[m]
                                /\ b <= Counters!Total(Ran, Counters!Labels(m))
TodayFits(t, m) == t # <<>> => \E c \in Nat : t = <<c>> /\ c <= RanOn(Counters!Day(m))
ShownFits ==
  \E m \in Counters!Minutes, a, b, c \in Nat :
    /\ shown[1] = m /\ shown[2] = a /\ shown[3] = b /\ shown[4] = c
    /\ a <= Ran[m] /\ b <= Counters!Total(Ran, Counters!Labels(m)) /\ c <= RanOn(Counters!Day(m))

Recorded ==
  /\ minute \in Counters!Minutes /\ recorded \in [Counters!Minutes -> Counters!Messages]
  /\ twiceOfMinute \in [Counters!Minutes -> Nat] /\ twiceOfDay \in [Counters!Days -> Nat]
MinutesFit ==
  /\ ofMinute \in [Counters!Minutes -> Nat] /\ lateMinute \in [Counters!Minutes -> Nat]
  /\ \A m \in Counters!Minutes : /\ twiceOfMinute[m] <= ofMinute[m]
                                 /\ ofMinute[m] + lateMinute[m] <= recorded[m] + twiceOfMinute[m]
DaysFit ==
  /\ ofDay \in [Counters!Days -> Nat] /\ lateDay \in [Counters!Days -> Nat]
  /\ \A d \in Counters!Days : twiceOfDay[d] <= ofDay[d] /\ ofDay[d] + lateDay[d] <= RanOn(d)
RoundsFit ==
  /\ round \in [Rounds -> RoundType]
  /\ \A r \in Rounds : /\ SeriesFits(round[r].series, round[r].minute)
                       /\ TodayFits(round[r].today, round[r].minute)

CountInv == Recorded /\ MinutesFit /\ DaysFit /\ RoundsFit /\ ShownFits

LEMMA SameRan ==
  ASSUME UNCHANGED <<recorded, twiceOfMinute, twiceOfDay>>
  PROVE  /\ Ran' = Ran /\ \A d : RanOn(d)' = RanOn(d)
         /\ \A s, t, m : /\ SeriesFits(s, m)' <=> SeriesFits(s, m)
                         /\ TodayFits(t, m)' <=> TodayFits(t, m)
         /\ UNCHANGED round => (RoundsFit' <=> RoundsFit)
         /\ UNCHANGED shown => (ShownFits' <=> ShownFits)
<1>1. Ran' = Ran /\ \A d : RanOn(d)' = RanOn(d)  BY DEF Ran, RanOn
<1>2. \A s, t, m : /\ SeriesFits(s, m)' <=> SeriesFits(s, m)
                   /\ TodayFits(t, m)' <=> TodayFits(t, m)
  BY <1>1 DEF SeriesFits, TodayFits
<1>3. UNCHANGED round => (RoundsFit' <=> RoundsFit)  BY <1>2 DEF RoundsFit
<1>4. UNCHANGED shown => (ShownFits' <=> ShownFits)  BY <1>1 DEF ShownFits
<1> QED  BY <1>1, <1>2, <1>3, <1>4

LEMMA RanTypes ==
  ASSUME Recorded
  PROVE  /\ Ran \in [Counters!Minutes -> Nat]
         /\ \A S \in SUBSET Counters!Minutes : Counters!Total(Ran, S) \in Nat
         /\ \A d \in Counters!Days : RanOn(d) \in Nat /\ RanOn(d)
                                    = Counters!Total(recorded, Counters!MinutesOf(d)) + twiceOfDay[d]
<1>1. Ran \in [Counters!Minutes -> Nat]  BY CounterConstants DEF Recorded, Ran, Counters!Messages
<1>2. \A S \in SUBSET Counters!Minutes : Counters!Total(Ran, S) \in Nat  BY CellsFinite
<1>3. \A d : Counters!Total(recorded, Counters!MinutesOf(d)) \in Nat
  BY CellsFinite DEF Counters!MinutesOf
<1> QED  BY <1>1, <1>2, <1>3 DEF Recorded, RanOn

LEMMA CounterSets ==
  ASSUME NEW m \in Counters!Minutes
  PROVE  /\ Counters!Day(m) \in Counters!Days /\ m \in Counters!MinutesOf(Counters!Day(m))
         /\ \A d : Counters!MinutesOf(d) \subseteq Counters!Minutes
         /\ Counters!Labels(m) \subseteq Counters!Minutes
<1>1. Counters!Day(m) \in Counters!Days
  <2>1. m \in Nat /\ MaxMinute \in Nat /\ m <= MaxMinute /\ MinutesPerDay \in Nat \ {0}
    BY CounterConstants DEF Counters!Minutes
  <2>2. PICK a, b \in Nat : a = m \div MinutesPerDay /\ b = MaxMinute \div MinutesPerDay  BY <2>1
  <2>3. a <= b
    <3>1. MinutesPerDay * a <= m /\ MaxMinute < MinutesPerDay * (b + 1)  BY <2>1, <2>2
    <3>2. CASE b + 1 <= a
      <4>1. MinutesPerDay * (b + 1) <= MinutesPerDay * a  BY <2>1, <3>2, Times
      <4>2. MinutesPerDay * (b + 1) \in Int /\ MinutesPerDay * a \in Int  BY <2>1
      <4> QED  BY <2>1, <3>1, <4>1, <4>2
    <3> QED  BY <3>2
  <2> QED  BY <2>2, <2>3 DEF Counters!Day, Counters!Days
<1> QED  BY <1>1 DEF Counters!MinutesOf, Counters!Labels

LEMMA InitCount == ASSUME Counters!Init PROVE CountInv
<1>1. 0 \in Counters!Minutes /\ 0 \in Counters!Messages
  BY CounterConstants DEF Counters!Minutes, Counters!Messages
<1>2. Recorded  BY <1>1 DEF Counters!Init, Recorded
<1>3. MinutesFit  BY DEF Counters!Init, MinutesFit
<1>4. DaysFit
  <2>1. \A d \in Counters!Days : RanOn(d) \in Nat  BY <1>2, RanTypes
  <2> QED  BY <2>1 DEF Counters!Init, DaysFit
<1>5. RoundsFit
  <2>1. Counters!Idle \in RoundType /\ Counters!Idle.series = <<>> /\ Counters!Idle.today = <<>>
    BY <1>1 DEF Counters!Idle, RoundType
  <2>2. \A r \in Rounds : round[r] = Counters!Idle  BY DEF Counters!Init
  <2>3. round \in [Rounds -> RoundType]  BY <2>1 DEF Counters!Init
  <2> QED  BY <2>1, <2>2, <2>3 DEF RoundsFit, SeriesFits, TodayFits
<1>6. ShownFits
  <2>1. /\ Ran[0] \in Nat /\ Counters!Total(Ran, Counters!Labels(0)) \in Nat
        /\ RanOn(Counters!Day(0)) \in Nat
    BY <1>1, <1>2, CounterSets, RanTypes
  <2>2. shown = <<0, 0, 0, 0>>  BY DEF Counters!Init
  <2>3. 0 <= Ran[0] /\ 0 <= Counters!Total(Ran, Counters!Labels(0)) /\ 0 <= RanOn(Counters!Day(0))
    BY <2>1
  <2> QED  BY <1>1, <2>2, <2>3 DEF ShownFits
<1> QED  BY <1>2, <1>3, <1>4, <1>5, <1>6 DEF CountInv

\* What was sent, also what was sent again, only grows, so what has been read stays below it.
LEMMA StillFits ==
  ASSUME CountInv, Recorded',
         \A m \in Counters!Minutes : /\ recorded[m] <= recorded'[m]
                                    /\ twiceOfMinute[m] <= twiceOfMinute'[m],
         \A d \in Counters!Days : twiceOfDay[d] <= twiceOfDay'[d]
  PROVE  /\ \A m \in Counters!Minutes : \A s, t : /\ SeriesFits(s, m) => SeriesFits(s, m)'
                                                /\ TodayFits(t, m) => TodayFits(t, m)'
         /\ UNCHANGED round => RoundsFit'
         /\ UNCHANGED shown => ShownFits'
         /\ \A d \in Counters!Days : RanOn(d) <= RanOn(d)'
<1>1. PICK old, new : old = Ran /\ new = Ran'  OBVIOUS
<1>2. old \in [Counters!Minutes -> Nat] /\ new \in [Counters!Minutes -> Nat]
  BY <1>1, CounterConstants DEF CountInv, Recorded, Ran, Counters!Messages
<1>3. \A m \in Counters!Minutes : old[m] <= new[m]
  <2> SUFFICES ASSUME NEW m \in Counters!Minutes PROVE old[m] <= new[m]  OBVIOUS
  <2>1. /\ recorded[m] \in Nat /\ recorded'[m] \in Nat
        /\ twiceOfMinute[m] \in Nat /\ twiceOfMinute'[m] \in Nat
    BY CounterConstants DEF CountInv, Recorded, Counters!Messages
  <2>2. old[m] = recorded[m] + twiceOfMinute[m] /\ new[m] = recorded'[m] + twiceOfMinute'[m]
    BY <1>1 DEF Ran
  <2> QED  BY <2>1, <2>2
<1>4. ASSUME NEW S \in SUBSET Counters!Minutes
      PROVE  /\ Counters!Total(old, S) \in Nat /\ Counters!Total(new, S) \in Nat
             /\ Counters!Total(old, S) <= Counters!Total(new, S)
  BY <1>2, <1>3, CellsFinite, TotalGrows
<1>5. ASSUME NEW d \in Counters!Days
      PROVE  RanOn(d) \in Nat /\ RanOn(d)' \in Nat /\ RanOn(d) <= RanOn(d)'
  <2>1. PICK f, g, S : f = recorded /\ g = recorded' /\ S = Counters!MinutesOf(d)  OBVIOUS
  <2>2. /\ f \in [Counters!Minutes -> Nat] /\ g \in [Counters!Minutes -> Nat]
        /\ \A m \in Counters!Minutes : f[m] <= g[m]
    BY <2>1, CounterConstants DEF CountInv, Recorded, Counters!Messages
  <2>3. S \in SUBSET Counters!Minutes  BY <2>1 DEF Counters!MinutesOf
  <2>4. /\ Counters!Total(f, S) \in Nat /\ Counters!Total(g, S) \in Nat
        /\ Counters!Total(f, S) <= Counters!Total(g, S)
    BY <2>2, <2>3, CellsFinite, TotalGrows
  <2>5. twiceOfDay[d] \in Nat /\ twiceOfDay'[d] \in Nat /\ twiceOfDay[d] <= twiceOfDay'[d]
    BY DEF CountInv, Recorded
  <2>6. RanOn(d) = Counters!Total(f, S) + twiceOfDay[d]  BY <2>1 DEF RanOn
  <2>7. RanOn(d)' = Counters!Total(g, S) + twiceOfDay'[d]  BY <2>1 DEF RanOn
  <2> QED  BY <2>4, <2>5, <2>6, <2>7
<1>6. ASSUME NEW m \in Counters!Minutes, NEW a \in Nat, NEW b \in Nat, NEW c \in Nat
      PROVE  /\ a <= old[m] => a <= new[m]
             /\ b <= Counters!Total(old, Counters!Labels(m)) => b <= Counters!Total(new, Counters!Labels(m))
             /\ c <= RanOn(Counters!Day(m)) => c <= RanOn(Counters!Day(m))'
  <2>1. old[m] \in Nat /\ new[m] \in Nat /\ old[m] <= new[m]  BY <1>2, <1>3
  <2>2. Counters!Labels(m) \in SUBSET Counters!Minutes  BY CounterSets
  <2>3. PICK x, y \in Nat : /\ x = Counters!Total(old, Counters!Labels(m))
                            /\ y = Counters!Total(new, Counters!Labels(m)) /\ x <= y
    BY <1>4, <2>2
  <2>4. PICK d \in Counters!Days : d = Counters!Day(m)  BY CounterSets
  <2>5. PICK v, w \in Nat : v = RanOn(d) /\ w = RanOn(d)' /\ v <= w  BY <1>5
  <2>6. c <= RanOn(d) => c <= RanOn(d)'  BY <2>5
  <2>7. a <= old[m] => a <= new[m]  BY <2>1
  <2> QED  BY <2>3, <2>4, <2>6, <2>7
<1>7. ASSUME NEW m \in Counters!Minutes, NEW s, SeriesFits(s, m) PROVE SeriesFits(s, m)'
  BY <1>1, <1>6, <1>7 DEF SeriesFits
<1>8. ASSUME NEW m \in Counters!Minutes, NEW t, TodayFits(t, m) PROVE TodayFits(t, m)'
  BY <1>6, <1>8 DEF TodayFits
<1>9. ASSUME UNCHANGED round PROVE RoundsFit'
  <2>1. \A r \in Rounds : round[r].minute \in Counters!Minutes  BY DEF CountInv, RoundsFit, RoundType
  <2> QED  BY <1>7, <1>8, <1>9, <2>1 DEF CountInv, RoundsFit
<1>10. ASSUME UNCHANGED shown PROVE ShownFits'
  <2>1. PICK m \in Counters!Minutes, a, b, c \in Nat :
          /\ shown[1] = m /\ shown[2] = a /\ shown[3] = b /\ shown[4] = c
          /\ a <= old[m] /\ b <= Counters!Total(old, Counters!Labels(m)) /\ c <= RanOn(Counters!Day(m))
    BY <1>1 DEF CountInv, ShownFits
  <2>2. /\ a <= new[m] /\ b <= Counters!Total(new, Counters!Labels(m))
        /\ c <= RanOn(Counters!Day(m))'
    BY <1>6, <2>1
  <2> QED  BY <1>1, <1>10, <2>1, <2>2 DEF ShownFits
<1> QED  BY <1>5, <1>7, <1>8, <1>9, <1>10

LEMMA RecordCount == ASSUME CountInv, Counters!Record PROVE CountInv'
<1>1. PICK f : f = recorded  OBVIOUS
<1>2. PICK m : m = minute  OBVIOUS
<1>3. /\ recorded' = [f EXCEPT ![m] = @ + 1]
      /\ lateMinute' = [lateMinute EXCEPT ![m] = @ + 1]
      /\ lateDay' = [lateDay EXCEPT ![Counters!Day(m)] = @ + 1]
      /\ UNCHANGED <<minute, ofMinute, ofDay, twiceOfMinute, twiceOfDay, lock, round, shown, troubles>>
      /\ Counters!Total(f, Counters!Minutes) < MaxMessages
  BY <1>1, <1>2 DEF Counters!Record, Counters!Bump
<1>4. m \in Counters!Minutes /\ f \in [Counters!Minutes -> Counters!Messages]
  BY <1>1, <1>2 DEF CountInv, Recorded
<1>5. f[m] < MaxMessages /\ f[m] \in Nat /\ MaxMessages \in Nat
  BY <1>3, <1>4, TotalOfOne, CounterConstants DEF Counters!Messages
<1>6. /\ recorded' \in [Counters!Minutes -> Counters!Messages]
      /\ recorded'[m] = f[m] + 1 /\ \A n \in Counters!Minutes : n # m => recorded'[n] = f[n]
  BY <1>3, <1>4, <1>5 DEF Counters!Messages
<1>7. \A n \in Counters!Minutes : f[n] <= recorded'[n]
  BY <1>4, <1>5, <1>6 DEF Counters!Messages
<1>8. Recorded'  BY <1>3, <1>6 DEF CountInv, Recorded
<1>9. \A n \in Counters!Minutes : twiceOfMinute[n] \in Nat /\ twiceOfMinute'[n] = twiceOfMinute[n]
  BY <1>3 DEF CountInv, Recorded
<1>10. MinutesFit'
  <2>1. lateMinute' \in [Counters!Minutes -> Nat]  BY <1>3, <1>4 DEF CountInv, MinutesFit
  <2>2. ASSUME NEW n \in Counters!Minutes
        PROVE  ofMinute[n] + lateMinute'[n] <= recorded'[n] + twiceOfMinute[n]
    <3>1. /\ ofMinute[n] \in Nat /\ lateMinute[n] \in Nat /\ f[n] \in Nat /\ twiceOfMinute[n] \in Nat
          /\ ofMinute[n] + lateMinute[n] <= f[n] + twiceOfMinute[n]
      BY <1>1, <1>4, <1>9 DEF CountInv, MinutesFit, Counters!Messages
    <3>2. CASE n = m
      <4>1. lateMinute'[n] = lateMinute[n] + 1  BY <1>3, <1>4, <3>2 DEF CountInv, MinutesFit
      <4> QED  BY <1>6, <3>1, <3>2, <4>1
    <3>3. CASE n # m
      <4>1. lateMinute'[n] = lateMinute[n]  BY <1>3, <1>4, <3>3 DEF CountInv, MinutesFit
      <4> QED  BY <1>6, <3>1, <3>3, <4>1
    <3> QED  BY <3>2, <3>3
  <2> QED  BY <1>3, <2>1, <2>2 DEF CountInv, MinutesFit
<1>11. DaysFit'
  <2>1. PICK e \in Counters!Days : e = Counters!Day(m)  BY <1>4, CounterSets
  <2>2. m \in Counters!MinutesOf(e)  BY <1>4, <2>1, CounterSets
  <2>3. PICK g : g = recorded'  OBVIOUS
  <2>4. lateDay' = [lateDay EXCEPT ![e] = @ + 1] /\ lateDay' \in [Counters!Days -> Nat]
    BY <1>3, <2>1 DEF CountInv, DaysFit
  <2>5. ASSUME NEW d \in Counters!Days PROVE ofDay[d] + lateDay'[d] <= RanOn(d)'
    <3>1. PICK T : T = Counters!MinutesOf(d)  OBVIOUS
    <3>2. T \in SUBSET Counters!Minutes  BY <3>1 DEF Counters!MinutesOf
    <3>3. RanOn(d) = Counters!Total(f, T) + twiceOfDay[d]  BY <1>1, <3>1 DEF RanOn
    <3>4. RanOn(d)' = Counters!Total(g, T) + twiceOfDay[d]  BY <1>3, <2>3, <3>1 DEF RanOn
    <3>5. /\ ofDay[d] \in Nat /\ lateDay[d] \in Nat /\ Counters!Total(f, T) \in Nat
          /\ Counters!Total(g, T) \in Nat /\ twiceOfDay[d] \in Nat
          /\ ofDay[d] + lateDay[d] <= Counters!Total(f, T) + twiceOfDay[d]
      BY <3>2, <3>3, CellsFinite DEF CountInv, DaysFit, Recorded
    <3>6. CASE d = e
      <4>1. lateDay'[d] = lateDay[d] + 1  BY <2>4, <3>6 DEF CountInv, DaysFit
      <4>2. Counters!Total(g, T) = Counters!Total(f, T) + 1
        BY <1>3, <1>4, <1>5, <2>2, <2>3, <3>1, <3>2, <3>6, TotalCounts
      <4> QED  BY <3>4, <3>5, <4>1, <4>2
    <3>7. CASE d # e
      <4>1. lateDay'[d] = lateDay[d]  BY <2>4, <3>7 DEF CountInv, DaysFit
      <4>2. f \in [Counters!Minutes -> Nat] /\ g \in [Counters!Minutes -> Nat]
        BY <1>4, <1>6, <2>3, CounterConstants DEF Counters!Messages
      <4>3. Counters!Total(f, T) <= Counters!Total(g, T)  BY <1>7, <2>3, <3>2, <4>2, TotalGrows
      <4> QED  BY <3>4, <3>5, <4>1, <4>3
    <3> QED  BY <3>6, <3>7
  <2> QED  BY <1>3, <2>4, <2>5 DEF CountInv, DaysFit
<1>12. \A d \in Counters!Days : twiceOfDay[d] \in Nat /\ twiceOfDay'[d] = twiceOfDay[d]
  BY <1>3 DEF CountInv, Recorded
<1>13. RoundsFit' /\ ShownFits'
  <2>1. /\ \A n \in Counters!Minutes : recorded[n] <= recorded'[n] /\ twiceOfMinute[n] <= twiceOfMinute'[n]
        /\ \A d \in Counters!Days : twiceOfDay[d] <= twiceOfDay'[d]
    BY <1>1, <1>7, <1>9, <1>12
  <2> QED  BY <1>3, <1>8, <2>1, StillFits
<1> QED  BY <1>8, <1>10, <1>11, <1>13 DEF CountInv

\* An INCR arrives, or is given up: no more is counted and under way than before.
LEMMA IncrCount ==
  ASSUME CountInv, UNCHANGED <<minute, recorded, twiceOfMinute, twiceOfDay, round, shown>>,
         \/ UNCHANGED <<ofMinute, lateMinute>>
         \/ \E m \in Counters!Minutes, n \in {0, 1} :
              /\ lateMinute[m] > 0 /\ lateMinute' = [lateMinute EXCEPT ![m] = @ - 1]
              /\ ofMinute' = [ofMinute EXCEPT ![m] = @ + n],
         \/ UNCHANGED <<ofDay, lateDay>>
         \/ \E d \in Counters!Days, n \in {0, 1} :
              /\ lateDay[d] > 0 /\ lateDay' = [lateDay EXCEPT ![d] = @ - 1]
              /\ ofDay' = [ofDay EXCEPT ![d] = @ + n]
  PROVE  CountInv'
<1>1. Recorded' /\ RoundsFit' /\ ShownFits'
  BY SameRan DEF CountInv, Recorded
<1>2. MinutesFit'
  <2>1. CASE UNCHANGED <<ofMinute, lateMinute>>  BY <2>1 DEF CountInv, MinutesFit
  <2>2. ASSUME NEW m \in Counters!Minutes, NEW n \in {0, 1},
               lateMinute[m] > 0, lateMinute' = [lateMinute EXCEPT ![m] = @ - 1],
               ofMinute' = [ofMinute EXCEPT ![m] = @ + n]
        PROVE  MinutesFit'
    <3>1. /\ ofMinute \in [Counters!Minutes -> Nat] /\ lateMinute \in [Counters!Minutes -> Nat]
          /\ \A k \in Counters!Minutes :
               /\ twiceOfMinute[k] <= ofMinute[k]
               /\ ofMinute[k] + lateMinute[k] <= recorded[k] + twiceOfMinute[k]
          /\ \A k \in Counters!Minutes : recorded[k] \in Nat /\ twiceOfMinute[k] \in Nat
      BY DEF CountInv, MinutesFit, Recorded, Counters!Messages
    <3>2. ofMinute' \in [Counters!Minutes -> Nat] /\ lateMinute' \in [Counters!Minutes -> Nat]
      BY <2>2, <3>1
    <3>3. ASSUME NEW k \in Counters!Minutes
          PROVE  /\ twiceOfMinute[k] <= ofMinute'[k]
                 /\ ofMinute'[k] + lateMinute'[k] <= recorded[k] + twiceOfMinute[k]
      <4>1. CASE k = m
        <5>1. ofMinute'[k] = ofMinute[m] + n /\ lateMinute'[k] = lateMinute[m] - 1
          BY <2>2, <3>1, <4>1
        <5> QED  BY <3>1, <4>1, <5>1
      <4>2. CASE k # m
        <5>1. ofMinute'[k] = ofMinute[k] /\ lateMinute'[k] = lateMinute[k]
          BY <2>2, <3>1, <4>2
        <5> QED  BY <3>1, <5>1
      <4> QED  BY <4>1, <4>2
    <3> QED  BY <3>2, <3>3 DEF MinutesFit
  <2> QED  BY <2>1, <2>2
<1>3. DaysFit'
  <2>1. CASE UNCHANGED <<ofDay, lateDay>>  BY <2>1 DEF CountInv, DaysFit, RanOn
  <2>2. ASSUME NEW d \in Counters!Days, NEW n \in {0, 1},
               lateDay[d] > 0, lateDay' = [lateDay EXCEPT ![d] = @ - 1],
               ofDay' = [ofDay EXCEPT ![d] = @ + n]
        PROVE  DaysFit'
    <3>1. /\ ofDay \in [Counters!Days -> Nat] /\ lateDay \in [Counters!Days -> Nat]
          /\ \A k \in Counters!Days : twiceOfDay[k] <= ofDay[k] /\ ofDay[k] + lateDay[k] <= RanOn(k)
      BY DEF CountInv, DaysFit
    <3>2. /\ \A k \in Counters!Days : RanOn(k) \in Nat /\ twiceOfDay[k] \in Nat
          /\ \A k : RanOn(k)' = RanOn(k)
      BY RanTypes DEF CountInv, Recorded, RanOn
    <3>3. ofDay' \in [Counters!Days -> Nat] /\ lateDay' \in [Counters!Days -> Nat]
      BY <2>2, <3>1
    <3>4. ASSUME NEW k \in Counters!Days
          PROVE  twiceOfDay[k] <= ofDay'[k] /\ ofDay'[k] + lateDay'[k] <= RanOn(k)
      <4>1. CASE k = d
        <5>1. ofDay'[k] = ofDay[d] + n /\ lateDay'[k] = lateDay[d] - 1
          BY <2>2, <3>1, <4>1
        <5> QED  BY <3>1, <3>2, <4>1, <5>1
      <4>2. CASE k # d
        <5>1. ofDay'[k] = ofDay[k] /\ lateDay'[k] = lateDay[k]
          BY <2>2, <3>1, <4>2
        <5> QED  BY <3>1, <3>2, <5>1
      <4> QED  BY <4>1, <4>2
    <3> QED  BY <3>2, <3>3, <3>4 DEF DaysFit
  <2> QED  BY <2>1, <2>2
<1> QED  BY <1>1, <1>2, <1>3 DEF CountInv

\* An INCR has counted and stays under way: the history has that it may count once more.
LEMMA ResendCount == ASSUME CountInv, Counters!IncrResent PROVE CountInv'
<1>1. UNCHANGED <<minute, recorded, lateMinute, lateDay, round, shown>>  BY DEF Counters!IncrResent
<1>2. /\ twiceOfMinute \in [Counters!Minutes -> Nat] /\ twiceOfDay \in [Counters!Days -> Nat]
      /\ ofMinute \in [Counters!Minutes -> Nat] /\ ofDay \in [Counters!Days -> Nat]
  BY DEF CountInv, Recorded, MinutesFit, DaysFit
<1>3. \/ \E m \in Counters!Minutes : /\ ofMinute' = [ofMinute EXCEPT ![m] = @ + 1]
                                     /\ twiceOfMinute' = [twiceOfMinute EXCEPT ![m] = @ + 1]
                                     /\ UNCHANGED <<ofDay, twiceOfDay>>
      \/ \E d \in Counters!Days : /\ ofDay' = [ofDay EXCEPT ![d] = @ + 1]
                                  /\ twiceOfDay' = [twiceOfDay EXCEPT ![d] = @ + 1]
                                  /\ UNCHANGED <<ofMinute, twiceOfMinute>>
  BY DEF Counters!IncrResent, Counters!Bump
<1>4. /\ twiceOfMinute' \in [Counters!Minutes -> Nat] /\ twiceOfDay' \in [Counters!Days -> Nat]
      /\ ofMinute' \in [Counters!Minutes -> Nat] /\ ofDay' \in [Counters!Days -> Nat]
  BY <1>2, <1>3
<1>5. ASSUME NEW m \in Counters!Minutes
      PROVE  \E n \in {0, 1} : /\ ofMinute'[m] = ofMinute[m] + n
                               /\ twiceOfMinute'[m] = twiceOfMinute[m] + n
  BY <1>2, <1>3
<1>6. ASSUME NEW d \in Counters!Days
      PROVE  \E n \in {0, 1} : ofDay'[d] = ofDay[d] + n /\ twiceOfDay'[d] = twiceOfDay[d] + n
  BY <1>2, <1>3
<1>7. Recorded'  BY <1>1, <1>4 DEF CountInv, Recorded
<1>8. MinutesFit'
  <2>1. ASSUME NEW m \in Counters!Minutes
        PROVE  /\ twiceOfMinute'[m] <= ofMinute'[m]
               /\ ofMinute'[m] + lateMinute[m] <= recorded[m] + twiceOfMinute'[m]
    <3>1. /\ twiceOfMinute[m] \in Nat /\ ofMinute[m] \in Nat /\ lateMinute[m] \in Nat
          /\ recorded[m] \in Nat /\ twiceOfMinute[m] <= ofMinute[m]
          /\ ofMinute[m] + lateMinute[m] <= recorded[m] + twiceOfMinute[m]
      BY <1>2, CounterConstants DEF CountInv, Recorded, MinutesFit, Counters!Messages
    <3> QED  BY <1>5, <3>1
  <2> QED  BY <1>1, <1>4, <2>1 DEF CountInv, MinutesFit
<1>9. DaysFit'
  <2>1. ASSUME NEW d \in Counters!Days
        PROVE  twiceOfDay'[d] <= ofDay'[d] /\ ofDay'[d] + lateDay[d] <= RanOn(d)'
    <3>1. PICK k : k = Counters!Total(recorded, Counters!MinutesOf(d))  OBVIOUS
    <3>2. RanOn(d) = k + twiceOfDay[d] /\ RanOn(d)' = k + twiceOfDay'[d]  BY <1>1, <3>1 DEF RanOn
    <3>3. k \in Nat  BY <3>1, CellsFinite DEF Counters!MinutesOf
    <3>4. /\ twiceOfDay[d] \in Nat /\ ofDay[d] \in Nat /\ lateDay[d] \in Nat
          /\ twiceOfDay[d] <= ofDay[d] /\ ofDay[d] + lateDay[d] <= k + twiceOfDay[d]
      BY <1>2, <3>2 DEF CountInv, DaysFit
    <3> QED  BY <1>6, <3>2, <3>3, <3>4
  <2> QED  BY <1>1, <1>4, <2>1 DEF CountInv, DaysFit
<1>10. RoundsFit' /\ ShownFits'
  <2>1. ASSUME NEW m \in Counters!Minutes
        PROVE  recorded[m] <= recorded'[m] /\ twiceOfMinute[m] <= twiceOfMinute'[m]
    BY <1>1, <1>2, <1>5, CounterConstants DEF CountInv, Recorded, Counters!Messages
  <2>2. ASSUME NEW d \in Counters!Days PROVE twiceOfDay[d] <= twiceOfDay'[d]  BY <1>2, <1>6
  <2> QED  BY <1>1, <1>7, <2>1, <2>2, StillFits
<1> QED  BY <1>7, <1>8, <1>9, <1>10 DEF CountInv

\* A round starts, reads or ends.
LEMMA RoundCount ==
  ASSUME CountInv, UNCHANGED <<minute, Counters!counters, shown>>,
         NEW r \in Rounds, NEW x \in RoundType, round' = [round EXCEPT ![r] = x],
         SeriesFits(x.series, x.minute), TodayFits(x.today, x.minute)
  PROVE  CountInv'
<1>1. Recorded' /\ MinutesFit' /\ DaysFit' /\ ShownFits'
  <2>1. UNCHANGED Counters!counters  OBVIOUS
  <2>2. ShownFits'  BY <2>1, SameRan DEF CountInv, Counters!counters
  <2>3. Recorded' /\ MinutesFit'  BY <2>1 DEF CountInv, Recorded, MinutesFit, Counters!counters
  <2>4. DaysFit'  BY <2>1, SameRan DEF CountInv, DaysFit, Counters!counters
  <2> QED  BY <2>2, <2>3, <2>4
<1>2. round' \in [Rounds -> RoundType]  BY DEF CountInv, RoundsFit
<1>3. ASSUME NEW q \in Rounds
      PROVE  SeriesFits(round'[q].series, round'[q].minute) /\ TodayFits(round'[q].today, round'[q].minute)
  <2>1. round'[q] = IF q = r THEN x ELSE round[q]  BY DEF CountInv, RoundsFit
  <2> QED  BY <2>1 DEF CountInv, RoundsFit
<1>4. \A s, t, m : (SeriesFits(s, m)' <=> SeriesFits(s, m)) /\ (TodayFits(t, m)' <=> TodayFits(t, m))
  BY SameRan DEF Counters!counters
<1>5. RoundsFit'  BY <1>2, <1>3, <1>4 DEF RoundsFit
<1> QED  BY <1>1, <1>5 DEF CountInv

LEMMA BeginCount ==
  ASSUME CountInv, NEW r \in Rounds, Counters!Broadcast(r) \/ Counters!Subscribe(r)
  PROVE  CountInv'
<1>1. PICK kind \in {"tick", "ack"} : Counters!Begin(r, kind)
  BY DEF Counters!Broadcast, Counters!Subscribe
<1>2. PICK x : x = [Counters!Idle EXCEPT !.at = kind, !.minute = minute]  OBVIOUS
<1>3. x = [at |-> kind, minute |-> minute, series |-> <<>>, today |-> <<>>]
  BY <1>2 DEF Counters!Idle
<1>4. x \in RoundType /\ x.series = <<>> /\ x.today = <<>>
  BY <1>3 DEF RoundType, CountInv, Recorded
<1>5. round' = [round EXCEPT ![r] = x]  BY <1>1, <1>2 DEF Counters!Begin
<1>6. UNCHANGED <<minute, Counters!counters, shown>>
  BY DEF Counters!Broadcast, Counters!Subscribe
<1> QED  BY <1>4, <1>5, <1>6, RoundCount DEF SeriesFits, TodayFits

LEMMA RoundFailsCount ==
  ASSUME CountInv, NEW r \in Rounds, Counters!RoundFails(r) PROVE CountInv'
<1>1. Counters!Idle \in RoundType /\ Counters!Idle.series = <<>> /\ Counters!Idle.today = <<>>
  BY CounterConstants DEF Counters!Idle, RoundType, Counters!Minutes
<1>2. /\ round' = [round EXCEPT ![r] = Counters!Idle]
      /\ UNCHANGED <<minute, Counters!counters, shown>>
  BY DEF Counters!RoundFails
<1> QED  BY <1>1, <1>2, RoundCount DEF SeriesFits, TodayFits

LEMMA ReadSeriesCount ==
  ASSUME CountInv, NEW r \in Rounds, Counters!ReadSeries(r) PROVE CountInv'
<1>1. PICK y : y = round[r]  OBVIOUS
<1>2. y \in RoundType /\ TodayFits(y.today, y.minute)  BY <1>1 DEF CountInv, RoundsFit
<1>3. PICK m : m = y.minute  OBVIOUS
<1>4. m \in Counters!Minutes /\ Counters!Labels(m) \in SUBSET Counters!Minutes
  BY <1>2, <1>3, CounterSets DEF RoundType
<1>5. /\ ofMinute \in [Counters!Minutes -> Nat] /\ Ran \in [Counters!Minutes -> Nat]
      /\ \A k \in Counters!Minutes : ofMinute[k] <= Ran[k]
  <2>1. Ran \in [Counters!Minutes -> Nat]  BY RanTypes DEF CountInv
  <2>2. ASSUME NEW k \in Counters!Minutes PROVE ofMinute[k] <= Ran[k]
    <3>1. /\ ofMinute[k] \in Nat /\ lateMinute[k] \in Nat
          /\ ofMinute[k] + lateMinute[k] <= recorded[k] + twiceOfMinute[k]
      BY DEF CountInv, MinutesFit
    <3>2. Ran[k] = recorded[k] + twiceOfMinute[k] /\ Ran[k] \in Nat  BY <2>1 DEF Ran
    <3> QED  BY <3>1, <3>2
  <2> QED  BY <2>1, <2>2 DEF CountInv, MinutesFit
<1>6. PICK a, b : a = ofMinute[m] /\ b = Counters!Total(ofMinute, Counters!Labels(m))  OBVIOUS
<1>7. a \in Nat /\ b \in Nat /\ a <= Ran[m] /\ b <= Counters!Total(Ran, Counters!Labels(m))
  BY <1>4, <1>5, <1>6, CellsFinite, TotalGrows
<1>8. PICK x : x = [y EXCEPT !.series = <<a, b>>]  OBVIOUS
<1>9. x \in RoundType /\ x.series = <<a, b>> /\ x.today = y.today /\ x.minute = m
  <2>1. <<a, b>> \in Seq(Nat)  BY <1>7
  <2> QED  BY <1>2, <1>3, <1>8, <2>1 DEF RoundType
<1>10. /\ round' = [round EXCEPT ![r].series = <<a, b>>]
       /\ UNCHANGED <<minute, Counters!counters, shown>>
  BY <1>1, <1>3, <1>6 DEF Counters!ReadSeries
<1>11. round' = [round EXCEPT ![r] = x]  BY <1>1, <1>8, <1>10
<1>12. SeriesFits(x.series, x.minute)  BY <1>7, <1>9 DEF SeriesFits
<1> QED  BY <1>2, <1>3, <1>9, <1>10, <1>11, <1>12, RoundCount

LEMMA ReadDayCount ==
  ASSUME CountInv, NEW r \in Rounds, Counters!ReadDay(r) PROVE CountInv'
<1>1. PICK y : y = round[r]  OBVIOUS
<1>2. y \in RoundType /\ SeriesFits(y.series, y.minute)  BY <1>1 DEF CountInv, RoundsFit
<1>3. PICK m : m = y.minute  OBVIOUS
<1>4. m \in Counters!Minutes  BY <1>2, <1>3 DEF RoundType
<1>5. PICK d : d = Counters!Day(m)  OBVIOUS
<1>6. d \in Counters!Days  BY <1>4, <1>5, CounterSets
<1>7. PICK c : c = ofDay[d]  OBVIOUS
<1>8. c \in Nat /\ c <= RanOn(d)
  <2>1. c \in Nat /\ lateDay[d] \in Nat /\ c + lateDay[d] <= RanOn(d)
    BY <1>6, <1>7 DEF CountInv, DaysFit
  <2>2. RanOn(d) \in Nat  BY <1>6, RanTypes DEF CountInv
  <2> QED  BY <2>1, <2>2
<1>9. PICK x : x = [y EXCEPT !.today = <<c>>]  OBVIOUS
<1>10. x \in RoundType /\ x.series = y.series /\ x.today = <<c>> /\ x.minute = m
  <2>1. <<c>> \in Seq(Nat)  BY <1>8
  <2> QED  BY <1>2, <1>3, <1>9, <2>1 DEF RoundType
<1>11. /\ round' = [round EXCEPT ![r].today = <<c>>]
       /\ UNCHANGED <<minute, Counters!counters, shown>>
  BY <1>1, <1>3, <1>5, <1>7 DEF Counters!ReadDay
<1>12. round' = [round EXCEPT ![r] = x]  BY <1>1, <1>9, <1>11
<1>13. TodayFits(x.today, x.minute)  BY <1>5, <1>8, <1>10 DEF TodayFits
<1> QED  BY <1>2, <1>3, <1>10, <1>11, <1>12, <1>13, RoundCount

\* What an update is put together from.
LEMMA Figures ==
  ASSUME NEW m \in Nat, NEW a \in Nat, NEW b \in Nat, NEW c \in Nat,
         NEW t, t = <<m>> \o <<a, b>> \o <<c>>
  PROVE  t[1] = m /\ t[2] = a /\ t[3] = b /\ t[4] = c
<1>1. PICK x, y, z : x = <<m>> /\ y = <<a, b>> /\ z = <<c>>  OBVIOUS
<1>2. x \in Seq(Nat) /\ Len(x) = 1 /\ x[1] = m  BY <1>1
<1>3. y \in Seq(Nat) /\ Len(y) = 2 /\ y[1] = a /\ y[2] = b  BY <1>1
<1>4. z \in Seq(Nat) /\ Len(z) = 1 /\ z[1] = c  BY <1>1
<1>5. PICK s : s = x \o y  OBVIOUS
<1>6. /\ s \in Seq(Nat) /\ Len(s) = Len(x) + Len(y)
      /\ \A i \in 1 .. Len(x) + Len(y) : s[i] = IF i <= Len(x) THEN x[i] ELSE y[i - Len(x)]
  BY <1>2, <1>3, <1>5, ConcatProperties, Zenon
<1>7. Len(s) = 3 /\ s[1] = m /\ s[2] = a /\ s[3] = b  BY <1>2, <1>3, <1>6
<1>8. s \in Seq(Nat)  BY <1>6
<1>9. t = s \o z  BY <1>1, <1>5
<1>10. \A i \in 1 .. Len(s) + Len(z) : t[i] = IF i <= Len(s) THEN s[i] ELSE z[i - Len(s)]
  <2>1. z \in Seq(Nat)  BY <1>4
  <2>2. \A i \in 1 .. Len(s) + Len(z) : (s \o z)[i] = IF i <= Len(s) THEN s[i] ELSE z[i - Len(s)]
    BY <1>8, <2>1, ConcatProperties
  <2> QED  BY <1>9, <2>2, Zenon
<1> QED  BY <1>4, <1>7, <1>10

LEMMA EmitCount ==
  ASSUME CountInv, NEW r \in Rounds, Counters!Emit(r) PROVE CountInv'
<1>1. PICK y : y = round[r]  OBVIOUS
<1>2. PICK m : m = y.minute  OBVIOUS
<1>3. /\ y.series # <<>> /\ y.today # <<>>
      /\ shown' = <<m>> \o y.series \o y.today
      /\ round' = [round EXCEPT ![r] = Counters!Idle]
      /\ UNCHANGED <<minute, Counters!counters>>
  BY <1>1, <1>2 DEF Counters!Emit
<1>4. m \in Counters!Minutes  BY <1>1, <1>2 DEF CountInv, RoundsFit, RoundType
<1>5. SeriesFits(y.series, m) /\ TodayFits(y.today, m)  BY <1>1, <1>2 DEF CountInv, RoundsFit
<1>6. PICK a, b \in Nat : /\ y.series = <<a, b>> /\ a <= Ran[m]
                         /\ b <= Counters!Total(Ran, Counters!Labels(m))
  BY <1>3, <1>5 DEF SeriesFits
<1>7. PICK c \in Nat : y.today = <<c>> /\ c <= RanOn(Counters!Day(m))
  BY <1>3, <1>5 DEF TodayFits
<1>8. shown'[1] = m /\ shown'[2] = a /\ shown'[3] = b /\ shown'[4] = c
  <2>1. m \in Nat  BY <1>4, CounterConstants DEF Counters!Minutes
  <2> QED  BY <1>3, <1>6, <1>7, <2>1, Figures
<1>9. ShownFits'
  <2>1. Ran' = Ran /\ \A d : RanOn(d)' = RanOn(d)  BY <1>3, SameRan DEF Counters!counters
  <2> QED  BY <1>4, <1>6, <1>7, <1>8, <2>1 DEF ShownFits
<1>10. RoundsFit'
  <2>1. Counters!Idle \in RoundType /\ Counters!Idle.series = <<>> /\ Counters!Idle.today = <<>>
    BY CounterConstants DEF Counters!Idle, RoundType, Counters!Minutes
  <2>2. round' \in [Rounds -> RoundType]  BY <1>3, <2>1 DEF CountInv, RoundsFit
  <2>3. \A s, t, k : (SeriesFits(s, k)' <=> SeriesFits(s, k)) /\ (TodayFits(t, k)' <=> TodayFits(t, k))
    BY <1>3, SameRan DEF Counters!counters
  <2>4. ASSUME NEW q \in Rounds
        PROVE  SeriesFits(round'[q].series, round'[q].minute) /\ TodayFits(round'[q].today, round'[q].minute)
    <3>1. CASE q = r
      <4>1. round'[q] = Counters!Idle  BY <1>3, <3>1 DEF CountInv, RoundsFit
      <4> QED  BY <2>1, <4>1 DEF SeriesFits, TodayFits
    <3>2. CASE q # r
      <4>1. round'[q] = round[q]  BY <1>3, <3>2 DEF CountInv, RoundsFit
      <4> QED  BY <4>1 DEF CountInv, RoundsFit
    <3> QED  BY <3>1, <3>2
  <2> QED  BY <2>2, <2>3, <2>4 DEF RoundsFit
<1>11. Recorded' /\ MinutesFit' /\ DaysFit'
  BY <1>3, SameRan DEF CountInv, Recorded, MinutesFit, DaysFit, Counters!counters
<1> QED  BY <1>9, <1>10, <1>11 DEF CountInv

LEMMA RestCount ==
  ASSUME CountInv, UNCHANGED <<Counters!counters, round, shown>>, minute' \in Counters!Minutes
  PROVE  CountInv'
<1>1. UNCHANGED <<recorded, ofMinute, ofDay, lateMinute, lateDay, twiceOfMinute, twiceOfDay>>
  BY DEF Counters!counters
<1>2. RoundsFit' /\ ShownFits'  BY <1>1, SameRan DEF CountInv
<1>3. Recorded' /\ MinutesFit'  BY <1>1 DEF CountInv, Recorded, MinutesFit
<1>4. DaysFit'  BY <1>1, SameRan DEF CountInv, DaysFit
<1> QED  BY <1>2, <1>3, <1>4 DEF CountInv

LEMMA StepCount == ASSUME CountInv, [Counters!Next]_(Counters!vars) PROVE CountInv'
<1> USE DEF Counters!Bump
<1>1. CASE UNCHANGED Counters!vars
  BY <1>1, RestCount DEF Counters!vars, CountInv, Recorded
<1>2. CASE Counters!Tick
  <2>1. minute' \in Counters!Minutes
    BY <1>2, CounterConstants DEF Counters!Tick, Counters!Minutes, CountInv, Recorded
  <2> QED  BY <1>2, <2>1, RestCount DEF Counters!Tick
<1>3. CASE Counters!Record  BY <1>3, RecordCount
<1>4. CASE Counters!LockLapses
  BY <1>4, RestCount DEF Counters!LockLapses, CountInv, Recorded
<1>5. CASE Counters!IncrFails
  <2>1. \A f, k, n : Counters!Bump(f, k, Counters!GivenUp) = [f EXCEPT ![k] = @ - 1]
    BY DEF Counters!GivenUp
  <2> QED  BY <1>5, IncrCount DEF Counters!IncrFails, Counters!GivenUp
<1>6. ASSUME NEW m \in Counters!Minutes, Counters!IncrMinute(m) PROVE CountInv'
  BY <1>6, IncrCount DEF Counters!IncrMinute
<1>7. ASSUME NEW d \in Counters!Days, Counters!IncrDay(d) PROVE CountInv'
  BY <1>7, IncrCount DEF Counters!IncrDay
<1> QED
  BY <1>1, <1>2, <1>3, <1>4, <1>5, <1>6, <1>7, ResendCount, BeginCount, ReadSeriesCount, ReadDayCount,
     EmitCount, RoundFailsCount, Zenon
  DEF Counters!Next

\* A dashboard never shows more messages than were sent in the minute, the series and the day it is
\* about, but for the INCRs of these very keys that the Redis client sent again after they had counted
\* (metrics.service.ts, core/redis/redis.ts), for any number of rounds, servers and failures: what is
\* read was sent, and what was sent only grows while the update is on its way.
THEOREM OvercountsOnlyByResends == Counters!Spec => []OverOnlyByResends
<1>1. CountInv => OverOnlyByResends
  <2> SUFFICES ASSUME CountInv PROVE OverOnlyByResends  OBVIOUS
  <2>1. PICK m \in Counters!Minutes, a, b, c \in Nat :
          /\ shown[1] = m /\ shown[2] = a /\ shown[3] = b /\ shown[4] = c
          /\ a <= Ran[m] /\ b <= Counters!Total(Ran, Counters!Labels(m)) /\ c <= RanOn(Counters!Day(m))
    BY DEF CountInv, ShownFits
  <2> QED  BY <2>1 DEF OverOnlyByResends, Counters!OverOnlyByResends, Counters!Labels, Ran, RanOn
<1> QED  BY <1>1, InitCount, StepCount, PTL DEF Counters!Spec

-----------------------------------------------------------------------------
(* Metrics: type correctness *)

\* All messages are within their bound, and a round is of a minute that has begun.
CounterTyped ==
  /\ CountInv
  /\ Counters!Total(recorded, Counters!Minutes) <= MaxMessages
  /\ \A r \in Rounds : round[r].minute <= minute
  /\ lock \in BOOLEAN /\ troubles \in 0..MaxFaults
  /\ \A m \in Counters!Minutes : twiceOfMinute[m] <= troubles
  /\ \A d \in Counters!Days : twiceOfDay[d] <= troubles

LEMMA TotalOfPart ==
  ASSUME NEW T \in SUBSET Counters!Minutes, NEW S \in SUBSET T, NEW f
  PROVE  Counters!Total(f, S) <= Counters!Total(f, T)
<1>1. Cells(f, S) \subseteq Cells(f, T)  BY DEF Cells
<1> QED  BY <1>1, CellsFinite, FS_Subset, TotalCells

LEMMA InitCounterTyped == ASSUME Counters!Init PROVE CounterTyped
<1>1. CountInv  BY InitCount
<1>2. Counters!Total(recorded, Counters!Minutes) <= MaxMessages
  <2>1. Cells(recorded, Counters!Minutes) = {}
    <3> SUFFICES ASSUME NEW p \in Counters!Minutes \X (1..(MaxMessages + MaxFaults)), p[2] <= recorded[p[1]] PROVE FALSE
      BY DEF Cells
    <3>1. recorded[p[1]] = 0 /\ p[2] \in 1..(MaxMessages + MaxFaults)  BY DEF Counters!Init
    <3> QED  BY <3>1, CounterConstants
  <2> QED  BY <2>1, TotalCells, FS_EmptySet, CounterConstants
<1>3. \A r \in Rounds : round[r].minute = 0  BY DEF Counters!Init, Counters!Idle
<1>4. minute = 0 /\ troubles = 0 /\ MaxFaults \in Nat
  BY Counters!MetricsAssumption DEF Counters!Init, Counters!MetricsAssumption
<1>5. lock \in BOOLEAN  BY Zenon DEF Counters!Init
<1>6. /\ \A m \in Counters!Minutes : twiceOfMinute[m] = 0
      /\ \A d \in Counters!Days : twiceOfDay[d] = 0
  BY DEF Counters!Init
<1> QED  BY <1>1, <1>2, <1>3, <1>4, <1>5, <1>6 DEF CounterTyped

LEMMA NextTotal ==
  ASSUME CounterTyped, Counters!Next PROVE Counters!Total(recorded, Counters!Minutes)' <= MaxMessages
<1>1. CASE Counters!Record
  <2>1. PICK f, m : f = recorded /\ m = minute  OBVIOUS
  <2>2. /\ recorded' = [f EXCEPT ![m] = @ + 1]
        /\ Counters!Total(f, Counters!Minutes) < MaxMessages
    BY <1>1, <2>1 DEF Counters!Record, Counters!Bump
  <2>3. m \in Counters!Minutes /\ f \in [Counters!Minutes -> Counters!Messages]
    BY <2>1 DEF CounterTyped, CountInv, Recorded
  <2>4. f[m] < MaxMessages  BY <2>2, <2>3, TotalOfOne
  <2>5. Counters!Total(f, Counters!Minutes) \in Nat  BY CellsFinite
  <2>6. Counters!Total([f EXCEPT ![m] = @ + 1], Counters!Minutes) = Counters!Total(f, Counters!Minutes) + 1
    BY <2>3, <2>4, TotalCounts
  <2>7. Counters!Total(f, Counters!Minutes) + 1 <= MaxMessages  BY <2>2, <2>5, CounterConstants
  <2> QED  BY <2>2, <2>6, <2>7
<1>2. CASE ~Counters!Record
  <2>1. recorded' = recorded
    BY <1>2 DEF Counters!Next, Counters!Tick, Counters!IncrFails, Counters!IncrResent,
      Counters!LockLapses, Counters!counters, Counters!IncrMinute, Counters!IncrDay, Counters!Broadcast, Counters!Subscribe,
      Counters!ReadSeries, Counters!ReadDay, Counters!Emit, Counters!RoundFails
  <2> QED  BY <2>1 DEF CounterTyped
<1> QED  BY <1>1, <1>2

LEMMA NextRoundMinute ==
  ASSUME CounterTyped, Counters!Next, NEW q \in Rounds PROVE round'[q].minute <= minute'
<1>1. /\ round \in [Rounds -> RoundType]
      /\ round[q].minute \in Nat /\ minute \in Nat /\ round[q].minute <= minute
  BY CounterConstants DEF CounterTyped, CountInv, RoundsFit, RoundType, Recorded, Counters!Minutes
<1>2. minute <= minute'
  <2>1. minute' = minute \/ minute' = minute + 1
    BY DEF Counters!Next, Counters!Tick, Counters!Record, Counters!IncrFails, Counters!IncrResent,
      Counters!LockLapses, Counters!IncrMinute, Counters!IncrDay, Counters!Broadcast, Counters!Subscribe,
      Counters!ReadSeries, Counters!ReadDay, Counters!Emit, Counters!RoundFails
  <2> QED  BY <1>1, <2>1
<1>3. round'[q].minute \in {round[q].minute, minute, 0}
  <2>1. CASE round' = round  BY <2>1
  <2>2. ASSUME NEW r \in Rounds, Counters!Broadcast(r) \/ Counters!Subscribe(r)
        PROVE  round'[q].minute \in {round[q].minute, minute, 0}
    <3>1. PICK kind : Counters!Begin(r, kind)  BY <2>2 DEF Counters!Broadcast, Counters!Subscribe
    <3>2. PICK x : x = [Counters!Idle EXCEPT !.at = kind, !.minute = minute]  OBVIOUS
    <3>3. x.minute = minute  BY <3>2 DEF Counters!Idle
    <3>4. round' = [round EXCEPT ![r] = x]  BY <3>1, <3>2 DEF Counters!Begin
    <3> QED  BY <1>1, <3>3, <3>4
  <2>3. ASSUME NEW r \in Rounds, Counters!ReadSeries(r) \/ Counters!ReadDay(r)
        PROVE  round'[q].minute \in {round[q].minute, minute, 0}
    <3>1. ASSUME NEW t, \/ round' = [round EXCEPT ![r] = [@ EXCEPT !.series = t]]
                        \/ round' = [round EXCEPT ![r] = [@ EXCEPT !.today = t]]
          PROVE  round'[q].minute = round[q].minute
      <4>1. PICK y, z : y = [round[r] EXCEPT !.series = t] /\ z = [round[r] EXCEPT !.today = t]  OBVIOUS
      <4>2. round[r] \in RoundType  BY <1>1
      <4>3. y.minute = round[r].minute /\ z.minute = round[r].minute  BY <4>1, <4>2 DEF RoundType
      <4>4. round' = [round EXCEPT ![r] = y] \/ round' = [round EXCEPT ![r] = z]  BY <3>1, <4>1
      <4>5. CASE q = r
        <5>1. round'[q] = y \/ round'[q] = z  BY <1>1, <4>4, <4>5
        <5> QED  BY <4>3, <4>5, <5>1
      <4>6. CASE q # r  BY <1>1, <4>4, <4>6
      <4> QED  BY <4>5, <4>6
    <3>2. CASE Counters!ReadSeries(r)
      <4>1. PICK t : round' = [round EXCEPT ![r] = [@ EXCEPT !.series = t]]
        BY <3>2 DEF Counters!ReadSeries
      <4> QED  BY <3>1, <4>1
    <3>3. CASE Counters!ReadDay(r)
      <4>1. PICK t : round' = [round EXCEPT ![r] = [@ EXCEPT !.today = t]]
        BY <3>3 DEF Counters!ReadDay
      <4> QED  BY <3>1, <4>1
    <3> QED  BY <2>3, <3>2, <3>3
  <2>4. ASSUME NEW r \in Rounds, Counters!Emit(r) \/ Counters!RoundFails(r)
        PROVE  round'[q].minute \in {round[q].minute, minute, 0}
    <3>1. round' = [round EXCEPT ![r] = Counters!Idle] /\ Counters!Idle.minute = 0
      BY <2>4 DEF Counters!Emit, Counters!RoundFails, Counters!Idle
    <3> QED  BY <1>1, <3>1
  <2>5. CASE \/ Counters!Tick \/ Counters!Record \/ Counters!IncrFails \/ Counters!IncrResent
             \/ Counters!LockLapses
             \/ (\E m \in Counters!Minutes : Counters!IncrMinute(m))
             \/ \E d \in Counters!Days : Counters!IncrDay(d)
    <3>1. round' = round
      BY <2>5 DEF Counters!Tick, Counters!Record, Counters!IncrFails, Counters!IncrResent,
        Counters!LockLapses, Counters!IncrMinute, Counters!IncrDay
    <3> QED  BY <2>1, <3>1
  <2> QED  BY <2>2, <2>3, <2>4, <2>5, Zenon DEF Counters!Next
<1> QED
  <2>1. CountInv'  BY StepCount, Zenon DEF CounterTyped
  <2>2. minute' \in Nat  BY <2>1, CounterConstants DEF CountInv, Recorded, Counters!Minutes
  <2> QED  BY <1>1, <1>2, <1>3, <2>2

LEMMA NextLock == ASSUME CounterTyped, Counters!Next PROVE lock' \in BOOLEAN
BY Zenon DEF CounterTyped, Counters!Next, Counters!Tick, Counters!Record, Counters!IncrFails, Counters!IncrResent,
  Counters!LockLapses, Counters!IncrMinute, Counters!IncrDay, Counters!Broadcast, Counters!Subscribe,
  Counters!ReadSeries, Counters!ReadDay, Counters!Emit, Counters!RoundFails

LEMMA NextTroubles == ASSUME CounterTyped, Counters!Next PROVE troubles' \in 0..MaxFaults
<1>1. troubles' = troubles \/ Counters!Fault
  BY DEF Counters!Next, Counters!Tick, Counters!Record, Counters!IncrFails, Counters!IncrResent,
    Counters!LockLapses, Counters!IncrMinute, Counters!IncrDay, Counters!Broadcast, Counters!Subscribe,
    Counters!ReadSeries, Counters!ReadDay, Counters!Emit, Counters!RoundFails
<1>2. MaxFaults \in Nat /\ troubles \in 0..MaxFaults
  BY Counters!MetricsAssumption DEF Counters!MetricsAssumption, CounterTyped
<1> QED  BY <1>1, <1>2 DEF Counters!Fault

\* Each resend is a fault of its own.
LEMMA NextTwice ==
  ASSUME CounterTyped, Counters!Next
  PROVE  /\ \A m \in Counters!Minutes : twiceOfMinute'[m] <= troubles'
         /\ \A d \in Counters!Days : twiceOfDay'[d] <= troubles'
<1>1. /\ twiceOfMinute \in [Counters!Minutes -> Nat] /\ twiceOfDay \in [Counters!Days -> Nat]
      /\ \A m \in Counters!Minutes : twiceOfMinute[m] <= troubles
      /\ \A d \in Counters!Days : twiceOfDay[d] <= troubles
      /\ troubles \in Nat
  BY CounterConstants DEF CounterTyped, CountInv, Recorded
<1>2. CASE Counters!IncrResent
  <2>1. troubles' = troubles + 1  BY <1>2 DEF Counters!IncrResent, Counters!Fault
  <2>2. \/ \E m \in Counters!Minutes : /\ twiceOfMinute' = [twiceOfMinute EXCEPT ![m] = @ + 1]
                                       /\ UNCHANGED twiceOfDay
        \/ \E d \in Counters!Days : /\ twiceOfDay' = [twiceOfDay EXCEPT ![d] = @ + 1]
                                    /\ UNCHANGED twiceOfMinute
    BY <1>2 DEF Counters!IncrResent, Counters!Bump
  <2>3. /\ \A m \in Counters!Minutes : twiceOfMinute'[m] <= twiceOfMinute[m] + 1
        /\ \A d \in Counters!Days : twiceOfDay'[d] <= twiceOfDay[d] + 1
    BY <1>1, <2>2
  <2>4. twiceOfMinute' \in [Counters!Minutes -> Nat] /\ twiceOfDay' \in [Counters!Days -> Nat]
    BY <1>1, <2>2
  <2> QED  BY <1>1, <2>1, <2>3, <2>4
<1>3. CASE ~Counters!IncrResent
  <2>1. UNCHANGED <<twiceOfMinute, twiceOfDay>>
    BY <1>3 DEF Counters!Next, Counters!Tick, Counters!Record, Counters!IncrFails, Counters!LockLapses,
      Counters!counters, Counters!IncrMinute, Counters!IncrDay, Counters!Broadcast,
      Counters!Subscribe, Counters!ReadSeries, Counters!ReadDay, Counters!Emit, Counters!RoundFails
  <2>2. troubles' = troubles \/ troubles' = troubles + 1
    BY DEF Counters!Next, Counters!Tick, Counters!Record, Counters!IncrFails, Counters!IncrResent,
      Counters!LockLapses, Counters!IncrMinute, Counters!IncrDay, Counters!Broadcast,
      Counters!Subscribe, Counters!ReadSeries, Counters!ReadDay, Counters!Emit, Counters!RoundFails,
      Counters!Fault
  <2> QED  BY <1>1, <2>1, <2>2
<1> QED  BY <1>2, <1>3

LEMMA StepCounterTyped == ASSUME CounterTyped, [Counters!Next]_(Counters!vars) PROVE CounterTyped'
<1>1. CountInv'  BY StepCount DEF CounterTyped
<1>2. CASE UNCHANGED Counters!vars
  <2>1. UNCHANGED <<recorded, twiceOfMinute, twiceOfDay, minute, round, lock, troubles>>
    BY <1>2 DEF Counters!vars, Counters!counters
  <2>2. Counters!Total(recorded, Counters!Minutes)' <= MaxMessages  BY <2>1 DEF CounterTyped
  <2> QED  BY <1>1, <2>1, <2>2, Zenon DEF CounterTyped
<1>3. CASE Counters!Next
  BY <1>1, <1>3, NextTotal, NextRoundMinute, NextLock, NextTroubles, NextTwice, Zenon DEF CounterTyped
<1> QED  BY <1>2, <1>3

LEMMA CounterTypesHold == ASSUME CounterTyped PROVE Counters!TypeOK
<1>1. /\ minute \in Counters!Minutes /\ minute \in Nat
      /\ recorded \in [Counters!Minutes -> Counters!Messages]
  BY CounterConstants DEF CounterTyped, CountInv, Recorded, Counters!Minutes
<1>2. /\ ofMinute \in [Counters!Minutes -> Counters!Counts]
      /\ lateMinute \in [Counters!Minutes -> Counters!Messages]
      /\ \A m \in Counters!Minutes :
           /\ twiceOfMinute[m] \in 0..troubles
           /\ ofMinute[m] + lateMinute[m] <= recorded[m] + twiceOfMinute[m]
  <2>1. ASSUME NEW m \in Counters!Minutes
        PROVE  /\ ofMinute[m] \in Counters!Counts /\ lateMinute[m] \in Counters!Messages
               /\ twiceOfMinute[m] \in 0..troubles
               /\ ofMinute[m] + lateMinute[m] <= recorded[m] + twiceOfMinute[m]
    <3>1. /\ ofMinute[m] \in Nat /\ lateMinute[m] \in Nat /\ recorded[m] \in 0..MaxMessages
          /\ twiceOfMinute[m] \in Nat /\ twiceOfMinute[m] <= ofMinute[m]
          /\ ofMinute[m] + lateMinute[m] <= recorded[m] + twiceOfMinute[m]
          /\ twiceOfMinute[m] <= troubles /\ troubles \in 0..MaxFaults
      BY <1>1 DEF CounterTyped, CountInv, Recorded, MinutesFit, Counters!Messages
    <3> QED  BY <3>1, CounterConstants DEF Counters!Messages, Counters!Counts
  <2> QED  BY <2>1 DEF CounterTyped, CountInv, MinutesFit
<1>3. /\ ofDay \in [Counters!Days -> Counters!Counts]
      /\ lateDay \in [Counters!Days -> Counters!Messages]
      /\ \A d \in Counters!Days :
           /\ twiceOfDay[d] \in 0..troubles
           /\ ofDay[d] + lateDay[d] <= Counters!Total(recorded, Counters!MinutesOf(d)) + twiceOfDay[d]
  <2>1. ASSUME NEW d \in Counters!Days
        PROVE  /\ ofDay[d] \in Counters!Counts /\ lateDay[d] \in Counters!Messages
               /\ twiceOfDay[d] \in 0..troubles
               /\ ofDay[d] + lateDay[d] <= Counters!Total(recorded, Counters!MinutesOf(d)) + twiceOfDay[d]
    <3>1. PICK k, n \in Nat : /\ k = Counters!Total(recorded, Counters!MinutesOf(d))
                              /\ n = Counters!Total(recorded, Counters!Minutes) /\ k <= n
      <4>1. Counters!MinutesOf(d) \in SUBSET Counters!Minutes  BY <1>1, CounterSets
      <4> QED  BY <4>1, CellsFinite, TotalOfPart
    <3>2. RanOn(d) = k + twiceOfDay[d]  BY <3>1 DEF RanOn
    <3>3. /\ ofDay[d] \in Nat /\ lateDay[d] \in Nat /\ twiceOfDay[d] \in Nat
          /\ twiceOfDay[d] <= ofDay[d] /\ ofDay[d] + lateDay[d] <= k + twiceOfDay[d]
          /\ n <= MaxMessages /\ twiceOfDay[d] <= troubles /\ troubles \in 0..MaxFaults
      BY <3>1, <3>2 DEF CounterTyped, CountInv, Recorded, DaysFit
    <3> QED  BY <3>1, <3>3, CounterConstants DEF Counters!Messages, Counters!Counts
  <2> QED  BY <2>1 DEF CounterTyped, CountInv, DaysFit
<1>4. \A r \in Rounds : round[r].at \in {"idle", "tick", "ack"} /\ round[r].minute \in 0..minute
  <2> SUFFICES ASSUME NEW r \in Rounds
               PROVE  round[r].at \in {"idle", "tick", "ack"} /\ round[r].minute \in 0..minute
    OBVIOUS
  <2>1. round[r] \in RoundType /\ round[r].minute <= minute  BY DEF CounterTyped, CountInv, RoundsFit
  <2>2. round[r].minute \in Nat  BY <2>1, CounterConstants DEF RoundType, Counters!Minutes
  <2> QED  BY <1>1, <2>1, <2>2 DEF RoundType
<1>5. lock \in BOOLEAN /\ troubles \in 0..MaxFaults  BY Zenon DEF CounterTyped
<1> QED  BY <1>1, <1>2, <1>3, <1>4, <1>5, Zenon DEF Counters!TypeOK

\* In every state of the counters each is within its bound, no message is counted under two keys of a
\* kind, or twice under one unless the client sent its INCR again, which it does once per lost reply,
\* and an update is about a minute that has begun.
THEOREM CountersTyped == Counters!Spec => []Counters!TypeOK
<1>1. Counters!Init => CounterTyped  BY InitCounterTyped
<1>2. CounterTyped /\ [Counters!Next]_(Counters!vars) => CounterTyped'  BY StepCounterTyped
<1>3. CounterTyped => Counters!TypeOK  BY CounterTypesHold
<1> QED  BY <1>1, <1>2, <1>3, PTL DEF Counters!Spec

-----------------------------------------------------------------------------
(* The instance *)

\* A behaviour of the instance is one of every part: the one it exercises, and the others at rest.
THEOREM PartsAreSpecs ==
  PartsSpec => /\ Spec /\ Profile!Spec /\ Sockets!Spec /\ Devices!Spec
               /\ Thread!Spec /\ Reading!Spec /\ Daily!Spec /\ Counters!Spec
<1>1. PartsInit => /\ Init /\ Profile!Init /\ Sockets!Init /\ Devices!Init
                   /\ Thread!Init /\ Reading!Init /\ Daily!Init /\ Counters!Init
  BY DEF PartsInit
<1>2. [PartsNext]_partsVars =>
        /\ [Next]_vars /\ [Profile!Next]_(Profile!vars)
        /\ [Sockets!Next]_(Sockets!vars) /\ [Devices!Next]_(Devices!vars)
        /\ [Thread!Next]_(Thread!vars) /\ [Reading!Next]_(Reading!vars)
        /\ [Daily!Next]_(Daily!vars) /\ [Counters!Next]_(Counters!vars)
  <2>1. /\ UNCHANGED historyVars => UNCHANGED Reading!vars
        /\ UNCHANGED deviceVars => UNCHANGED Devices!vars
        /\ UNCHANGED roomVars => UNCHANGED Sockets!vars
        /\ UNCHANGED reportVars => UNCHANGED Daily!vars
        /\ UNCHANGED profileVars => UNCHANGED Profile!vars
        /\ UNCHANGED threadVars => UNCHANGED Thread!vars
        /\ UNCHANGED counterVars => UNCHANGED Counters!vars
    BY DEF historyVars, Reading!vars, deviceVars, Devices!vars, roomVars, Sockets!vars,
           reportVars, Daily!vars, profileVars, Profile!vars, threadVars, Thread!vars,
           Thread!cacheVars, Thread!viewVars, counterVars, Counters!vars, Counters!counters
  <2>2. UNCHANGED partsVars =>
          UNCHANGED <<historyVars, deviceVars, roomVars, reportVars, vars, profileVars, threadVars,
                      counterVars>>
    BY DEF partsVars
  <2> QED  BY <2>1, <2>2 DEF PartsNext
<1> QED
  BY <1>1, <1>2, PTL
  DEF PartsSpec, Spec, Profile!Spec, Sockets!Spec, Devices!Spec, Thread!Spec, Reading!Spec,
      Daily!Spec, Counters!Spec
=============================================================================
