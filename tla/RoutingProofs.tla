---------------------------- MODULE RoutingProofs ----------------------------
(***************************************************************************)
(* Proofs about Routing.  The agent who gets a conversation has no more of *)
(* them than anybody like him who is free, so two agents who are alike and *)
(* were always free stay within one of each other.  And whoever waits      *)
(* while somebody is free is in the queue that is being treated: what      *)
(* makes room lists everybody who waits.                                   *)
(***************************************************************************)
EXTENDS Routing, FiniteSetTheorems, SequenceTheorems, TLAPS

\* Nothing is closed and nobody changes: everybody is online.
Undisturbed == closes = 0 /\ changes = 0

Typed ==
  /\ assignee \in [Chats -> Agents \cup {None}]
  /\ limit \in [Agents -> Limits] /\ choice \in [Agents -> {"online", "busy", "offline"}]
  /\ state \in [Chats -> {"new", "open", "closed"}]
  /\ last \in [Agents -> Nat] /\ time \in Nat
  /\ closes \in Nat /\ changes \in Nat

RInv ==
  /\ Typed
  /\ Undisturbed => (\A a \in Agents : choice[a] = "online") /\ LoadedAlike

-----------------------------------------------------------------------------

\* Every step keeps the types.
LEMMA NextTyped == ASSUME Typed, [Next]_vars PROVE Typed'
<1>1. CASE Assign
  <2> DEFINE c == Head(queue)
  <2>1. c \in Chats /\ time' = time + 1  BY <1>1 DEF Assign, Waiting
  <2>2. PICK a \in Best(c) :
          assignee' = [assignee EXCEPT ![c] = a] /\ last' = [last EXCEPT ![a] = time + 1]
    BY <1>1, Zenon DEF Assign
  <2>3. a \in Agents  BY DEF Best, Candidates, Available
  <2>4. /\ limit' = limit /\ choice' = choice /\ state' = state
        /\ closes' = closes /\ changes' = changes
    BY <1>1 DEF Assign, agents
  <2>5. assignee' \in [Chats -> Agents \cup {None}] /\ last' \in [Agents -> Nat] /\ time' \in Nat
    BY <2>1, <2>2, <2>3 DEF Typed
  <2> QED  BY <2>4, <2>5 DEF Typed
<1>2. CASE Skip \/ NoAgent \/ UNCHANGED vars
  BY <1>2 DEF Typed, Skip, NoAgent, vars, agents
<1>3. ASSUME NEW c \in Chats, Message(c) \/ Close(c) PROVE Typed'
  BY <1>3 DEF Typed, Message, Close, Closed, agents
<1>4. ASSUME NEW a \in Agents, GoOffline(a) PROVE Typed'
  BY <1>4 DEF Typed, GoOffline, Change
<1>5. ASSUME NEW a \in Agents, NEW status, Choose(a, status) PROVE Typed'
  BY <1>5 DEF Typed, Choose, Change
<1>6. ASSUME NEW a \in Agents, NEW n \in Limits, SetLimit(a, n) PROVE Typed'
  BY <1>6 DEF Typed, SetLimit, Change
<1> QED  BY <1>1, <1>2, <1>3, <1>4, <1>5, <1>6, Zenon DEF Next

LEMMA HeldFinite ==
  ASSUME IsFiniteSet(Chats), NEW a
  PROVE  IsFiniteSet(Held(a)) /\ Load(a) \in Nat
<1>1. Held(a) \subseteq Chats  BY DEF Held
<1> QED  BY <1>1, FS_Subset, FS_CardinalityType DEF Load

LEMMA InitRInv == ASSUME IsFiniteSet(Chats), Init PROVE RInv
<1>1. Typed
  BY RoutingAssumption DEF Init, Typed
<1>2. ASSUME NEW a \in Agents PROVE Load(a) = 0
  <2>1. Held(a) = {}  BY RoutingAssumption DEF Init, Held
  <2> QED  BY <2>1, FS_EmptySet DEF Load
<1>3. LoadedAlike  BY <1>2 DEF LoadedAlike
<1> QED  BY <1>1, <1>3 DEF RInv, Init

\* A step that hands out no conversation, and after which somebody has changed or nothing has.
LEMMA IdleRInv ==
  ASSUME RInv, Typed',
         \/ ~Undisturbed'
         \/ /\ closes' = closes /\ changes' = changes
            /\ assignee' = assignee /\ limit' = limit /\ skills' = skills /\ choice' = choice
  PROVE  RInv'
  BY DEF RInv, Undisturbed, LoadedAlike, Load, Held

\* A waiting conversation goes to the best candidate.
LEMMA AssignRInv == ASSUME IsFiniteSet(Chats), RInv, Assign PROVE RInv'
<1> DEFINE c == Head(queue)
<1>1. Typed /\ c \in Waiting  BY DEF RInv, Assign
<1>2. PICK a \in Best(c) : assignee' = [assignee EXCEPT ![c] = a] /\ last' = [last EXCEPT ![a] = time + 1]
  BY Zenon DEF Assign
<1>3. time' = time + 1
  BY Zenon DEF Assign
<1>4. skills' = skills /\ limit' = limit /\ choice' = choice /\ closes' = closes /\ changes' = changes
  BY DEF Assign, agents
<1> HIDE DEF c
<1>5. c \in Chats /\ assignee[c] = None  BY <1>1 DEF Waiting
<1>6. a \in Agents /\ a # None /\ choice[a] = "online" /\ Load(a) < limit[a]
  BY <1>2, RoutingAssumption DEF Best, Candidates, Available, Load
<1>7. Typed'  BY <1>1, NextTyped DEF Next
<1>8. Held(a)' = Held(a) \cup {c} /\ c \notin Held(a)
  BY <1>1, <1>2, <1>5, <1>6 DEF Held, Typed
<1>9. Load(a)' = Load(a) + 1 /\ Load(a) \in Nat
  BY <1>8, HeldFinite, FS_AddElement DEF Load
<1>10. \A b \in Agents : b # a => Load(b)' = Load(b)
  <2> SUFFICES ASSUME NEW b \in Agents, b # a PROVE Held(b)' = Held(b)  BY DEF Load
  <2>1. b # None  BY RoutingAssumption
  <2> QED  BY <1>1, <1>2, <1>5, <2>1 DEF Held, Typed
<1>11. ASSUME NEW b \in Agents, Load(b) < limit[b], skills[a] = skills[b], choice[b] = "online"
       PROVE  Load(a) <= Load(b)
  <2>1. b \in Candidates(c)  BY <1>11 DEF Candidates, Available, Load
  <2>2. ~Better(b, a, c)  BY <1>2, <2>1 DEF Best
  <2>3. SkillScore(b, c) = SkillScore(a, c)  BY <1>11 DEF SkillScore
  <2> QED  BY <2>2, <2>3, HeldFinite DEF Better
<1>12. ASSUME Undisturbed PROVE LoadedAlike'
  <2> SUFFICES ASSUME NEW d \in Agents, NEW b \in Agents, skills[d] = skills[b],
                      Load(d)' < limit[d], Load(b)' < limit[b]
               PROVE  Load(d)' <= Load(b)' + 1
    BY <1>4 DEF LoadedAlike
  <2>1. Load(d) \in Nat /\ Load(b) \in Nat /\ limit[d] \in Nat /\ limit[b] \in Nat
    BY <1>1, HeldFinite, RoutingAssumption DEF Typed
  <2>2. choice[b] = "online" /\ choice[d] = "online"  BY <1>12 DEF RInv
  <2>3. Load(d) < limit[d] /\ Load(b) < limit[b]  BY <1>9, <1>10, <2>1
  <2>4. Load(d) <= Load(b) + 1  BY <1>12, <2>3 DEF RInv, LoadedAlike, Undisturbed
  <2>5. CASE d = a
    <3>1. Load(a) <= Load(b)  BY <1>11, <2>2, <2>3, <2>5
    <3> QED  BY <1>9, <1>10, <2>1, <2>5, <3>1
  <2>6. CASE d # a
    BY <1>9, <1>10, <2>1, <2>4, <2>6
  <2> QED  BY <2>5, <2>6
<1> QED  BY <1>4, <1>7, <1>12 DEF RInv, Undisturbed

LEMMA StepRInv == ASSUME IsFiniteSet(Chats), RInv, [Next]_vars PROVE RInv'
<1>1. Typed /\ Typed'  BY NextTyped DEF RInv
<1>2. CASE Assign  BY <1>2, AssignRInv
<1>3. CASE Skip \/ NoAgent \/ UNCHANGED vars
  BY <1>1, <1>3, IdleRInv DEF Skip, NoAgent, vars, agents
<1>4. ASSUME NEW c \in Chats, Message(c) PROVE RInv'
  BY <1>1, <1>4, IdleRInv DEF Message, agents
<1>5. ASSUME NEW c \in Chats, Close(c) PROVE RInv'
  BY <1>1, <1>5, IdleRInv DEF Close, Undisturbed, Typed
<1>6. ASSUME NEW a \in Agents, GoOffline(a) PROVE RInv'
  BY <1>1, <1>6, IdleRInv DEF GoOffline, Change, Undisturbed, Typed
<1>7. ASSUME NEW a \in Agents, NEW status, Choose(a, status) PROVE RInv'
  BY <1>1, <1>7, IdleRInv DEF Choose, Change, Undisturbed, Typed
<1>8. ASSUME NEW a \in Agents, NEW n \in Limits, SetLimit(a, n) PROVE RInv'
  BY <1>1, <1>8, IdleRInv DEF SetLimit, Change, Undisturbed, Typed
<1> QED  BY <1>2, <1>3, <1>4, <1>5, <1>6, <1>7, <1>8, Zenon DEF Next

-----------------------------------------------------------------------------
(* The queue *)

\* A finite set can be listed in any strict total order (the pairs of R): each element goes
\* where the number of elements before it says.
LEMMA Sortable ==
  ASSUME NEW S, IsFiniteSet(S), NEW R,
         \A x \in S : <<x, x>> \notin R,
         \A x, y, z \in S : <<x, y>> \in R /\ <<y, z>> \in R => <<x, z>> \in R,
         \A x, y \in S : x = y \/ <<x, y>> \in R \/ <<y, x>> \in R
  PROVE  \E s \in SetToSeqs(S) : \A i, j \in DOMAIN s : i < j => <<s[i], s[j]>> \in R
<1> DEFINE n == Cardinality(S)
           Lower(x) == {y \in S : <<y, x>> \in R}
           rank == [x \in S |-> Cardinality(Lower(x)) + 1]
<1>1. n \in Nat /\ IsFiniteSet(1..n) /\ Cardinality(1..n) = n
  BY FS_CardinalityType, FS_Interval
<1>2. ASSUME NEW x \in S
      PROVE  IsFiniteSet(Lower(x)) /\ Cardinality(Lower(x)) \in Nat
  BY FS_Subset, FS_CardinalityType
<1>3. ASSUME NEW x \in S PROVE rank[x] \in 1..n
  <2>1. Lower(x) \subseteq S /\ Lower(x) # S  OBVIOUS
  <2>2. Cardinality(Lower(x)) <= n /\ Cardinality(Lower(x)) # n  BY <2>1, FS_Subset
  <2> QED  BY <1>1, <1>2, <2>2
<1>4. ASSUME NEW x \in S, NEW y \in S, <<x, y>> \in R PROVE rank[x] < rank[y]
  <2>1. Lower(x) \subseteq Lower(y) /\ x \in Lower(y) /\ x \notin Lower(x)  BY <1>4
  <2>2. Cardinality(Lower(x)) <= Cardinality(Lower(y)) /\ Cardinality(Lower(x)) # Cardinality(Lower(y))
    BY <1>2, <2>1, FS_Subset
  <2> QED  BY <1>2, <2>2
<1> HIDE DEF rank, n
<1>5. rank \in [S -> 1..n]  BY <1>3 DEF rank
<1>6. \A x, y \in S : rank[x] = rank[y] => x = y
  <2> SUFFICES ASSUME NEW x \in S, NEW y \in S, x # y PROVE rank[x] # rank[y]  OBVIOUS
  <2>1. rank[x] \in Int /\ rank[y] \in Int  BY <1>1, <1>3
  <2>2. CASE <<x, y>> \in R
    <3>1. rank[x] < rank[y]  BY <1>4, <2>2
    <3> QED  BY <2>1, <3>1
  <2>3. CASE <<y, x>> \in R
    <3>1. rank[y] < rank[x]  BY <1>4, <2>3
    <3> QED  BY <2>1, <3>1
  <2> QED  BY <2>2, <2>3
<1>7. rank \in Injection(S, 1..n)  BY <1>5, <1>6 DEF Injection, IsInjective
<1>8. rank \in Surjection(S, 1..n)  BY <1>1, <1>7, FS_Injection DEF n
<1>9. \A i \in 1..n : \E x \in S : rank[x] = i  BY <1>8 DEF Surjection
<1> DEFINE s == [i \in 1..n |-> CHOOSE x \in S : rank[x] = i]
<1>10. \A i \in 1..n : s[i] \in S /\ rank[s[i]] = i  BY <1>9
<1>11. DOMAIN s = 1..n  OBVIOUS
<1>12. s \in [1..n -> S]  BY <1>10
<1> HIDE DEF s
<1>13. s \in SetToSeqs(S)  BY <1>10, <1>12 DEF SetToSeqs, n
<1>14. ASSUME NEW i \in 1..n, NEW j \in 1..n, i < j PROVE <<s[i], s[j]>> \in R
  <2>1. s[i] \in S /\ s[j] \in S /\ rank[s[i]] = i /\ rank[s[j]] = j /\ i \in Int /\ j \in Int
    BY <1>1, <1>10
  <2>2. s[i] # s[j]  BY <1>14, <2>1
  <2>3. <<s[j], s[i]>> \notin R  BY <1>4, <1>14, <2>1
  <2> QED  BY <2>1, <2>2, <2>3
<1> QED  BY <1>11, <1>13, <1>14

\* Every conversation has a last message of its own, once it has one.
Timed ==
  /\ at \in [Chats -> Nat] /\ time \in Nat
  /\ \A c \in Chats : at[c] <= time /\ (state[c] # "new" => at[c] > 0)
  /\ \A c, d \in Chats : at[c] = at[d] /\ at[c] > 0 => c = d

\* Only open conversations are held.
OpenHeld == \A c \in Chats : assignee[c] # None => state[c] = "open"

\* Who waits beside a free agent is about to be treated.
Treated == Waiting \subseteq Range(queue) \/ Available = {}

QInv == Typed /\ Timed /\ OpenHeld /\ queue \in Seq(Chats) /\ Treated

LEMMA SortedLists ==
  ASSUME IsFiniteSet(Chats), Timed, NEW W \in SUBSET Chats, \A c \in W : at[c] > 0
  PROVE  /\ Sorted(W) \in [1..Cardinality(W) -> W]
         /\ \A i, j \in 1..Cardinality(W) : i # j => Sorted(W)[i] # Sorted(W)[j]
         /\ Cardinality(W) \in Nat /\ Cardinality(W) <= Cardinality(Chats) /\ Cardinality(Chats) \in Nat
<1> DEFINE R == {p \in W \X W : at[p[1]] < at[p[2]]}
           Rising(s) == \A i, j \in DOMAIN s : i < j => at[s[i]] <= at[s[j]]
<1>1. \A c \in W : at[c] \in Nat  BY DEF Timed
<1>2. IsFiniteSet(W)  BY FS_Subset
<1>3. \A c, d \in W : <<c, d>> \in R <=> at[c] < at[d]  OBVIOUS
<1>4. \A c, d \in W : c = d \/ at[c] # at[d]  BY DEF Timed
<1> HIDE DEF R
<1>5. \A c \in W : <<c, c>> \notin R  BY <1>1, <1>3
<1>6. \A c, d, e \in W : <<c, d>> \in R /\ <<d, e>> \in R => <<c, e>> \in R  BY <1>1, <1>3
<1>7. \A c, d \in W : c = d \/ <<c, d>> \in R \/ <<d, c>> \in R
  <2> SUFFICES ASSUME NEW c \in W, NEW d \in W, c # d
               PROVE  at[c] < at[d] \/ at[d] < at[c]
    BY <1>3, Zenon
  <2>1. at[c] \in Nat /\ at[d] \in Nat /\ at[c] # at[d]  BY <1>1, <1>4
  <2> QED  BY <2>1
<1>8. PICK s \in SetToSeqs(W) : \A i, j \in DOMAIN s : i < j => <<s[i], s[j]>> \in R
  BY <1>2, <1>5, <1>6, <1>7, Sortable
<1>9. s \in [1..Cardinality(W) -> W]  BY <1>8 DEF SetToSeqs
<1>10. Rising(s)
  <2> SUFFICES ASSUME NEW i \in DOMAIN s, NEW j \in DOMAIN s, i < j PROVE at[s[i]] <= at[s[j]]
    OBVIOUS
  <2>1. s[i] \in W /\ s[j] \in W  BY <1>9
  <2>2. <<s[i], s[j]>> \in R  BY <1>8
  <2>3. at[s[i]] < at[s[j]]  BY <1>3, <2>1, <2>2
  <2> QED  BY <1>1, <2>1, <2>3
<1>11. Sorted(W) \in SetToSeqs(W)  BY <1>8, <1>10 DEF Sorted
<1> QED  BY <1>11, FS_Subset, FS_CardinalityType DEF SetToSeqs

\* listQueue returns whom it is given, when it is given no more than it may return.
LEMMA QueueCovers ==
  ASSUME IsFiniteSet(Chats), Cardinality(Chats) <= QueueLimit, Timed,
         NEW W \in SUBSET Chats, \A c \in W : at[c] > 0
  PROVE  ListQueue(W) \in Seq(Chats) /\ W \subseteq Range(ListQueue(W))
<1>1. PICK q : q = Sorted(W)  OBVIOUS
<1>2. IsFiniteSet(W) /\ Cardinality(W) \in Nat /\ Cardinality(W) <= QueueLimit
  BY FS_Subset, FS_CardinalityType, RoutingAssumption
<1>3. q \in [1..Cardinality(W) -> W] /\ \A i, j \in 1..Cardinality(W) : i # j => q[i] # q[j]
  BY <1>1, SortedLists
<1>4. q \in Injection(1..Cardinality(W), W)  BY <1>3 DEF Injection, IsInjective
<1>5. Cardinality(1..Cardinality(W)) = Cardinality(W)  BY <1>2, FS_Interval
<1>6. q \in Surjection(1..Cardinality(W), W)  BY <1>2, <1>4, <1>5, FS_Injection
<1>7. W \subseteq Range(q)  BY <1>3, <1>6 DEF Surjection, Range
<1>8. q \in Seq(W) /\ q \in Seq(Chats) /\ Len(q) = Cardinality(W)  BY <1>2, <1>3
<1>9. Min({QueueLimit, Len(q)}) = Len(q)  BY <1>2, <1>8, RoutingAssumption DEF Min
<1>10. SubSeq(q, 1, Len(q)) = q  BY <1>8, SubSeqFull
<1>11. ListQueue(W) = q  BY <1>1, <1>9, <1>10 DEF ListQueue
<1> QED  BY <1>7, <1>8, <1>11

LEMMA TailCovers ==
  ASSUME NEW q \in Seq(Chats), q # <<>>
  PROVE  Tail(q) \in Seq(Chats) /\ Head(q) \in Chats /\ Range(q) \subseteq {Head(q)} \cup Range(Tail(q))
<1>1. Head(q) = q[1] /\ Tail(q) \in Seq(Chats) /\ Len(Tail(q)) = Len(q) - 1 /\ Head(q) \in Chats
  BY HeadTailProperties
<1>2. \A i \in 1..Len(Tail(q)) : Tail(q)[i] = q[i + 1]  BY HeadTailProperties
<1>3. ASSUME NEW i \in DOMAIN q PROVE q[i] = Head(q) \/ q[i] \in Range(Tail(q))
  <2>1. CASE i = 1  BY <1>1, <2>1
  <2>2. CASE i # 1
    <3>1. i - 1 \in 1..Len(Tail(q))  BY <1>1, <2>2
    <3>2. q[i] = Tail(q)[i - 1]  BY <1>2, <3>1
    <3>3. DOMAIN Tail(q) = 1..Len(Tail(q))  BY <1>1
    <3> QED  BY <3>1, <3>2, <3>3 DEF Range
  <2> QED  BY <2>1, <2>2
<1> QED  BY <1>1, <1>3 DEF Range

LEMMA NothingQueued == <<>> \in Seq(Chats) /\ Range(<<>>) = {}
BY DEF Range

LEMMA InitQInv == ASSUME Init PROVE QInv
<1>1. Typed  BY RoutingAssumption DEF Init, Typed
<1>2. Timed  BY DEF Init, Timed
<1>3. OpenHeld /\ queue \in Seq(Chats) /\ Waiting = {}  BY NothingQueued DEF Init, OpenHeld, Waiting
<1> QED  BY <1>1, <1>2, <1>3 DEF QInv, Treated

-----------------------------------------------------------------------------
(* Nobody waits beside a free agent *)

\* The conversation at the head is given away, or need not be.
LEMMA HeadQInv == ASSUME QInv, Assign \/ Skip PROVE QInv'
<1>1. Typed /\ Timed /\ OpenHeld /\ queue \in Seq(Chats) /\ queue # <<>>
  BY DEF QInv, Assign, Skip, Quiet
<1>2. queue' = Tail(queue) /\ at' = at /\ state' = state  BY DEF Assign, Skip
<1>3. limit' = limit /\ choice' = choice  BY DEF Assign, Skip, agents
<1>4. PICK c : c = Head(queue)  OBVIOUS
<1>5. c \in Chats /\ queue' \in Seq(Chats) /\ Range(queue) \subseteq {c} \cup Range(queue')
  BY <1>1, <1>2, <1>4, TailCovers
<1>6. Typed'  BY <1>1, NextTyped DEF Next
<1>7. CASE Skip
  <2>1. c \notin Waiting /\ assignee' = assignee /\ time' = time  BY <1>4, <1>7 DEF Skip
  <2>2. Waiting' = Waiting /\ Available' = Available
    BY <1>2, <1>3, <2>1 DEF Waiting, Available, Held
  <2>3. Timed' /\ OpenHeld'  BY <1>1, <1>2, <2>1 DEF Timed, OpenHeld
  <2>4. Treated'  BY <1>5, <2>1, <2>2 DEF QInv, Treated
  <2> QED  BY <1>5, <1>6, <2>3, <2>4 DEF QInv
<1>8. CASE Assign
  <2>1. PICK a \in Best(c) : assignee' = [assignee EXCEPT ![c] = a]
    BY <1>4, <1>8, Zenon DEF Assign
  <2>2. c \in Waiting /\ time' = time + 1  BY <1>4, <1>8 DEF Assign
  <2>3. a \in Available /\ a # None  BY RoutingAssumption DEF Best, Candidates, Available
  <2>4. assignee'[c] = a /\ \A d \in Chats : d # c => assignee'[d] = assignee[d]
    BY <1>1, <1>5, <2>1 DEF Typed
  <2>5. Waiting' = Waiting \ {c}  BY <1>2, <2>3, <2>4 DEF Waiting
  <2>6. Timed'  BY <1>1, <1>2, <2>2 DEF Timed
  <2>7. OpenHeld'  BY <1>1, <1>2, <2>2, <2>4 DEF OpenHeld, Waiting
  <2>8. Treated'  BY <1>5, <2>3, <2>5 DEF QInv, Treated
  <2> QED  BY <1>5, <1>6, <2>6, <2>7, <2>8 DEF QInv
<1> QED  BY <1>7, <1>8

LEMMA NoAgentQInv == ASSUME QInv, NoAgent PROVE QInv'
<1>1. Typed /\ Timed /\ OpenHeld  BY DEF QInv
<1>2. queue' = <<>> /\ Available = {}  BY DEF NoAgent, Candidates
<1>3. /\ at' = at /\ state' = state /\ assignee' = assignee /\ time' = time
      /\ limit' = limit /\ choice' = choice
  BY DEF NoAgent, agents
<1>4. Available' = {}  BY <1>2, <1>3 DEF Available, Held
<1>5. Timed' /\ OpenHeld'  BY <1>1, <1>3 DEF Timed, OpenHeld
<1>6. Typed'  BY <1>1, NextTyped DEF Next
<1> QED  BY <1>2, <1>4, <1>5, <1>6, NothingQueued DEF QInv, Treated

LEMMA MessageQInv == ASSUME QInv, NEW c \in Chats, Message(c) PROVE QInv'
<1>1. Typed /\ Timed /\ OpenHeld  BY DEF QInv
<1>2. /\ queue = <<>> /\ queue' = <<c>> /\ time' = time + 1 /\ assignee' = assignee
      /\ at' = [at EXCEPT ![c] = time + 1] /\ state' = [state EXCEPT ![c] = "open"]
  BY DEF Message, Quiet
<1>3. limit' = limit /\ choice' = choice  BY DEF Message, agents
<1>4. /\ \A d \in Chats : d # c => at'[d] = at[d] /\ state'[d] = state[d]
      /\ at' \in [Chats -> Nat] /\ at'[c] = time + 1
  BY <1>1, <1>2 DEF Timed
<1>5. Timed'  BY <1>1, <1>2, <1>4 DEF Timed
<1>6. OpenHeld'
  <2>1. ASSUME NEW d \in Chats, assignee[d] # None PROVE state[d] = "open"
    BY <1>1, <2>1 DEF OpenHeld
  <2>2. ASSUME NEW d \in Chats, state[d] = "open" PROVE state'[d] = "open"  BY <1>2, <2>2
  <2> QED  BY <1>2, <2>1, <2>2 DEF OpenHeld
<1>7. Waiting' \subseteq Waiting \cup {c}  BY <1>2, <1>4 DEF Waiting
<1>8. Available' = Available  BY <1>2, <1>3 DEF Available, Held
<1>9. c \in Range(<<c>>)  BY DEF Range
<1>10. Treated'  BY <1>2, <1>7, <1>8, <1>9, NothingQueued DEF QInv, Treated
<1>11. Typed'  BY <1>1, NextTyped DEF Next
<1> QED  BY <1>2, <1>5, <1>6, <1>10, <1>11 DEF QInv

\* The queue is listed, for everybody who waits then.
LEMMA ListedQInv ==
  ASSUME IsFiniteSet(Chats), Cardinality(Chats) <= QueueLimit, QInv, Typed', OpenHeld',
         at' = at, time' = time,
         \A c \in Chats : state'[c] # "new" => state[c] # "new",
         queue' = ListQueue(Waiting')
  PROVE  QInv'
<1>1. Timed'  BY DEF QInv, Timed
<1>2. Waiting' \subseteq Chats /\ \A c \in Waiting' : at[c] > 0  BY <1>1 DEF Waiting, Timed
<1>3. PICK W : W = Waiting'  OBVIOUS
<1>4. W \in SUBSET Chats /\ \A c \in W : at[c] > 0  BY <1>2, <1>3
<1>5. ListQueue(W) \in Seq(Chats) /\ W \subseteq Range(ListQueue(W))
  BY <1>4, QueueCovers DEF QInv
<1> QED  BY <1>1, <1>3, <1>5 DEF QInv, Treated
\* Nothing is listed: as many wait, and nobody is free who was not.
LEMMA UnlistedQInv ==
  ASSUME QInv, Typed', Timed', OpenHeld', Quiet, queue' = <<>>,
         Waiting' = Waiting, Available' \subseteq Available
  PROVE  QInv'
BY NothingQueued DEF QInv, Treated, Quiet

LEMMA CloseQInv ==
  ASSUME IsFiniteSet(Chats), Cardinality(Chats) <= QueueLimit, QInv, NEW c \in Chats, Close(c)
  PROVE  QInv'
<1>1. Typed /\ Timed /\ OpenHeld  BY DEF QInv
<1>2. /\ at' = at /\ time' = time /\ state[c] = "open"
      /\ state' = [state EXCEPT ![c] = "closed"] /\ assignee' = [assignee EXCEPT ![c] = None]
  BY DEF Close, Closed
<1>3. /\ \A d \in Chats : d # c => state'[d] = state[d] /\ assignee'[d] = assignee[d]
      /\ assignee'[c] = None
  BY <1>1, <1>2 DEF Typed
<1>4. Waiting' = Waiting \ {c}
  <2>1. c \notin Waiting'  BY <1>1, <1>2 DEF Waiting, Typed
  <2> QED  BY <1>2, <1>3, <2>1 DEF Waiting
<1>5. queue' = ListQueue(Waiting')  BY <1>4 DEF Close, RoomMade
<1>6. OpenHeld'  BY <1>1, <1>3 DEF OpenHeld
<1>7. \A d \in Chats : state'[d] # "new" => state[d] # "new"  BY <1>2, <1>3
<1>8. Typed'  BY <1>1, NextTyped DEF Next
<1> QED  BY <1>2, <1>5, <1>6, <1>7, <1>8, ListedQInv

\* A status or a limit is changed: the queue is listed if that may make room, and otherwise nobody
\* is free who was not.
LEMMA SettingQInv ==
  ASSUME IsFiniteSet(Chats), Cardinality(Chats) <= QueueLimit, QInv, NEW a \in Agents,
         (\E status \in {"online", "busy"} : Choose(a, status)) \/ (\E n \in Limits : SetLimit(a, n))
  PROVE  QInv'
<1>1. Typed /\ Timed /\ OpenHeld  BY DEF QInv
<1>2. at' = at /\ time' = time /\ state' = state /\ assignee' = assignee /\ Quiet
  BY DEF Choose, SetLimit, Change
<1>3. Typed'  BY <1>1, NextTyped DEF Next
<1>4. Timed' /\ OpenHeld' /\ Waiting' = Waiting  BY <1>1, <1>2 DEF Timed, OpenHeld, Waiting
<1>5. CASE queue' = ListQueue(Waiting)
  <2>1. queue' = ListQueue(Waiting')  BY <1>4, <1>5
  <2> QED  BY <1>2, <1>3, <1>4, <2>1, ListedQInv
<1>6. CASE queue' = <<>> /\ choice'[a] # "online"
  <2>1. \A b \in Agents : b # a => choice'[b] = choice[b] /\ limit'[b] = limit[b]
    BY <1>1 DEF Choose, SetLimit, Typed
  <2>2. Available' \subseteq Available  BY <1>2, <1>6, <2>1 DEF Available, Held
  <2> QED  BY <1>2, <1>3, <1>4, <1>6, <2>2, UnlistedQInv
<1>7. choice'[a] = "online" => queue' = ListQueue(Waiting)
  BY <1>1 DEF Choose, SetLimit, Typed
<1>8. choice'[a] # "online" => queue' = <<>>
  BY <1>1 DEF Choose, SetLimit, Typed
<1> QED  BY <1>5, <1>6, <1>7, <1>8

LEMMA GoOfflineQInv ==
  ASSUME IsFiniteSet(Chats), Cardinality(Chats) <= QueueLimit, QInv, NEW a \in Agents, GoOffline(a)
  PROVE  QInv'
<1>1. Typed /\ Timed /\ OpenHeld /\ a # None  BY RoutingAssumption DEF QInv
<1>2. /\ at' = at /\ time' = time /\ state' = state /\ Quiet /\ limit' = limit
      /\ assignee' = [c \in Chats |-> IF assignee[c] = a THEN None ELSE assignee[c]]
      /\ choice' = [choice EXCEPT ![a] = "offline"]
  BY DEF GoOffline, Change
<1>3. Typed'  BY <1>1, NextTyped DEF Next
<1>4. Timed' /\ OpenHeld'  BY <1>1, <1>2 DEF Timed, OpenHeld
<1>5. Waiting' = Waiting \cup Held(a)
  <2> SUFFICES ASSUME NEW c \in Chats
               PROVE  state'[c] = "open" /\ assignee'[c] = None
                        <=> (state[c] = "open" /\ assignee[c] = None) \/ assignee[c] = a
    BY DEF Waiting, Held
  <2>1. assignee'[c] = None <=> assignee[c] \in {None, a}  BY <1>2
  <2>2. assignee[c] = a => state[c] = "open"  BY <1>1 DEF OpenHeld
  <2> QED  BY <1>2, <2>1, <2>2
<1>6. CASE Held(a) = {}
  <2>1. queue' = <<>> /\ Waiting' = Waiting  BY <1>5, <1>6 DEF GoOffline
  <2>2. assignee' = assignee
    <3>1. \A c \in Chats : assignee'[c] = assignee[c]  BY <1>2, <1>6 DEF Held
    <3> QED  BY <1>1, <1>3, <3>1 DEF Typed
  <2>3. choice'[a] = "offline" /\ \A b \in Agents : b # a => choice'[b] = choice[b]
    BY <1>1, <1>2 DEF Typed
  <2>4. Available' \subseteq Available  BY <1>2, <2>2, <2>3 DEF Available, Held
  <2> QED  BY <1>2, <1>3, <1>4, <2>1, <2>4, UnlistedQInv
<1>7. CASE Held(a) # {}
  <2>1. queue' = ListQueue(Waiting')  BY <1>5, <1>7 DEF GoOffline
  <2> QED  BY <1>2, <1>3, <1>4, <2>1, ListedQInv
<1> QED  BY <1>6, <1>7

LEMMA NextQInv ==
  ASSUME IsFiniteSet(Chats), Cardinality(Chats) <= QueueLimit, QInv, [Next]_vars
  PROVE  QInv'
<1>1. CASE UNCHANGED vars
  <2>1. Typed'  BY NextTyped DEF QInv
  <2> QED
    BY <1>1, <2>1 DEF vars, agents, QInv, Timed, OpenHeld, Treated, Waiting, Available, Held
<1> QED
  BY <1>1, HeadQInv, NoAgentQInv, MessageQInv, CloseQInv, GoOfflineQInv, SettingQInv, Zenon DEF Next

-----------------------------------------------------------------------------
(* Type correctness *)

Queued == queue \in Seq(Chats) /\ Len(queue) <= Cardinality(Chats)

\* Times are within the bound, and whoever has written waits, or waited, from some time on.
Dated ==
  /\ skills \in [Agents -> SUBSET Topics] /\ topic \in [Chats -> Topics \cup {"general"}]
  /\ time <= MaxTime /\ last \in [Agents -> 0..MaxTime] /\ since \in [Chats -> 0..MaxTime]
  /\ \A c \in Chats : state[c] = "open" => since[c] > 0

TInv == Typed /\ Timed /\ OpenHeld /\ Dated /\ Queued

LEMMA InitTInv == ASSUME IsFiniteSet(Chats), Init PROVE TInv
<1>1. Typed /\ Timed /\ OpenHeld  BY RoutingAssumption DEF Init, Typed, Timed, OpenHeld
<1>2. Dated  BY RoutingAssumption DEF Init, Dated
<1>3. Queued  BY FS_CardinalityType DEF Init, Queued
<1> QED  BY <1>1, <1>2, <1>3 DEF TInv

\* What listQueue returns fits, whether or not it is cut off.
LEMMA ListFits ==
  ASSUME IsFiniteSet(Chats), Timed, NEW W \in SUBSET Chats, \A c \in W : at[c] > 0
  PROVE  ListQueue(W) \in Seq(Chats) /\ Len(ListQueue(W)) <= Cardinality(Chats)
<1> DEFINE n == Cardinality(W)
           m == IF QueueLimit < n THEN QueueLimit ELSE n
<1>1. PICK q : q = Sorted(W)  OBVIOUS
<1>2. q \in [1..n -> Chats] /\ n \in Nat /\ n <= Cardinality(Chats) /\ Cardinality(Chats) \in Nat
  BY <1>1, SortedLists
<1> HIDE DEF n
<1>3. q \in Seq(Chats) /\ Len(q) = n  BY <1>2
<1>4. m \in Nat /\ m <= n  BY <1>2, RoutingAssumption
<1>5. Min({QueueLimit, n}) = m  BY <1>2, RoutingAssumption DEF Min
<1>6. ListQueue(W) = SubSeq(q, 1, m)  BY <1>1, <1>3, <1>5 DEF ListQueue
<1> HIDE DEF m
<1>7. SubSeq(q, 1, m) \in Seq(Chats) /\ Len(SubSeq(q, 1, m)) = m
  <2>1. \A i \in 1..m : q[i] \in Chats  BY <1>2, <1>4
  <2>2. /\ SubSeq(q, 1, m) \in Seq(Chats)
        /\ Len(SubSeq(q, 1, m)) = IF 1 <= m THEN m - 1 + 1 ELSE 0
    BY <1>3, <1>4, <2>1, SubSeqProperties
  <2> QED  BY <1>4, <2>2
<1> QED  BY <1>2, <1>4, <1>6, <1>7

\* An empty list, or what listQueue returns for conversations that have been written to.
LEMMA ListQueued ==
  ASSUME IsFiniteSet(Chats), Timed, NEW W \in SUBSET Chats, \A c \in W : state[c] # "new",
         queue' \in {<<>>, ListQueue(W)}
  PROVE  Queued'
<1>1. \A c \in W : at[c] > 0  BY DEF Timed
<1>2. CASE queue' = <<>>
  <2>1. Cardinality(Chats) \in Nat  BY FS_CardinalityType
  <2> QED  BY <1>2, <2>1 DEF Queued
<1>3. CASE queue' = ListQueue(W)  BY <1>1, <1>3, ListFits DEF Queued
<1> QED  BY <1>2, <1>3

LEMMA AssignTInv == ASSUME IsFiniteSet(Chats), TInv, Assign \/ Skip \/ NoAgent PROVE TInv'
<1>1. Typed /\ Timed /\ OpenHeld /\ Dated /\ Queued /\ queue # <<>> /\ Typed'
  BY NextTyped DEF TInv, Assign, Skip, NoAgent, Quiet, Next
<1>2. /\ skills' = skills /\ topic' = topic /\ state' = state /\ at' = at /\ since' = since
      /\ queue' \in {<<>>, Tail(queue)}
  BY DEF Assign, Skip, NoAgent, agents
<1>3. Queued'
  <2>1. Tail(queue) \in Seq(Chats) /\ Len(Tail(queue)) = Len(queue) - 1 /\ Len(queue) \in Nat
    BY <1>1, HeadTailProperties, LenProperties DEF Queued
  <2>2. Cardinality(Chats) \in Nat /\ Len(queue) <= Cardinality(Chats)  BY <1>1, FS_CardinalityType DEF Queued
  <2>3. PICK q : q = Tail(queue)  OBVIOUS
  <2>4. q \in Seq(Chats) /\ Len(q) <= Cardinality(Chats)  BY <2>1, <2>2, <2>3
  <2>5. <<>> \in Seq(Chats) /\ Len(<<>>) <= Cardinality(Chats)  BY <2>2
  <2>6. queue' = <<>> \/ queue' = q  BY <1>2, <2>3
  <2> QED  BY <2>4, <2>5, <2>6, Zenon DEF Queued
<1>4. CASE Assign
  <2> DEFINE c == Head(queue)
  <2>1. c \in Waiting /\ time < MaxTime /\ time' = time + 1  BY <1>4 DEF Assign
  <2>2. PICK a \in Best(c) : assignee' = [assignee EXCEPT ![c] = a] /\ last' = [last EXCEPT ![a] = time + 1]
    BY <1>4, Zenon DEF Assign
  <2>3. c \in Chats /\ state[c] = "open"  BY <2>1 DEF Waiting
  <2> HIDE DEF c
  <2>4. Timed'  BY <1>1, <1>2, <2>1 DEF Timed
  <2>5. OpenHeld'  BY <1>1, <1>2, <2>2, <2>3 DEF OpenHeld, Typed
  <2>6. Dated'
    <3>1. time + 1 \in 0..MaxTime  BY <1>1, <2>1, RoutingAssumption DEF Timed
    <3>2. last' \in [Agents -> 0..MaxTime]  BY <1>1, <2>2, <3>1 DEF Dated
    <3>3. time' <= MaxTime  BY <2>1, <3>1
    <3> QED  BY <1>1, <1>2, <3>2, <3>3 DEF Dated
  <2> QED  BY <1>1, <1>3, <2>4, <2>5, <2>6 DEF TInv
<1>5. CASE Skip \/ NoAgent
  <2>1. time' = time /\ assignee' = assignee /\ last' = last  BY <1>5 DEF Skip, NoAgent
  <2>2. Timed' /\ OpenHeld' /\ Dated'  BY <1>1, <1>2, <2>1 DEF Timed, OpenHeld, Dated
  <2> QED  BY <1>1, <1>3, <2>2 DEF TInv
<1> QED  BY <1>4, <1>5

LEMMA ChatTInv == ASSUME IsFiniteSet(Chats), TInv, NEW c \in Chats, Message(c) \/ Close(c) PROVE TInv'
<1>1. Typed /\ Timed /\ OpenHeld /\ Dated /\ Typed' /\ skills' = skills /\ topic' = topic /\ last' = last
  BY NextTyped DEF TInv, Message, Close, agents, Next
<1>2. CASE Message(c)
  <2>1. /\ time < MaxTime /\ time' = time + 1 /\ assignee' = assignee /\ queue' = <<c>>
        /\ at' = [at EXCEPT ![c] = time + 1] /\ state' = [state EXCEPT ![c] = "open"]
        /\ since' = [since EXCEPT ![c] = IF state[c] = "open" THEN @ ELSE time + 1]
    BY <1>2 DEF Message
  <2>2. Timed'  BY <1>1, <2>1 DEF Timed, Typed
  <2>3. OpenHeld'  BY <1>1, <2>1 DEF OpenHeld, Typed
  <2>4. Dated'  BY <1>1, <2>1, RoutingAssumption DEF Dated, Timed, Typed
  <2>5. Queued'
    <3>1. Cardinality(Chats) \in Nat /\ Cardinality(Chats) # 0  BY FS_CardinalityType, FS_EmptySet
    <3>2. <<c>> \in Seq(Chats) /\ Len(<<c>>) = 1  OBVIOUS
    <3> QED  BY <2>1, <3>1, <3>2 DEF Queued
  <2> QED  BY <1>1, <2>2, <2>3, <2>4, <2>5 DEF TInv
<1>3. CASE Close(c)
  <2>1. /\ state[c] = "open" /\ state' = [state EXCEPT ![c] = "closed"]
        /\ assignee' = [assignee EXCEPT ![c] = None] /\ time' = time /\ at' = at /\ since' = since
        /\ queue' = ListQueue(Waiting \ {c})
    BY <1>3 DEF Close, Closed, RoomMade
  <2>2. Timed' /\ OpenHeld' /\ Dated'  BY <1>1, <2>1 DEF Timed, OpenHeld, Dated, Typed
  <2>3. Queued'  BY <1>1, <2>1, ListQueued DEF Waiting
  <2> QED  BY <1>1, <2>2, <2>3 DEF TInv
<1> QED  BY <1>2, <1>3

LEMMA AgentTInv ==
  ASSUME IsFiniteSet(Chats), TInv, NEW a \in Agents,
         \/ GoOffline(a)
         \/ \E status \in {"online", "busy"} : Choose(a, status)
         \/ \E n \in Limits : SetLimit(a, n)
  PROVE  TInv'
<1>1. /\ Typed /\ Timed /\ OpenHeld /\ Dated /\ Typed'
      /\ skills' = skills /\ topic' = topic /\ last' = last /\ state' = state /\ at' = at /\ time' = time
  BY NextTyped DEF TInv, GoOffline, Choose, SetLimit, Next
<1>2. Timed'  BY <1>1 DEF Timed
<1>3. CASE GoOffline(a)
  <2>1. /\ assignee' = [c \in Chats |-> IF assignee[c] = a THEN None ELSE assignee[c]]
        /\ since' = [c \in Chats |-> IF assignee[c] = a THEN time ELSE since[c]]
        /\ queue' \in {<<>>, ListQueue(Waiting \cup Held(a))}
    BY <1>3 DEF GoOffline
  <2>2. OpenHeld'  BY <1>1, <2>1 DEF OpenHeld
  <2>3. \A c \in Held(a) : c \in Chats /\ state[c] = "open"
    BY <1>1, RoutingAssumption DEF Held, OpenHeld
  <2>4. \A c \in Held(a) : time > 0  BY <1>1, <2>3 DEF Timed
  <2>5. Dated'
    <3>1. time \in 0..MaxTime /\ since \in [Chats -> 0..MaxTime]
      BY <1>1, RoutingAssumption DEF Dated, Timed
    <3>2. since' \in [Chats -> 0..MaxTime]  BY <2>1, <3>1
    <3>3. ASSUME NEW c \in Chats, state[c] = "open" PROVE since'[c] > 0
      <4>1. CASE assignee[c] = a
        <5>1. since'[c] = time  BY <2>1, <4>1
        <5>2. c \in Held(a)  BY <3>3, <4>1 DEF Held
        <5> QED  BY <2>4, <5>1, <5>2
      <4>2. CASE assignee[c] # a
        <5>1. since'[c] = since[c]  BY <2>1, <4>2
        <5> QED  BY <1>1, <3>3, <5>1 DEF Dated
      <4> QED  BY <4>1, <4>2
    <3> QED  BY <1>1, <3>2, <3>3 DEF Dated
  <2>6. Queued'
    <3>1. PICK W : W = Waiting \cup Held(a)  OBVIOUS
    <3>2. W \in SUBSET Chats /\ \A c \in W : state[c] # "new"  BY <2>3, <3>1 DEF Waiting
    <3> QED  BY <1>1, <2>1, <3>1, <3>2, ListQueued
  <2> QED  BY <1>1, <1>2, <2>2, <2>5, <2>6 DEF TInv
<1>4. CASE (\E status \in {"online", "busy"} : Choose(a, status)) \/ (\E n \in Limits : SetLimit(a, n))
  <2>1. assignee' = assignee /\ since' = since /\ queue' \in {<<>>, ListQueue(Waiting)}
    BY <1>4 DEF Choose, SetLimit
  <2>2. OpenHeld' /\ Dated'  BY <1>1, <2>1 DEF OpenHeld, Dated
  <2>3. Queued'  BY <1>1, <2>1, ListQueued DEF Waiting
  <2> QED  BY <1>1, <1>2, <2>2, <2>3 DEF TInv
<1> QED  BY <1>3, <1>4

LEMMA NextTInv == ASSUME IsFiniteSet(Chats), TInv, [Next]_vars PROVE TInv'
<1>1. CASE UNCHANGED vars
  BY <1>1 DEF vars, agents, TInv, Typed, Timed, OpenHeld, Dated, Queued
<1> QED  BY <1>1, AssignTInv, ChatTInv, AgentTInv, Zenon DEF Next

-----------------------------------------------------------------------------
(* The theorems *)

\* In every state of routing the tables are well typed, the queue being treated is no longer than
\* there are conversations, only open conversations are held, and whoever waits has written.
THEOREM RoutingTyped == ASSUME IsFiniteSet(Chats) PROVE Spec => []TypeOK
<1>1. Init => TInv  BY InitTInv
<1>2. TInv /\ [Next]_vars => TInv'  BY NextTInv
<1>3. TInv => TypeOK
  <2> SUFFICES ASSUME TInv PROVE TypeOK  OBVIOUS
  <2>1. at \in [Chats -> 0..MaxTime]  BY RoutingAssumption DEF TInv, Timed, Dated
  <2>2. \A c \in Waiting : at[c] > 0 /\ since[c] > 0  BY DEF TInv, Timed, Dated, Waiting
  <2> QED  BY <2>1, <2>2 DEF TInv, Typed, OpenHeld, Dated, Queued, TypeOK
<1> HIDE DEF TInv, TypeOK, Init, Next
<1> QED  BY <1>1, <1>2, <1>3, PTL DEF Spec

\* However conversations arrive, agents who are alike and always free for more are loaded
\* alike: candidatesFor ranks by load among equal skills, and counts what is held when it asks.
THEOREM LoadsBalanced == ASSUME IsFiniteSet(Chats) PROVE Spec => []LoadedAlike
<1>1. Init => RInv  BY InitRInv
<1>2. RInv /\ [Next]_vars => RInv'  BY StepRInv
<1>3. RInv => LoadedAlike  BY DEF RInv, LoadedAlike, Undisturbed
<1> HIDE DEF RInv, LoadedAlike, Init, Next
<1> QED  BY <1>1, <1>2, <1>3, PTL DEF Spec

\* When routing is done with an event, nobody waits or nobody is free, as long as the queue that
\* listQueue returns is not cut off (conversations.service.ts): whatever makes room drains it, and
\* drainQueue stops early only when nobody is left (assignment.service.ts).
THEOREM NobodyWaitsBesideAFreeAgent ==
  ASSUME IsFiniteSet(Chats), Cardinality(Chats) <= QueueLimit PROVE Spec => []NobodyWaits
<1>1. Init => QInv  BY InitQInv
<1>2. QInv /\ [Next]_vars => QInv'  BY NextQInv
<1>3. QInv => NobodyWaits  BY NothingQueued DEF QInv, Treated, NobodyWaits, Quiet
<1> HIDE DEF QInv, NobodyWaits, Init, Next
<1> QED  BY <1>1, <1>2, <1>3, PTL DEF Spec
=============================================================================
