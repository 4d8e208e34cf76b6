------------------------------ MODULE OpenThread ------------------------------
(***************************************************************************)
(* A conversation that somebody opens while others write to it: the room   *)
(* of chat.gateway.ts for what is new, the history of messages.service.ts  *)
(* with its cache (HistoryCache) for what was before.                      *)
(*                                                                         *)
(* Each write of HistoryCache is a message here, and a page of content n   *)
(* shows the messages 1..n.  One viewer; other readers fill the cache.     *)
(***************************************************************************)
EXTENDS Integers

CONSTANTS
  Procs, MaxWrites, MaxFaults, MaxExpiries, \* of HistoryCache
  None,
  WaitsForRoom \* the viewer asks for the history when the join is acked

VARIABLES
  db, ver, pages, pc, job, faults, epoch, settled, done, \* of HistoryCache
  unsent, \* messages create has returned and the gateway has not emitted yet
  stage,  \* of the viewer: "away", "joining", "joined", "loading" or "open"
  room,   \* the viewer's socket is in the conversation's room
  viewer, \* the request that gets the history for the viewer
  screen, \* the messages the viewer has
  lost    \* history: messages of a failed call to Redis, or of a handler that failed

cacheVars == <<db, ver, pages, pc, job, faults, epoch, settled, done>>
viewVars == <<stage, room, viewer, screen>>
vars == <<cacheVars, viewVars, unsent, lost>>

Cache == INSTANCE HistoryCache

OpenThreadAssumption ==
  Cache!BoundsAssumption /\ WaitsForRoom \in BOOLEAN /\ None \notin Procs

Init ==
  /\ Cache!Init
  /\ unsent = {} /\ lost = {}
  /\ stage = "away" /\ room = FALSE /\ viewer = None /\ screen = {}

-----------------------------------------------------------------------------
(* message:send: create, then the emission *)

\* create: the message is stored ...
Save(p) == Cache!Write(p) /\ UNCHANGED <<viewVars, unsent, lost>>

\* ... and the cache invalidated before create returns, if Redis does its part.
Saved(p) ==
  /\ unsent' = unsent \cup {job[p].content}
  /\ \/ Cache!Invalidate(p) /\ UNCHANGED lost
     \/ Cache!InvalidateSkipped(p) /\ lost' = lost \cup {job[p].content}
  /\ UNCHANGED viewVars

\* message:new, to the sockets that are in the room by now.
Emit(m) ==
  /\ m \in unsent
  /\ unsent' = unsent \ {m}
  /\ screen' = IF room THEN screen \cup {m} ELSE screen
  /\ UNCHANGED <<cacheVars, stage, room, viewer, lost>>

\* isSideInRoom or markDelivered throws: nobody hears of the message.
HandlerFails(m) ==
  /\ m \in unsent /\ faults < MaxFaults
  /\ faults' = faults + 1
  /\ unsent' = unsent \ {m} /\ lost' = lost \cup {m}
  /\ UNCHANGED <<db, ver, pages, pc, job, epoch, settled, done, viewVars>>

-----------------------------------------------------------------------------
(* The viewer *)

\* conversation:join is sent, or a customer's socket connects.
Open ==
  /\ stage = "away"
  /\ stage' = "joining"
  /\ UNCHANGED <<cacheVars, room, viewer, screen, unsent, lost>>

\* enterConversation: the socket is in the room.  Only a join is acked, after that; a connected
\* socket does not learn when it is there.
Enter ==
  /\ stage # "away" /\ ~room
  /\ room' = TRUE
  /\ stage' = IF stage = "joining" THEN "joined" ELSE stage
  /\ UNCHANGED <<cacheVars, viewer, screen, unsent, lost>>

\* GET /conversations/:id/messages.
Get(p) ==
  /\ stage \in (IF WaitsForRoom THEN {"joined"} ELSE {"joining", "joined"})
  /\ pc[p] = "idle" /\ (Cache!Read(p) \/ Cache!ReadWithoutCache(p))
  /\ stage' = "loading" /\ viewer' = p
  /\ UNCHANGED <<room, screen, unsent, lost>>

\* The page is answered; the viewer adds it to what it has heard meanwhile.
Shown ==
  /\ stage = "loading"
  /\ Cache!Answer(viewer)
  /\ screen' = screen \cup 1..job[viewer].content
  /\ stage' = "open" /\ viewer' = None
  /\ UNCHANGED <<room, unsent, lost>>

\* conversation:leave, or a connection that is not recovered.
Leave ==
  /\ stage = "open" /\ room
  /\ stage' = "away" /\ room' = FALSE /\ screen' = {}
  /\ UNCHANGED <<cacheVars, viewer, unsent, lost>>

-----------------------------------------------------------------------------

\* Requests of other readers, and the viewer's until its answer.
OtherRequests ==
  /\ \/ Cache!PageExpires
     \/ \E p \in Procs :
          \/ Cache!Read(p) \/ Cache!ReadWithoutCache(p)
          \/ Cache!Hit(p) \/ Cache!Miss(p) \/ Cache!Load(p) \/ Cache!Store(p) \/ Cache!StoreFails(p)
          \/ p # viewer /\ Cache!Answer(p)
  /\ UNCHANGED <<viewVars, unsent, lost>>

Next ==
  \/ \E p \in Procs : Save(p) \/ Saved(p) \/ Get(p)
  \/ \E m \in unsent : Emit(m) \/ HandlerFails(m)
  \/ Open \/ Enter \/ Shown \/ Leave
  \/ OtherRequests

Spec == Init /\ [][Next]_vars

-----------------------------------------------------------------------------

\* Whoever has a conversation open has every message of it that is stored, but those whose sender's
\* handler has still to invalidate or to emit: a message emitted before the viewer was in the room
\* is in the page the viewer gets after that, from the cache or not, since create invalidates the
\* cache before it returns and the gateway emits after that (messages.service.ts, chat.gateway.ts).
SeesAll ==
  stage = "open" /\ room =>
    \A m \in 1..db : \/ m \in screen \cup unsent \cup lost
                     \/ \E p \in Procs : pc[p] = "invalidate" /\ job[p].content = m
=============================================================================
