----------------------------- MODULE HistoryCache -----------------------------
(***************************************************************************)
(* The cached first page of a conversation's history:                      *)
(* src/modules/chat/services/message-cache.service.ts, as getHistory and   *)
(* the writing methods of messages.service.ts use it.                      *)
(*                                                                         *)
(* One conversation and one page size.  A page is abstracted to the number *)
(* of writes (new message, delivered, read) the database had seen when it  *)
(* was loaded.  A step is one call to MongoDB or Redis.                    *)
(* "Variant" marks a slip of the code that a property notices.             *)
(***************************************************************************)
EXTENDS Integers, FiniteSets

CONSTANTS
  Procs,       \* places where a request can run
  MaxWrites,   \* bound: writes in a behaviour
  MaxFaults,   \* bound: calls to Redis that fail, or are skipped by isReady
  MaxExpiries  \* bound: how often 24 hours pass without a write

ASSUME BoundsAssumption == MaxWrites \in Nat /\ MaxFaults \in Nat /\ MaxExpiries \in Nat

VARIABLES
  db,      \* writes made to the conversation's messages
  ver,     \* the key chat:history:{id}:ver, 0 when there is none
  pages,   \* the keys chat:history:{id}:v{ver}:{limit}
  pc,
  job,     \* a request's local variables
  faults,
  epoch,   \* history: how often the version key has expired
  settled, \* history: the last write whose invalidation has reached Redis
  done     \* history: the last write that has been answered

vars == <<db, ver, pages, pc, job, faults, epoch, settled, done>>
history == <<epoch, settled, done>>

\* What a request knows, and what is cached.  ver and content are the code's; the others are
\* history: when the version was read, what had been invalidated and answered by then, and
\* from which epoch the page comes.
Job(v, e, b, d, n, s) == [ver |-> v, epoch |-> e, base |-> b, done |-> d, content |-> n, source |-> s]
Page(v, e, b, n) == [ver |-> v, epoch |-> e, base |-> b, content |-> n]
NoJob == Job(0, 0, 0, 0, 0, 0)

Steps == {"idle", "invalidate", "lookup", "load", "load_only", "store", "answer"}

Init ==
  /\ db = 0 /\ ver = 0 /\ pages = {}
  /\ pc = [p \in Procs |-> "idle"]
  /\ job = [p \in Procs |-> NoJob]
  /\ faults = 0 /\ epoch = 0 /\ settled = 0 /\ done = 0

Goto(p, step) == pc' = [pc EXCEPT ![p] = step]
SetJob(p, j) == job' = [job EXCEPT ![p] = j]
End(p) == Goto(p, "idle") /\ SetJob(p, NoJob)
Later(m, n) == IF m > n THEN m ELSE n
Fault == faults < MaxFaults /\ faults' = faults + 1
NoFault == UNCHANGED faults

-----------------------------------------------------------------------------
(* Writes: create, markDelivered, markDeliveredTo, markRead *)

Write(p) ==
  /\ pc[p] = "idle" /\ db < MaxWrites
  /\ db' = db + 1
  /\ Goto(p, "invalidate") /\ SetJob(p, Job(0, 0, 0, 0, db + 1, 0))
  /\ NoFault /\ UNCHANGED <<ver, pages, history>>

\* Variant: there is nothing to invalidate under a version that has no key yet.
InvalidateExisting(p) ==
  /\ pc[p] = "invalidate"
  /\ ver' = IF ver = 0 THEN 0 ELSE ver + 1
  /\ settled' = Later(settled, job[p].content)
  /\ done' = Later(done, job[p].content)
  /\ End(p)
  /\ NoFault /\ UNCHANGED <<db, pages, epoch>>

\* invalidate: INCR of the version, which gives it a new time to live.
Invalidate(p) ==
  /\ pc[p] = "invalidate"
  /\ ver' = ver + 1
  /\ settled' = Later(settled, job[p].content)
  /\ done' = Later(done, job[p].content)
  /\ End(p)
  /\ NoFault /\ UNCHANGED <<db, pages, epoch>>

\* Redis is not ready or the call fails: the writer is answered all the same.
InvalidateSkipped(p) ==
  /\ pc[p] = "invalidate"
  /\ Fault
  /\ done' = Later(done, job[p].content)
  /\ End(p)
  /\ UNCHANGED <<db, ver, pages, epoch, settled>>

-----------------------------------------------------------------------------
(* Reads: getHistory without a cursor, getFirstPage *)

\* Variant: a version that is missing is not taken for '0'.
ReadNull(p) ==
  /\ pc[p] = "idle"
  /\ Goto(p, "lookup")
  /\ SetJob(p, Job(IF ver = 0 THEN -1 ELSE ver, epoch, settled, done, 0, epoch))
  /\ NoFault /\ UNCHANGED <<db, ver, pages, history>>

Read(p) ==
  /\ pc[p] = "idle"
  /\ Goto(p, "lookup") /\ SetJob(p, Job(ver, epoch, settled, done, 0, epoch))
  /\ NoFault /\ UNCHANGED <<db, ver, pages, history>>

\* Fails open: the page comes from MongoDB and is not cached.
ReadWithoutCache(p) ==
  /\ pc[p] \in {"idle", "lookup"}
  /\ Fault
  /\ Goto(p, "load_only")
  /\ SetJob(p, IF pc[p] = "idle" THEN Job(ver, epoch, settled, done, 0, epoch) ELSE job[p])
  /\ UNCHANGED <<db, ver, pages, history>>

Hit(p) ==
  /\ pc[p] = "lookup"
  /\ \E e \in pages :
       /\ e.ver = job[p].ver
       /\ Goto(p, "answer")
       /\ SetJob(p, Job(e.ver, job[p].epoch, job[p].base, job[p].done, e.content, e.epoch))
  /\ NoFault /\ UNCHANGED <<db, ver, pages, history>>

Miss(p) ==
  /\ pc[p] = "lookup"
  /\ \A e \in pages : e.ver # job[p].ver
  /\ Goto(p, "load") /\ UNCHANGED job
  /\ NoFault /\ UNCHANGED <<db, ver, pages, history>>

\* loadPage.
Load(p) ==
  /\ pc[p] \in {"load", "load_only"}
  /\ Goto(p, IF pc[p] = "load" THEN "store" ELSE "answer")
  /\ SetJob(p, Job(job[p].ver, job[p].epoch, job[p].base, job[p].done, db, job[p].epoch))
  /\ NoFault /\ UNCHANGED <<db, ver, pages, history>>

\* Variant: the page goes under the version of the moment it is stored.
StoreUnderLatest(p) ==
  /\ pc[p] = "store"
  /\ pages' = {e \in pages : e.ver # ver} \cup {Page(ver, epoch, settled, job[p].content)}
  /\ Goto(p, "answer") /\ UNCHANGED job
  /\ NoFault /\ UNCHANGED <<db, ver, history>>

\* store: under the version that was read before the page was loaded.
Store(p) ==
  /\ pc[p] = "store"
  /\ pages' = {e \in pages : e.ver # job[p].ver}
              \cup {Page(job[p].ver, job[p].epoch, job[p].base, job[p].content)}
  /\ Goto(p, "answer") /\ UNCHANGED job
  /\ NoFault /\ UNCHANGED <<db, ver, history>>

StoreFails(p) ==
  /\ pc[p] = "store"
  /\ Fault
  /\ Goto(p, "answer") /\ UNCHANGED job
  /\ UNCHANGED <<db, ver, pages, history>>

Answer(p) ==
  /\ pc[p] = "answer"
  /\ End(p)
  /\ NoFault /\ UNCHANGED <<db, ver, pages, history>>

-----------------------------------------------------------------------------
(* Times to live *)

\* Variant: the SET has no EX.
PagesStay == FALSE /\ UNCHANGED vars

\* A page lives for 5 minutes.
PageExpires ==
  /\ \E e \in pages : pages' = pages \ {e}
  /\ UNCHANGED <<db, ver, pc, job, faults, history>>

\* The version lives for 24 hours after the last write.  By then the pages of older versions,
\* and the requests that could store one, are long gone; one of the last version is not if
\* somebody has read the history meanwhile, since reading does not renew the version.
VersionExpires ==
  /\ ver > 0 /\ epoch < MaxExpiries
  /\ \A e \in pages : e.ver = ver /\ e.epoch = epoch
  /\ \A p \in Procs : pc[p] = "idle"
  /\ ver' = 0 /\ epoch' = epoch + 1
  /\ UNCHANGED <<db, pages, pc, job, faults, settled, done>>

-----------------------------------------------------------------------------

Work(p) ==
  \/ Invalidate(p) \/ InvalidateSkipped(p)
  \/ Hit(p) \/ Miss(p) \/ Load(p) \/ Store(p) \/ StoreFails(p) \/ Answer(p)

Next ==
  \/ \E p \in Procs : Write(p) \/ Read(p) \/ ReadWithoutCache(p) \/ Work(p)
  \/ PageExpires
  \/ VersionExpires

Spec == Init /\ [][Next]_vars

\* A request goes on, and Redis drops what has outlived its time.
Fairness == (\A p \in Procs : WF_vars(Work(p))) /\ WF_vars(PageExpires)
FairSpec == Spec /\ Fairness

-----------------------------------------------------------------------------
(* Properties *)

JobType ==
  [ver : Nat, epoch : Nat, base : Nat, done : Nat, content : Nat, source : Nat]
PageType == [ver : Nat, epoch : Nat, base : Nat, content : Nat]

\* The type invariant.
TypeOK ==
  /\ db \in Nat /\ ver \in Nat /\ faults \in Nat
  /\ epoch \in Nat /\ settled \in Nat /\ done \in Nat
  /\ pages \subseteq PageType
  /\ pc \in [Procs -> Steps]
  /\ job \in [Procs -> JobType]

\* A page is never answered that lacks a write which was invalidated before the request asked:
\* neither one from the cache nor one on its way into it, however the loads, stores and bumps
\* of several servers interleave and whatever call to Redis fails.  Excepted is a page that has
\* outlived the version counter it was stored under (message-cache.service.ts, header).
AnswerIsFresh ==
  \A p \in Procs : pc[p] = "answer" /\ job[p].source = job[p].epoch => job[p].content >= job[p].base

\* What is cached under the current version has every write that was invalidated so far: what
\* the next reader gets, on any server.
CachedPageFresh == \A e \in pages : e.ver = ver /\ e.epoch = epoch => e.content >= settled

\* A skipped invalidation is not for ever: the page's five minutes, or the next write, end it.
StaleEnds == <>[](\A e \in pages : e.ver = ver => e.content >= done)

-----------------------------------------------------------------------------
(* What a comment says and the code does not do: this fails *)

\* What the header of message-cache.service.ts says: a write "bumps the version, so every older
\* cached page is simply never read again".
NeverReadAgain == \A p \in Procs : pc[p] = "answer" => job[p].content >= job[p].done
=============================================================================
