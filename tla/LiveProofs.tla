------------------------------ MODULE LiveProofs ------------------------------
(***************************************************************************)
(* Proofs about the history cache and the limiter of the REST routes, in   *)
(* the module whose run checks them.                                       *)
(*                                                                         *)
(* HistoryCache: no answer is a page older than what was invalidated when  *)
(* the request read the version.  Within one epoch of the version key, its *)
(* value and the last invalidated write change together.  So whatever was  *)
(* stamped with a version, a request or a page, knows the same last write  *)
(* as everything else with that stamp, and a page was loaded after its     *)
(* stamp was read.                                                         *)
(*                                                                         *)
(* RateLimit ("Limiter!", with the names MCLive gives its state): INCR     *)
(* gives every request of a window a number of its own, so the requests    *)
(* that may still be let through and the ones that were cannot be more     *)
(* than the numbers up to the limit.                                       *)
(***************************************************************************)
EXTENDS MCLive, FiniteSetTheorems, TLAPS

USE BoundsAssumption

Reading == {"lookup", "load", "load_only", "store", "answer"}

\* A stamp is not from the future, and the current one carries the last invalidated write.
Known(x) ==
  /\ x.epoch <= epoch
  /\ x.epoch = epoch => x.ver <= ver /\ x.base <= settled /\ (x.ver = ver => x.base = settled)

\* Equal stamps carry the same write.
Agree(x, y) == x.ver = y.ver /\ x.epoch = y.epoch => x.base = y.base

WritesOK ==
  /\ settled <= db
  /\ \A p \in Procs : pc[p] = "invalidate" => job[p].content <= db

StampsOK ==
  /\ \A e \in pages : Known(e) /\ e.content >= e.base
  /\ \A p \in Procs : pc[p] \in Reading =>
       /\ Known(job[p])
       /\ job[p].base <= db
       /\ pc[p] \in {"lookup", "load", "load_only", "store"} => job[p].source = job[p].epoch
       /\ pc[p] = "store" => job[p].content >= job[p].base

Agreement ==
  /\ \A p, q \in Procs : pc[p] \in Reading /\ pc[q] \in Reading => Agree(job[p], job[q])
  /\ \A p \in Procs, e \in pages : pc[p] \in Reading => Agree(job[p], e)

IInv == TypeOK /\ WritesOK /\ StampsOK /\ Agreement /\ AnswerIsFresh

-----------------------------------------------------------------------------

LEMMA JobTyped ==
  ASSUME NEW v \in Nat, NEW e \in Nat, NEW b \in Nat, NEW d \in Nat, NEW n \in Nat, NEW s \in Nat
  PROVE  /\ Job(v, e, b, d, n, s) \in JobType
         /\ Job(v, e, b, d, n, s).ver = v /\ Job(v, e, b, d, n, s).epoch = e
         /\ Job(v, e, b, d, n, s).base = b /\ Job(v, e, b, d, n, s).content = n
         /\ Job(v, e, b, d, n, s).source = s
BY DEF Job, JobType

LEMMA JobParts ==
  ASSUME NEW j \in JobType
  PROVE  /\ j.ver \in Nat /\ j.epoch \in Nat /\ j.base \in Nat /\ j.done \in Nat
         /\ j.content \in Nat /\ j.source \in Nat
BY DEF JobType

LEMMA PageParts ==
  ASSUME NEW e \in PageType
  PROVE  e.ver \in Nat /\ e.epoch \in Nat /\ e.base \in Nat /\ e.content \in Nat
BY DEF PageType

LEMMA NoJobTyped == NoJob \in JobType
BY JobTyped DEF NoJob

LEMMA InitIInv == Init => IInv
BY NoJobTyped
   DEF Init, IInv, TypeOK, WritesOK, StampsOK, Agreement, AnswerIsFresh, Steps, Reading, PageType

-----------------------------------------------------------------------------
(* One lemma per kind of step *)

\* A writer's steps: no stamp changes, and the bump makes every stamp an old one.
LEMMA WriterStep ==
  ASSUME IInv, NEW p \in Procs, Write(p) \/ Invalidate(p) \/ InvalidateSkipped(p)
  PROVE  IInv'
<1>0. TypeOK /\ WritesOK /\ StampsOK /\ Agreement /\ AnswerIsFresh  BY DEF IInv
<1>1. \A q \in Procs : job[q] \in JobType  BY <1>0 DEF TypeOK
<1>2. \A e \in pages : e \in PageType  BY <1>0 DEF TypeOK
<1>3. CASE Write(p)
  <2> DEFINE j == Job(0, 0, 0, 0, db + 1, 0)
  <2>1. j \in JobType /\ j.content = db + 1  BY <1>0, JobTyped DEF TypeOK
  <2> HIDE DEF j
  <2>2. /\ db' = db + 1 /\ pc' = [pc EXCEPT ![p] = "invalidate"] /\ job' = [job EXCEPT ![p] = j]
        /\ UNCHANGED <<faults, ver, pages, history>>
    BY <1>3 DEF Write, Goto, SetJob, NoFault, j
  <2>3. TypeOK'  BY <1>0, <2>1, <2>2 DEF TypeOK, Steps, history
  <2>4. WritesOK'  BY <1>0, <1>1, <2>1, <2>2, JobParts DEF WritesOK, TypeOK, history
  <2>5. StampsOK'
    BY <1>0, <1>1, <2>2, JobParts DEF StampsOK, Known, TypeOK, history, Reading
  <2>6. Agreement'  BY <1>0, <2>2 DEF Agreement, Agree, TypeOK, Reading
  <2>7. AnswerIsFresh'  BY <1>0, <2>2 DEF AnswerIsFresh, TypeOK
  <2>8. QED  BY <2>3, <2>4, <2>5, <2>6, <2>7 DEF IInv
<1>4. CASE Invalidate(p)
  <2>1. /\ ver' = ver + 1 /\ settled' = Later(settled, job[p].content)
        /\ done' = Later(done, job[p].content)
        /\ pc' = [pc EXCEPT ![p] = "idle"] /\ job' = [job EXCEPT ![p] = NoJob]
        /\ UNCHANGED <<faults, db, pages, epoch>>
    BY <1>4 DEF Invalidate, End, Goto, SetJob, NoFault
  <2>2. job[p].content \in Nat /\ job[p].content <= db
    BY <1>0, <1>1, <1>4, JobParts DEF WritesOK, Invalidate
  <2>3. TypeOK'  BY <1>0, <2>1, <2>2, NoJobTyped DEF TypeOK, Steps, Later
  <2>4. WritesOK'  BY <1>0, <2>1, <2>2 DEF WritesOK, TypeOK, Later
  <2>5. settled' >= settled  BY <1>0, <2>1, <2>2 DEF Later, TypeOK
  <2>6. ASSUME NEW x, x.ver \in Nat, x.epoch \in Nat, x.base \in Nat, Known(x)  PROVE Known(x)'
    BY <1>0, <2>1, <2>2, <2>3, <2>5, <2>6 DEF Known, TypeOK
  <2>7. StampsOK'
    <3>1. \A e \in pages' : Known(e)' /\ e.content >= e.base
      BY <1>0, <1>2, <2>1, <2>6, PageParts DEF StampsOK
    <3>2. ASSUME NEW q \in Procs, pc'[q] \in Reading
          PROVE  q # p /\ pc'[q] = pc[q] /\ job'[q] = job[q]
      BY <1>0, <2>1, <3>2 DEF TypeOK, Reading
    <3>3. ASSUME NEW q \in Procs, pc'[q] \in Reading
          PROVE  Known(job[q])'
      BY <1>0, <1>1, <2>6, <3>2, <3>3, JobParts DEF StampsOK
    <3>4. QED
      BY <1>0, <2>1, <3>1, <3>2, <3>3 DEF StampsOK, Known, Reading
  <2>8. Agreement'  BY <1>0, <2>1 DEF Agreement, Agree, TypeOK, Reading
  <2>9. AnswerIsFresh'  BY <1>0, <2>1 DEF AnswerIsFresh, TypeOK
  <2>10. QED  BY <2>3, <2>4, <2>7, <2>8, <2>9 DEF IInv
<1>5. CASE InvalidateSkipped(p)
  <2>1. /\ faults' = faults + 1
        /\ done' = Later(done, job[p].content)
        /\ pc' = [pc EXCEPT ![p] = "idle"] /\ job' = [job EXCEPT ![p] = NoJob]
        /\ UNCHANGED <<db, ver, pages, epoch, settled>>
    BY <1>5 DEF InvalidateSkipped, End, Goto, SetJob, Fault
  <2>2. job[p].content \in Nat  BY <1>1, JobParts
  <2>3. TypeOK'  BY <1>0, <2>1, <2>2, NoJobTyped DEF TypeOK, Steps, Later
  <2>4. WritesOK'  BY <1>0, <2>1 DEF WritesOK, TypeOK
  <2>5. StampsOK'  BY <1>0, <2>1 DEF StampsOK, Known, TypeOK, Reading
  <2>6. Agreement'  BY <1>0, <2>1 DEF Agreement, Agree, TypeOK, Reading
  <2>7. AnswerIsFresh'  BY <1>0, <2>1 DEF AnswerIsFresh, TypeOK
  <2>8. QED  BY <2>3, <2>4, <2>5, <2>6, <2>7 DEF IInv
<1>6. QED  BY <1>3, <1>4, <1>5

\* A request begins: its stamp is the current one.
LEMMA ReadStep ==
  ASSUME IInv, NEW p \in Procs, NEW s \in {"lookup", "load_only"},
         pc[p] = "idle",
         pc' = [pc EXCEPT ![p] = s],
         job' = [job EXCEPT ![p] = Job(ver, epoch, settled, done, 0, epoch)],
         faults' \in Nat,
         UNCHANGED <<db, ver, pages, history>>
  PROVE  IInv'
<1>0. TypeOK /\ WritesOK /\ StampsOK /\ Agreement /\ AnswerIsFresh  BY DEF IInv
<1>1. \A q \in Procs : job[q] \in JobType  BY <1>0 DEF TypeOK
<1> DEFINE j == Job(ver, epoch, settled, done, 0, epoch)
<1>a. ver \in Nat /\ epoch \in Nat /\ settled \in Nat /\ done \in Nat /\ 0 \in Nat
  BY <1>0 DEF TypeOK
<1>2. /\ j \in JobType /\ j.ver = ver /\ j.epoch = epoch /\ j.base = settled /\ j.source = epoch
  BY <1>a DEF Job, JobType
<1>3. job' = [job EXCEPT ![p] = j]  OBVIOUS
<1> HIDE DEF j
<1>4. TypeOK'  BY <1>0, <1>2, <1>3 DEF TypeOK, Steps, history
<1>5. WritesOK'  BY <1>0, <1>3 DEF WritesOK, TypeOK, history
<1>6. StampsOK'
  BY <1>0, <1>2, <1>3 DEF StampsOK, WritesOK, Known, TypeOK, history, Reading
<1>7. Agreement'
  <2>1. ASSUME NEW q \in Procs, pc[q] \in Reading  PROVE Agree(job[q], j)
    BY <1>0, <1>2, <2>1 DEF StampsOK, Known, Agree
  <2>2. ASSUME NEW e \in pages  PROVE Agree(e, j)
    BY <1>0, <1>2 DEF StampsOK, Known, Agree
  <2>3. QED
    BY <1>0, <1>3, <2>1, <2>2 DEF Agreement, Agree, TypeOK
<1>8. AnswerIsFresh'  BY <1>0, <1>3 DEF AnswerIsFresh, TypeOK
<1>9. QED  BY <1>4, <1>5, <1>6, <1>7, <1>8 DEF IInv

\* A request goes on and keeps its stamp, with a page that is new enough for it.
LEMMA GoOn ==
  ASSUME IInv, NEW p \in Procs, NEW s \in Reading, NEW j \in JobType,
         pc[p] \in Reading,
         j.ver = job[p].ver, j.epoch = job[p].epoch, j.base = job[p].base,
         s # "answer" => j.source = j.epoch,
         s \in {"store", "answer"} /\ j.source = j.epoch => j.content >= j.base,
         pc' = [pc EXCEPT ![p] = s],
         job' = [job EXCEPT ![p] = j],
         faults' \in Nat,
         UNCHANGED <<db, ver, pages, history>>
  PROVE  IInv'
<1>0. TypeOK /\ WritesOK /\ StampsOK /\ Agreement /\ AnswerIsFresh  BY DEF IInv
<1>1. TypeOK'  BY <1>0 DEF TypeOK, Steps, history, Reading
<1>2. WritesOK'  BY <1>0 DEF WritesOK, TypeOK, history, Reading
<1>3. StampsOK'
  <2>1. Known(j) /\ j.base <= db  BY <1>0 DEF StampsOK, Known
  <2>2. QED  BY <1>0, <2>1 DEF StampsOK, Known, TypeOK, history, Reading
<1>4. Agreement'  BY <1>0 DEF Agreement, Agree, TypeOK
<1>5. AnswerIsFresh'  BY <1>0 DEF AnswerIsFresh, TypeOK
<1>6. QED  BY <1>1, <1>2, <1>3, <1>4, <1>5 DEF IInv

LEMMA ReaderStep ==
  ASSUME IInv, NEW p \in Procs,
         Read(p) \/ ReadWithoutCache(p) \/ Hit(p) \/ Miss(p) \/ Load(p) \/ StoreFails(p)
  PROVE  IInv'
<1>0. TypeOK /\ WritesOK /\ StampsOK /\ Agreement /\ AnswerIsFresh  BY DEF IInv
<1>1. job[p] \in JobType /\ faults \in Nat /\ faults + 1 \in Nat /\ db \in Nat  BY <1>0 DEF TypeOK
<1>2. CASE Read(p)
  BY <1>1, <1>2, ReadStep DEF Read, Goto, SetJob, NoFault
<1>3. CASE ReadWithoutCache(p)
  <2>1. CASE pc[p] = "idle"
    BY <1>1, <1>3, <2>1, ReadStep DEF ReadWithoutCache, Goto, SetJob, Fault
  <2>2. CASE pc[p] = "lookup"
    <3>1. job[p].source = job[p].epoch  BY <1>0, <2>2 DEF StampsOK, Reading
    <3>2. QED
      BY <1>1, <1>3, <2>2, <3>1, GoOn DEF ReadWithoutCache, Goto, SetJob, Fault, Reading
  <2>3. QED  BY <1>3, <2>1, <2>2 DEF ReadWithoutCache
<1>4. CASE Hit(p)
  <2>1. PICK e \in pages :
          /\ e.ver = job[p].ver
          /\ Goto(p, "answer")
          /\ SetJob(p, Job(e.ver, job[p].epoch, job[p].base, job[p].done, e.content, e.epoch))
    BY <1>4 DEF Hit
  <2>2. e \in PageType  BY <1>0 DEF TypeOK
  <2> DEFINE j == Job(e.ver, job[p].epoch, job[p].base, job[p].done, e.content, e.epoch)
  <2>3. /\ j \in JobType /\ j.ver = e.ver /\ j.epoch = job[p].epoch /\ j.base = job[p].base
        /\ j.content = e.content /\ j.source = e.epoch
    <3>1. /\ job[p].epoch \in Nat /\ job[p].base \in Nat /\ job[p].done \in Nat
          /\ e.ver \in Nat /\ e.content \in Nat /\ e.epoch \in Nat
      BY <1>1, <2>2, JobParts, PageParts
    <3>2. QED  BY <3>1 DEF Job, JobType
  <2>4. job' = [job EXCEPT ![p] = j]  BY <2>1 DEF SetJob
  <2> HIDE DEF j
  <2>5. j.source = j.epoch => j.content >= j.base
    BY <1>0, <1>4, <2>1, <2>3 DEF Hit, StampsOK, Agreement, Agree, Reading
  <2>6. QED
    BY <1>1, <1>4, <2>1, <2>3, <2>4, <2>5, GoOn DEF Hit, Goto, NoFault, Reading
<1>5. CASE Miss(p)
  <2>1. job[p].source = job[p].epoch  BY <1>0, <1>5 DEF StampsOK, Reading, Miss
  <2>2. job' = [job EXCEPT ![p] = job[p]]  BY <1>0, <1>5 DEF Miss, TypeOK
  <2>3. QED
    BY <1>1, <1>5, <2>1, <2>2, GoOn DEF Miss, Goto, NoFault, Reading
<1>6. CASE Load(p)
  <2> DEFINE j == Job(job[p].ver, job[p].epoch, job[p].base, job[p].done, db, job[p].epoch)
             s == IF pc[p] = "load" THEN "store" ELSE "answer"
  <2>1. /\ j \in JobType /\ j.ver = job[p].ver /\ j.epoch = job[p].epoch /\ j.base = job[p].base
        /\ j.content = db /\ j.source = j.epoch
    <3>1. job[p].ver \in Nat /\ job[p].epoch \in Nat /\ job[p].base \in Nat /\ job[p].done \in Nat
      BY <1>1, JobParts
    <3>2. QED  BY <1>1, <3>1 DEF Job, JobType
  <2>2. job' = [job EXCEPT ![p] = j] /\ pc' = [pc EXCEPT ![p] = s]
    BY <1>6 DEF Load, Goto, SetJob
  <2>3. s \in {"store", "answer"} /\ s \in Reading  BY DEF Reading
  <2> HIDE DEF j, s
  <2>4. j.content >= j.base
    BY <1>0, <1>1, <1>6, <2>1, JobParts DEF Load, StampsOK, Reading
  <2>5. QED
    BY <1>1, <1>6, <2>1, <2>2, <2>3, <2>4, GoOn DEF Load, NoFault, Reading
<1>7. CASE StoreFails(p)
  <2>1. job[p].source = job[p].epoch /\ job[p].content >= job[p].base
    BY <1>0, <1>7 DEF StampsOK, Reading, StoreFails
  <2>2. job' = [job EXCEPT ![p] = job[p]]  BY <1>0, <1>7 DEF StoreFails, TypeOK
  <2>3. QED
    BY <1>1, <1>7, <2>1, <2>2, GoOn DEF StoreFails, Goto, Fault, Reading
<1>8. QED  BY <1>2, <1>3, <1>4, <1>5, <1>6, <1>7

\* A page goes into the cache: under its own stamp.
LEMMA StoreStep ==
  ASSUME IInv, NEW p \in Procs, Store(p)
  PROVE  IInv'
<1>0. TypeOK /\ WritesOK /\ StampsOK /\ Agreement /\ AnswerIsFresh  BY DEF IInv
<1>1. job[p] \in JobType  BY <1>0 DEF TypeOK
<1> DEFINE e == Page(job[p].ver, job[p].epoch, job[p].base, job[p].content)
<1>2. /\ e \in PageType /\ e.ver = job[p].ver /\ e.epoch = job[p].epoch /\ e.base = job[p].base
      /\ e.content = job[p].content
  <2>1. /\ job[p].ver \in Nat /\ job[p].epoch \in Nat /\ job[p].base \in Nat
        /\ job[p].content \in Nat
    BY <1>1, JobParts
  <2>2. QED  BY <2>1 DEF Page, PageType
<1>3. pages' \subseteq pages \cup {e}  BY DEF Store
<1> HIDE DEF e
<1>4. /\ pc[p] = "store" /\ pc' = [pc EXCEPT ![p] = "answer"]
      /\ UNCHANGED <<job, faults, db, ver, history>>
  BY DEF Store, Goto, NoFault
<1>5. TypeOK'  BY <1>0, <1>2, <1>3, <1>4 DEF TypeOK, Steps, history
<1>6. WritesOK'  BY <1>0, <1>4 DEF WritesOK, TypeOK, history
<1>7. StampsOK'
  <2>1. Known(e) /\ e.content >= e.base
    BY <1>0, <1>2, <1>4 DEF StampsOK, Known, Reading
  <2>2. QED
    BY <1>0, <1>3, <1>4, <2>1 DEF StampsOK, Known, TypeOK, history, Reading
<1>8. Agreement'
  <2>1. \A q \in Procs : pc[q] \in Reading => Agree(job[q], e)
    BY <1>0, <1>2, <1>4 DEF Agreement, Agree, Reading
  <2>2. QED
    BY <1>0, <1>3, <1>4, <2>1 DEF Agreement, Agree, TypeOK, Reading
<1>9. AnswerIsFresh'
  BY <1>0, <1>4 DEF AnswerIsFresh, StampsOK, TypeOK, Reading
<1>10. QED  BY <1>5, <1>6, <1>7, <1>8, <1>9 DEF IInv

\* Requests end, and keys outlive their time.
LEMMA QuietStep ==
  ASSUME IInv, (\E p \in Procs : Answer(p)) \/ PageExpires \/ VersionExpires
  PROVE  IInv'
<1>0. TypeOK /\ WritesOK /\ StampsOK /\ Agreement /\ AnswerIsFresh  BY DEF IInv
<1>1. ASSUME NEW p \in Procs, Answer(p)  PROVE IInv'
  <2>1. /\ pc' = [pc EXCEPT ![p] = "idle"] /\ job' = [job EXCEPT ![p] = NoJob]
        /\ UNCHANGED <<faults, db, ver, pages, history>>
    BY <1>1 DEF Answer, End, Goto, SetJob, NoFault
  <2>2. TypeOK'  BY <1>0, <2>1, NoJobTyped DEF TypeOK, Steps, history
  <2>3. WritesOK'  BY <1>0, <2>1 DEF WritesOK, TypeOK, history
  <2>4. StampsOK'  BY <1>0, <2>1 DEF StampsOK, Known, TypeOK, history, Reading
  <2>5. Agreement'  BY <1>0, <2>1 DEF Agreement, Agree, TypeOK, Reading
  <2>6. AnswerIsFresh'  BY <1>0, <2>1 DEF AnswerIsFresh, TypeOK
  <2>7. QED  BY <2>2, <2>3, <2>4, <2>5, <2>6 DEF IInv
<1>2. CASE PageExpires
  <2>1. pages' \subseteq pages /\ UNCHANGED <<db, ver, pc, job, faults, history>>
    BY <1>2 DEF PageExpires
  <2>2. TypeOK' /\ WritesOK' /\ AnswerIsFresh'
    BY <1>0, <2>1 DEF TypeOK, WritesOK, AnswerIsFresh, history
  <2>3. StampsOK'  BY <1>0, <2>1 DEF StampsOK, Known, history
  <2>4. Agreement'  BY <1>0, <2>1 DEF Agreement, Agree
  <2>5. QED  BY <2>2, <2>3, <2>4 DEF IInv
<1>3. CASE VersionExpires
  <2>1. /\ ver' = 0 /\ epoch' = epoch + 1
        /\ UNCHANGED <<db, pages, pc, job, faults, settled, done>>
    BY <1>3 DEF VersionExpires
  <2>2. TypeOK' /\ WritesOK' /\ AnswerIsFresh'
    BY <1>0, <2>1 DEF TypeOK, WritesOK, AnswerIsFresh
  <2>3. StampsOK'
    <3>1. ASSUME NEW x, x.epoch \in Nat, Known(x)  PROVE Known(x)'
      BY <1>0, <2>1, <3>1 DEF Known, TypeOK
    <3>2. \A e \in pages : Known(e)'
      BY <1>0, <3>1, PageParts DEF StampsOK, TypeOK
    <3>3. ASSUME NEW q \in Procs, pc[q] \in Reading  PROVE Known(job[q])'
      <4>1. job[q].epoch \in Nat /\ Known(job[q]) /\ job'[q] = job[q]
        BY <1>0, <2>1, <3>3, JobParts DEF StampsOK, TypeOK
      <4>2. QED  BY <1>0, <2>1, <4>1 DEF Known, TypeOK
    <3>4. QED  BY <1>0, <2>1, <3>2, <3>3 DEF StampsOK, Known, Reading
  <2>4. Agreement'  BY <1>0, <2>1 DEF Agreement, Agree
  <2>5. QED  BY <2>2, <2>3, <2>4 DEF IInv
<1>4. QED  BY <1>1, <1>2, <1>3

LEMMA NextIInv == IInv /\ [Next]_vars => IInv'
<1> SUFFICES ASSUME IInv, [Next]_vars PROVE IInv'
  OBVIOUS
<1>1. CASE Next
  BY <1>1, WriterStep, ReaderStep, StoreStep, QuietStep DEF Next, Work
<1>2. CASE UNCHANGED vars
  BY <1>2 DEF IInv, TypeOK, WritesOK, StampsOK, Known, Agreement, Agree, AnswerIsFresh, vars
<1>3. QED  BY <1>1, <1>2

LEMMA InvariantHolds == Spec => []IInv
BY InitIInv, NextIInv, PTL DEF Spec

-----------------------------------------------------------------------------

\* The cache and the requests in flight are well formed in every reachable state.
THEOREM CacheTyped == Spec => []TypeOK
BY InvariantHolds, PTL DEF IInv

\* No request is answered with a page older than the invalidations that preceded it
\* (message-cache.service.ts: pages are keyed by the version read before they are loaded).
THEOREM AnswersAreFresh == Spec => []AnswerIsFresh
BY InvariantHolds, PTL DEF IInv

\* The page under the current version holds every invalidated write: what a slow reader stores
\* late goes under a version nobody asks for any more.
THEOREM CacheIsFresh == Spec => []CachedPageFresh
<1>1. IInv => CachedPageFresh
  BY DEF IInv, StampsOK, Known, CachedPageFresh
<1>2. QED  BY <1>1, InvariantHolds, PTL

-----------------------------------------------------------------------------
(* The limiter *)

LimiterTyped ==
  /\ count \in Nat /\ window \in Nat /\ passed \in Nat
  /\ at \in [Asking -> {"idle", "expire", "decide"}]
  /\ turn \in [Asking -> [count : Nat, window : Nat]]

\* Requests that are under way and will be let through because of their count.
Passing == {p \in Asking : at[p] # "idle" /\ turn[p].window = window
                         /\ ~Limiter!Over(turn[p].count)}

\* A request's window has begun, and its number was given out.
Numbered == \A p \in Asking : turn[p].window <= window

Within == passed + Cardinality(Passing) <= count /\ passed + Cardinality(Passing) <= Limit

LInv == LimiterTyped /\ Numbered /\ IsFiniteSet(Passing) /\ Within

-----------------------------------------------------------------------------

LEMMA TurnParts ==
  ASSUME NEW n \in Nat, NEW w \in Nat
  PROVE  /\ Limiter!Job(n, w) \in [count : Nat, window : Nat]
         /\ Limiter!Job(n, w).count = n /\ Limiter!Job(n, w).window = w
  BY DEF Limiter!Job

LEMMA InitLInv == ASSUME Limiter!LimitAssumption, Limiter!Init PROVE LInv
<1>1. LimiterTyped
  <2>1. Limiter!NoJob \in [count : Nat, window : Nat]  BY TurnParts DEF Limiter!NoJob
  <2>2. /\ at \in [Asking -> {"idle", "expire", "decide"}]
        /\ turn \in [Asking -> [count : Nat, window : Nat]]
    BY <2>1 DEF Limiter!Init
  <2> QED  BY <2>2 DEF Limiter!Init, LimiterTyped
<1>2. Numbered
  <2>1. Limiter!NoJob.window = 0  BY TurnParts DEF Limiter!NoJob
  <2>2. window = 0 /\ \A p \in Asking : turn[p] = Limiter!NoJob  BY DEF Limiter!Init
  <2>3. \A p \in Asking : turn[p].window = window  BY <2>1, <2>2, Zenon
  <2>4. window <= window  BY <2>2
  <2> QED  BY <2>3, <2>4, Zenon DEF Numbered
<1>3. Passing = {}  BY DEF Limiter!Init, Passing
<1>4. IsFiniteSet(Passing) /\ Cardinality(Passing) = 0  BY <1>3, FS_EmptySet
<1>5. Within  BY <1>4 DEF Limiter!Init, Within, Limiter!LimitAssumption
<1> QED  BY <1>1, <1>2, <1>4, <1>5 DEF LInv

\* What a step of p leaves to the others.
Untouched(p) == \A q \in Asking : q # p => at'[q] = at[q] /\ turn'[q] = turn[q]

\* A request that goes on, or is let through, or ends otherwise; `gain` more are let through.
LEMMA FewerPassing ==
  ASSUME Limiter!LimitAssumption, LInv, NEW p \in Asking, Untouched(p),
         window' = window, count' \in Nat, count <= count',
         \/ passed' = passed /\ (p \in Passing' => p \in Passing)
         \/ passed' = passed + 1 /\ p \in Passing /\ p \notin Passing'
  PROVE  IsFiniteSet(Passing)' /\ Within'
<1>1. Passing' \subseteq Passing  BY DEF Passing, Untouched
<1>2. /\ IsFiniteSet(Passing) /\ Cardinality(Passing) \in Nat
      /\ passed \in Nat /\ count \in Nat /\ Limit \in Nat
  BY FS_CardinalityType DEF LInv, LimiterTyped, Limiter!LimitAssumption
<1>3. /\ IsFiniteSet(Passing') /\ Cardinality(Passing') \in Nat
      /\ Cardinality(Passing') <= Cardinality(Passing)
      /\ Passing' # Passing => Cardinality(Passing') < Cardinality(Passing)
  BY <1>1, <1>2, FS_Subset, FS_CardinalityType
<1>4. CASE passed' = passed
  BY <1>2, <1>3, <1>4 DEF LInv, Within
<1>5. CASE passed' = passed + 1 /\ p \in Passing /\ p \notin Passing'
  <2>1. Cardinality(Passing') < Cardinality(Passing)  BY <1>3, <1>5
  <2>2. passed' + Cardinality(Passing') <= passed + Cardinality(Passing)  BY <1>2, <1>3, <1>5, <2>1
  <2>3. passed' + Cardinality(Passing') <= count /\ passed' + Cardinality(Passing') <= Limit
    BY <1>2, <1>3, <1>5, <2>1 DEF LInv, Within
  <2> QED  BY <1>2, <1>3, <1>5, <2>3 DEF Within
<1> QED  BY <1>4, <1>5

LEMMA CountKeeps ==
  ASSUME Limiter!LimitAssumption, LInv, NEW p \in Asking, Limiter!Count(p)
  PROVE  LInv'
<1>1. /\ LimiterTyped /\ Numbered /\ IsFiniteSet(Passing) /\ Cardinality(Passing) \in Nat
      /\ passed \in Nat /\ count \in Nat /\ window \in Nat /\ Limit \in Nat
  BY FS_CardinalityType DEF LInv, LimiterTyped, Limiter!LimitAssumption
<1>2. at[p] = "idle" /\ count' = count + 1 /\ window' = window /\ passed' = passed
  BY DEF Limiter!Count
<1>3. Limiter!Job(count + 1, window) \in [count : Nat, window : Nat]  BY <1>1, TurnParts
<1>4. turn' = [turn EXCEPT ![p] = Limiter!Job(count + 1, window)]  BY DEF Limiter!Count
<1>5. /\ turn' \in [Asking -> [count : Nat, window : Nat]] /\ turn'[p].window = window
      /\ turn'[p].count = count + 1 /\ \A q \in Asking : q # p => turn'[q] = turn[q]
  BY <1>1, <1>3, <1>4, TurnParts DEF LimiterTyped
<1>6. at' \in [Asking -> {"idle", "expire", "decide"}] /\ \A q \in Asking : q # p => at'[q] = at[q]
  BY <1>1 DEF Limiter!Count, Limiter!Goto, LimiterTyped
<1>7. LimiterTyped' /\ Numbered'  BY <1>1, <1>2, <1>5, <1>6 DEF LimiterTyped, Numbered
<1>8. CASE count + 1 > Limit
  <2>1. p \notin Passing'  BY <1>5, <1>8 DEF Passing, Limiter!Over
  <2>2. Untouched(p)  BY <1>5, <1>6 DEF Untouched
  <2>3. IsFiniteSet(Passing)' /\ Within'  BY <1>1, <1>2, <2>1, <2>2, FewerPassing
  <2> QED  BY <1>7, <2>3 DEF LInv
<1>9. CASE ~(count + 1 > Limit)
  <2>1. p \notin Passing  BY <1>2 DEF Passing
  <2>2. Passing' \subseteq Passing \cup {p}  BY <1>2, <1>5, <1>6 DEF Passing
  <2>3. /\ IsFiniteSet(Passing \cup {p})
        /\ Cardinality(Passing \cup {p}) = Cardinality(Passing) + 1
    BY <1>1, <2>1, FS_AddElement
  <2>4. /\ IsFiniteSet(Passing') /\ Cardinality(Passing') \in Nat
        /\ Cardinality(Passing') <= Cardinality(Passing) + 1
    BY <2>2, <2>3, FS_Subset, FS_CardinalityType
  <2>5. passed + Cardinality(Passing) <= count  BY DEF LInv, Within
  <2>6. Within'  BY <1>1, <1>2, <1>9, <2>4, <2>5 DEF Within
  <2> QED  BY <1>7, <2>4, <2>6 DEF LInv
<1> QED  BY <1>8, <1>9

LEMMA ExpireKeeps ==
  ASSUME Limiter!LimitAssumption, LInv, NEW p \in Asking, Limiter!Expire(p)
  PROVE  LInv'
<1>1. LimiterTyped /\ count \in Nat  BY DEF LInv, LimiterTyped
<1>2. at[p] = "expire" /\ UNCHANGED <<count, window, turn, passed>>  BY DEF Limiter!Expire
<1>3. at' \in [Asking -> {"idle", "expire", "decide"}] /\ at'[p] = "decide" /\ Untouched(p)
  BY <1>1, <1>2 DEF Limiter!Expire, Limiter!Goto, LimiterTyped, Untouched
<1>4. LimiterTyped' /\ Numbered'  BY <1>1, <1>2, <1>3 DEF LInv, LimiterTyped, Numbered
<1>5. p \in Passing' => p \in Passing  BY <1>2 DEF Passing, Limiter!Over
<1>6. IsFiniteSet(Passing)' /\ Within'  BY <1>1, <1>2, <1>3, <1>5, FewerPassing
<1> QED  BY <1>4, <1>6 DEF LInv

\* A request that ends frees its place, and takes it for good if it is let through.
LEMMA EndKeeps ==
  ASSUME Limiter!LimitAssumption, LInv, NEW p \in Asking, Limiter!Decide(p) \/ Limiter!FailsOpen(p)
  PROVE  LInv'
<1>1. LimiterTyped /\ Numbered /\ count \in Nat /\ window \in Nat /\ passed \in Nat
  BY DEF LInv, LimiterTyped
<1>2. /\ at' \in [Asking -> {"idle", "expire", "decide"}] /\ at'[p] = "idle"
      /\ \A q \in Asking : q # p => at'[q] = at[q]
  BY <1>1 DEF Limiter!Decide, Limiter!FailsOpen, Limiter!Goto, LimiterTyped
<1>3. Limiter!NoJob \in [count : Nat, window : Nat] /\ Limiter!NoJob.window = 0
  BY TurnParts DEF Limiter!NoJob
<1>4. turn' = [turn EXCEPT ![p] = Limiter!NoJob]  BY DEF Limiter!Decide, Limiter!FailsOpen
<1>5. /\ turn' \in [Asking -> [count : Nat, window : Nat]] /\ turn'[p].window = 0
      /\ \A q \in Asking : q # p => turn'[q] = turn[q]
  BY <1>1, <1>3, <1>4 DEF LimiterTyped
<1>6. Untouched(p) /\ p \notin Passing'  BY <1>2, <1>5 DEF Untouched, Passing
<1>7. window' = window /\ count' \in Nat /\ count <= count'
  <2>1. window' = window /\ (count' = count \/ count' = count + 1)
    BY DEF Limiter!Decide, Limiter!FailsOpen
  <2> QED  BY <1>1, <2>1
<1>8. passed' = passed \/ (passed' = passed + 1 /\ p \in Passing)
  BY DEF Limiter!Decide, Limiter!FailsOpen, Passing
<1>9. LimiterTyped'  BY <1>1, <1>2, <1>5, <1>7, <1>8 DEF LimiterTyped
<1>10. Numbered'  BY <1>1, <1>5, <1>7 DEF Numbered
<1>11. IsFiniteSet(Passing)' /\ Within'  BY <1>6, <1>7, <1>8, FewerPassing
<1> QED  BY <1>9, <1>10, <1>11 DEF LInv

LEMMA WindowEndsKeeps == ASSUME Limiter!LimitAssumption, LInv, Limiter!WindowEnds PROVE LInv'
<1>1. LimiterTyped /\ Numbered /\ window \in Nat  BY DEF LInv, LimiterTyped
<1>2. count' = 0 /\ window' = window + 1 /\ passed' = 0 /\ at' = at /\ turn' = turn
  BY DEF Limiter!WindowEnds
<1>3. \A p \in Asking : turn[p].window \in Nat  BY <1>1 DEF LimiterTyped
<1>4. Passing' = {}  BY <1>1, <1>2, <1>3 DEF Passing, Numbered
<1>5. IsFiniteSet(Passing)' /\ Cardinality(Passing)' = 0  BY <1>4, FS_EmptySet
<1>6. Within'  BY <1>2, <1>5 DEF Within, Limiter!LimitAssumption
<1>7. LimiterTyped' /\ Numbered'  BY <1>1, <1>2, <1>3 DEF LimiterTyped, Numbered
<1> QED  BY <1>5, <1>6, <1>7 DEF LInv

LEMMA NextLInv == Limiter!LimitAssumption /\ LInv /\ [Limiter!Next]_(Limiter!vars) => LInv'
<1> SUFFICES ASSUME Limiter!LimitAssumption, LInv, [Limiter!Next]_(Limiter!vars)
             PROVE  LInv'
  OBVIOUS
<1>1. CASE UNCHANGED Limiter!vars
  BY <1>1 DEF Limiter!vars, LInv, LimiterTyped, Numbered, Passing, Within
<1> QED  BY <1>1, CountKeeps, ExpireKeeps, EndKeeps, WindowEndsKeeps DEF Limiter!Next

\* Of the requests counted in one window at most Limit are let through on their count, however many
\* servers count at once, fail or die between INCR and EXPIRE (rate-limit.ts).
THEOREM LimitKept == Limiter!Spec => []LimitHolds
<1>0. Limiter!LimitAssumption  BY Limiter!LimitAssumption DEF Limiter!LimitAssumption
<1>1. Limiter!Init => LInv  BY <1>0, InitLInv
<1>2. LInv /\ [Limiter!Next]_(Limiter!vars) => LInv'  BY <1>0, NextLInv
<1>3. LInv => LimitHolds
  <2> SUFFICES ASSUME LInv PROVE LimitHolds  OBVIOUS
  <2>1. Cardinality(Passing) \in Nat /\ passed \in Nat /\ Limit \in Nat
    BY <1>0, FS_CardinalityType DEF LInv, LimiterTyped, Limiter!LimitAssumption
  <2> QED  BY <2>1 DEF LInv, Within, LimitHolds, Limiter!LimitHolds
<1> QED  BY <1>1, <1>2, <1>3, PTL DEF Limiter!Spec

LEMMA NextRequests ==
  Limiter!LimitAssumption /\ Limiter!TypeOK /\ LInv' /\ [Limiter!Next]_(Limiter!vars) => Limiter!TypeOK'
<1> SUFFICES ASSUME Limiter!LimitAssumption, Limiter!TypeOK, LInv', [Limiter!Next]_(Limiter!vars)
             PROVE  Limiter!TypeOK'
  OBVIOUS
<1> DEFINE Turns == [count : 0..MaxCount, window : 0..MaxWindows]
<1> USE DEF Limiter!TypeOK, Limiter!Goto, Limiter!Fault, Limiter!Expires
<1>1. MaxCount \in Nat /\ MaxWindows \in Nat /\ MaxFailures \in Nat  BY DEF Limiter!LimitAssumption
<1>2. Limiter!NoJob \in Turns  BY <1>1 DEF Limiter!NoJob, Limiter!Job
<1>3. passed' \in Nat /\ passed' <= count'
  <2>1. Cardinality(Passing') \in Nat /\ count' \in Nat /\ passed' \in Nat
    BY FS_CardinalityType DEF LInv, LimiterTyped
  <2> QED  BY <2>1 DEF LInv, Within
<1>4. ASSUME NEW p \in Asking, Limiter!Count(p) PROVE Limiter!TypeOK'
  <2>1. Limiter!Job(count + 1, window) \in Turns  BY <1>1, <1>4 DEF Limiter!Count, Limiter!Job
  <2> QED  BY <1>1, <1>3, <1>4, <2>1 DEF Limiter!Count
<1>5. ASSUME NEW p \in Asking, Limiter!Expire(p) PROVE Limiter!TypeOK'
  BY <1>1, <1>3, <1>5 DEF Limiter!Expire
<1>6. ASSUME NEW p \in Asking, Limiter!Decide(p) PROVE Limiter!TypeOK'
  BY <1>1, <1>2, <1>3, <1>6 DEF Limiter!Decide, Limiter!Over
<1>7. ASSUME NEW p \in Asking, Limiter!FailsOpen(p) PROVE Limiter!TypeOK'
  <2>1. /\ at' \in [Asking -> {"idle", "expire", "decide"}] /\ turn' \in [Asking -> Turns]
        /\ window' = window /\ failures' \in 0..MaxFailures
    BY <1>1, <1>2, <1>7 DEF Limiter!FailsOpen
  <2>2. count' \in 0..MaxCount /\ count <= count'
    <3>1. count' = count \/ (count < MaxCount /\ count' = count + 1)  BY <1>7, Zenon DEF Limiter!FailsOpen
    <3> QED  BY <1>1, <3>1
  <2>3. /\ refused' = refused \/ refused' = FALSE
        /\ ttl' = ttl \/ (ttl' = (count > 0) /\ count' = count)
    BY <1>7, Zenon DEF Limiter!FailsOpen
  <2>4. ttl' \in BOOLEAN /\ (ttl' => count' > 0)
    <3>1. (count > 0) \in BOOLEAN /\ ttl \in BOOLEAN  OBVIOUS
    <3>2. ttl' \in BOOLEAN  BY <2>3, <3>1, Zenon
    <3>3. CASE ttl' = ttl  BY <1>1, <2>2, <3>2, <3>3
    <3>4. CASE ttl' = (count > 0) /\ count' = count  BY <3>2, <3>4
    <3> QED  BY <2>3, <3>3, <3>4
  <2>5. refused' \in BOOLEAN
    <3>1. refused \in BOOLEAN  OBVIOUS
    <3> QED  BY <2>3, <3>1, Zenon
  <2> QED  BY <1>1, <1>3, <2>1, <2>2, <2>4, <2>5
<1>8. ASSUME at' = at, turn' = turn
      PROVE  at' \in [Asking -> {"idle", "expire", "decide"}] /\ turn' \in [Asking -> Turns]
  <2>1. at \in [Asking -> {"idle", "expire", "decide"}] /\ turn \in [Asking -> Turns]  OBVIOUS
  <2> HIDE DEF Turns
  <2> QED  BY <1>8, <2>1, Zenon
<1>9. CASE Limiter!WindowEnds
  <2>1. at' = at /\ turn' = turn  BY <1>9 DEF Limiter!WindowEnds
  <2>2. count' \in 0..MaxCount /\ window' \in 0..MaxWindows /\ passed' \in 0..MaxCount
    BY <1>1, <1>9 DEF Limiter!WindowEnds
  <2>3. ttl' = FALSE /\ refused' = refused /\ failures' = failures  BY <1>9 DEF Limiter!WindowEnds
  <2> QED  BY <1>8, <2>1, <2>2, <2>3
<1>10. CASE UNCHANGED Limiter!vars
  <2>1. at' = at /\ turn' = turn  BY <1>10 DEF Limiter!vars
  <2> QED  BY <1>8, <1>10, <2>1 DEF Limiter!vars
<1> QED  BY <1>4, <1>5, <1>6, <1>7, <1>9, <1>10 DEF Limiter!Next

\* What the limiter keeps in Redis and of the requests under way is well formed within the bounds,
\* and a counter that is to expire has counted something.
THEOREM RequestsTyped == Limiter!Spec => []Limiter!TypeOK
<1>0. Limiter!LimitAssumption  BY Limiter!LimitAssumption DEF Limiter!LimitAssumption
<1>1. Limiter!Init => LInv  BY <1>0, InitLInv
<1>2. LInv /\ [Limiter!Next]_(Limiter!vars) => LInv'  BY <1>0, NextLInv
<1>3. ASSUME Limiter!Init PROVE Limiter!TypeOK
  <2>1. 0 \in 0..MaxCount /\ 0 \in 0..MaxWindows /\ 0 \in 0..MaxFailures
    BY <1>0 DEF Limiter!LimitAssumption
  <2>2. Limiter!NoJob \in [count : 0..MaxCount, window : 0..MaxWindows]
    BY <2>1 DEF Limiter!NoJob, Limiter!Job
  <2>3. turn \in [Asking -> [count : 0..MaxCount, window : 0..MaxWindows]]
    BY <1>3, <2>2 DEF Limiter!Init
  <2> QED  BY <1>3, <2>1, <2>3 DEF Limiter!Init, Limiter!TypeOK
<1>4. Limiter!TypeOK /\ LInv' /\ [Limiter!Next]_(Limiter!vars) => Limiter!TypeOK'  BY <1>0, NextRequests
<1> QED  BY <1>1, <1>2, <1>3, <1>4, PTL DEF Limiter!Spec

-----------------------------------------------------------------------------
(* The instance *)

\* A behaviour of the instance, whatever part it exercises, is one of the cache, of the limiter and
\* of presence: what is proved of them, here and in PresenceProofs, holds in it.
THEOREM LiveAreSpecs == LiveSpec => Spec /\ Limiter!Spec /\ Online!Spec
<1>1. LiveInit => Init /\ Limiter!Init /\ Online!Init  BY DEF LiveInit
<1>2. [LiveNext]_<<part, vars, limitVars, presenceVars>>
      => [Next]_vars /\ [Limiter!Next]_(Limiter!vars) /\ [Online!Next]_(Online!vars)
  BY DEF LiveNext, limitVars, Limiter!vars, presenceVars, Online!vars
<1> QED  BY <1>1, <1>2, PTL DEF LiveSpec, Spec, Limiter!Spec, Online!Spec
=============================================================================
