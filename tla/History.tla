-------------------------------- MODULE History --------------------------------
(***************************************************************************)
(* Reading a whole conversation: the pages of getHistory and loadPage, the *)
(* cursor of src/common/utils/pagination.ts, and the stream of streamAll   *)
(* that an export writes (src/modules/chat/services/messages.service.ts,   *)
(* chat-export.service.ts).                                                *)
(*                                                                         *)
(* A message is its sort key <<createdAt, _id>>.  The server that saves a  *)
(* message makes both, by its own clock, so messages of several servers    *)
(* may be saved in another order than that of their keys, and several may  *)
(* have one createdAt.  A client pages backwards; an export reads the      *)
(* index forwards in the batches of a MongoDB cursor.  The first page is   *)
(* read from the database here; what the cache answers is module           *)
(* HistoryCache.  "Variant" marks a slip that a property notices.           *)
(***************************************************************************)
EXTENDS FiniteSets, SequencesExt, Integers

CONSTANTS
  Stamps, \* values of createdAt
  Ids,    \* values of _id
  Limit,  \* messages of a page
  Batch   \* messages of a batch of the stream

HistoryAssumption ==
  /\ Stamps \subseteq Nat /\ Ids \subseteq Nat
  /\ Limit \in Nat \ {0} /\ Batch \in Nat \ {0}

Keys == Stamps \X Ids

VARIABLES
  saved,  \* messages of the conversation
  before, \* history: those that were there when the reader began
  reader, \* "pages" or "export"
  cursor, \* the last message read, <<>> at first
  got,    \* what the reader has: a screen oldest first, the rows of a file
  done    \* there is no next page, the stream has ended

vars == <<saved, before, reader, cursor, got, done>>

TypeOK ==
  /\ saved \subseteq Keys /\ before \subseteq saved
  /\ reader \in {"pages", "export"} /\ done \in BOOLEAN
  /\ cursor \in Keys \cup {<<>>}
  /\ got \in Seq(saved)
  \* The cursor is the end of what was read.
  /\ got # <<>> /\ ~done => cursor = IF reader = "pages" THEN Head(got) ELSE Last(got)

Init ==
  /\ saved \in SUBSET Keys /\ \A k, l \in saved : k[2] = l[2] => k = l
  /\ before = saved /\ reader \in {"pages", "export"}
  /\ cursor = <<>> /\ got = <<>> /\ done = FALSE

Upto(s, n) == SubSeq(s, 1, Min({n, Len(s)}))

Older(k, l) == k[1] < l[1] \/ (k[1] = l[1] /\ k[2] < l[2])
Newer(k, l) == Older(l, k)

\* Messages in the order of the index, read forwards or backwards.
OldestFirst(S) ==
  CHOOSE s \in SetToSeqs(S) : \A i, j \in DOMAIN s : i < j => Older(s[i], s[j])
NewestFirst(S) ==
  CHOOSE s \in SetToSeqs(S) : \A i, j \in DOMAIN s : i < j => Newer(s[i], s[j])

\* A message is saved, by a server with any clock.
Save(k) ==
  /\ \A l \in saved : l[2] # k[2]
  /\ saved' = saved \cup {k}
  /\ UNCHANGED <<before, reader, cursor, got, done>>

-----------------------------------------------------------------------------
(* Pages *)

\* Variant: the cursor is createdAt alone; equal ones are taken for read.
PastCursorStamp(k, c) == c = <<>> \/ k[1] < c[1]

\* Variant: the cursor is createdAt alone; equal ones are read again.
PastCursorOrSame(k, c) == c = <<>> \/ k[1] <= c[1]

PastCursor(k, c) == c = <<>> \/ Older(k, c)

\* find, sort and limit of loadPage.
Rows(S) == Upto(NewestFirst(S), Limit + 1)

Oldest(rows, page) == Last(page)

NextPage ==
  LET rows == Rows({k \in saved : PastCursor(k, cursor)})
      hasMore == Len(rows) > Limit
      page == Upto(rows, Limit)
  IN /\ reader = "pages" /\ ~done
     /\ got' = Reverse(page) \o got
     /\ done' = ~hasMore
     /\ cursor' = IF hasMore THEN Oldest(rows, page) ELSE cursor
     /\ UNCHANGED <<saved, before, reader>>

-----------------------------------------------------------------------------
(* Export *)

Ahead(k, c) == c = <<>> \/ Older(c, k)

NextBatch ==
  LET rows == Upto(OldestFirst({k \in saved : Ahead(k, cursor)}), Batch)
  IN /\ reader = "export" /\ ~done
     /\ got' = got \o rows
     /\ done' = (rows = <<>>)
     /\ cursor' = IF rows = <<>> THEN cursor ELSE Last(rows)
     /\ UNCHANGED <<saved, before, reader>>

Next == (\E k \in Keys : Save(k)) \/ NextPage \/ NextBatch

Spec == Init /\ [][Next]_vars

-----------------------------------------------------------------------------
(* Properties *)

\* No message that was there when the reader began is missed, at the seam of
\* two pages or among equal createdAt.
Complete == done => before \subseteq Range(got)
=============================================================================
