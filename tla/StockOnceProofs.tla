---------------------------- MODULE StockOnceProofs ----------------------------
(***************************************************************************)
(* Proofs about what InventoryUpload promises until harm is done: callers  *)
(* overlap, the outcome of a POST is lost, a line is sent that Oracle has  *)
(* for a leftover, or rows of two units share a record.  For any number of *)
(* processes, administrators, lines, units, leftovers and records.         *)
(***************************************************************************)
EXTENDS InventoryUploadProofs

(* Oracle moved the line for a leftover.                                     *)
Left(n) == \E i \in LegacyId : LegacyOf[i] = n /\ staged[i] = "processed"

(* A leftover in Oracle's queue has not moved, by a re-send either.          *)
Queued == \A i \in LegacyId : staged[i] = "queued" => moves[LegacyOf[i]] = 0

Saved(w) == \E c \in job[w].open : c.phase = "saved"

(* Live rows stand for different lines, those about to be retired excepted.  *)
Disjoint(w) ==
  \A i, j \in LiveIds :
    \/ i = j
    \/ Saved(w) /\ (i \in job[w].older \/ j \in job[w].older)
    \/ table[i].lines \cap table[j].lines = {}

(* A line that moved moved once: for a leftover, or a SUCCESS row says so,   *)
(* or the caller is about to write one.                                      *)
Settled(w) ==
  \A n \in Line : moves[n] # 0 =>
    moves[n] = 1 /\ (Posted \/ Left(n) \/ \E c \in job[w].open : c.phase = "accepted")

Shown == (\E i \in Id : Status(i) = "SUPERSEDED") => LiveIds # {}

(* A call that has not looked yet holds rows only; what it is about to send  *)
(* moved for a leftover if at all; what it sent and awaits an answer for did *)
(* not move, and no leftover was queued for it.                              *)
Pending(w) ==
  /\ job[w].pc \in {"idle", "read"} =>
       /\ job[w].open = {} /\ job[w].older = {}
       /\ job[w].reuse = None /\ ~job[w].posted
  /\ job[w].pc = "idle" => job[w].todo = {}
  /\ job[w].pc = "work" /\ ~job[w].posted =>
       \A x \in job[w].todo : \A n \in x.lines : moves[n] # 0 => Left(n)
  /\ \A c \in job[w].open : c.phase = "sent" =>
       ~Unsettled(c.lines) /\ \A n \in c.lines : moves[n] = 0

(* The rows of an upload, one per unit, share no line.                       *)
Apart(h) ==
  /\ \A x \in job[h].todo : x.id = None
  /\ \A x \in job[h].todo \cup job[h].open : x.lines # {} /\ x.lines \subseteq landed
  /\ \A x, y \in job[h].todo : x = y \/ x.lines \cap y.lines = {}
  /\ \A c, d \in job[h].open : c = d \/ c.lines \cap d.lines = {}
  /\ \A x \in job[h].todo, c \in job[h].open : x.lines \cap c.lines = {}

(* An upload that found no row writes new ones, for lines no live row stands *)
(* for.                                                                      *)
Anew(h) ==
  /\ job[h].older = {}
  /\ job[h].pc = "work" /\ ~job[h].posted =>
       \A x \in job[h].todo \cup job[h].open, i \in LiveIds : x.lines \cap table[i].lines = {}
  /\ \A c \in job[h].open : c.id \notin LiveIds /\ c.phase # "saved" /\ ~job[h].posted
  /\ \A c, d \in job[h].open : c.id = d.id => c = d

(* One that found rows, none of them SUCCESS, sends one row only; it knows   *)
(* every live row: the one it writes to and those it will retire.            *)
Again(h) ==
  /\ job[h].reuse \notin job[h].older
  /\ job[h].open # {} => job[h].todo = {}
  /\ \A c, d \in job[h].open : c = d
  /\ job[h].pc = "work" /\ ~job[h].posted /\ job[h].todo # {} =>
       /\ ~Posted
       /\ LiveIds \subseteq job[h].older \cup {job[h].reuse}
       /\ job[h].older \subseteq LiveIds
  /\ \A c \in job[h].open :
       /\ ~job[h].posted
       /\ c.id = job[h].reuse
       /\ LiveIds \subseteq job[h].older \cup {c.id}
       /\ \A i \in job[h].older : Status(i) \in {"HELD", "PENDING"}
       /\ IF c.phase = "saved" THEN c.id \in LiveIds ELSE ~Posted

Chosen(h) == IF job[h].reuse = None THEN Anew(h) ELSE Again(h)

(* Reprocess writes to the held records it selected, each to its own.        *)
Selected(k) ==
  /\ job[k].posted => Posted
  /\ \A x \in job[k].todo \cup job[k].open :
       x.id \in Id /\ table[x.id] = [lines |-> x.lines, status |-> "HELD"]
  /\ \A c \in job[k].open : c.phase # "saved"
  /\ \A c, d \in job[k].open : c.id = d.id => c = d
  /\ \A x \in job[k].todo, c \in job[k].open : x.id # c.id

(* What the one caller at work, if any, keeps true.                          *)
Calm(w) ==
  /\ Alone(w) /\ Disjoint(w) /\ Settled(w) /\ Shown /\ Queued /\ Pending(w)
  /\ IF w \in Host THEN Apart(w) /\ Chosen(w) ELSE Selected(w)

(* The invariant: unless harm was done, at most one caller is at work, and   *)
(* whoever is alone is calm.                                                 *)
Orderly ==
  \/ harm
  \/ /\ \A v, w \in Worker : job[v] = NoJob \/ job[w] = NoJob \/ v = w
     /\ \A w \in Worker : Alone(w) => Calm(w)
     /\ \A n \in Line : moves[n] < 2
     /\ Shown /\ Queued

(* Everything a step may start from.                                         *)
Steady == TypeOK /\ Orderly

-----------------------------------------------------------------------------
(* The caller that takes a step is alone.                                    *)
LEMMA Stepping ==
  ASSUME Steady, ~harm, NEW w \in Worker, job[w] # NoJob \/ Alone(w)
  PROVE  Calm(w)
<1>1. Alone(w)
  BY DEF Steady, Orderly, Alone
<1>2. QED
  BY <1>1 DEF Steady, Orderly

(* What a step of the one caller changes: its own call.                      *)
LEMMA Stepped ==
  ASSUME TypeOK, NEW w \in Worker, NEW j, Go(w, j), Alone(w)
  PROVE  job'[w] = j /\ Alone(w)'
BY DEF TypeOK, Go, Alone

(* An idle call asks for nothing.                                            *)
LEMMA IdleCalm ==
  ASSUME NEW w \in Worker, job[w] = NoJob
  PROVE  Pending(w) /\ Apart(w) /\ Chosen(w) /\ Selected(w)
BY DEF NoJob, Pending, Apart, Chosen, Anew, Selected

(* Nobody else having a call, it is enough to look at the one that stepped.  *)
LEMMA StillOrderly ==
  ASSUME NEW w \in Worker, Calm(w)', TypeOK'
  PROVE  Orderly'
<1>1. \A v \in Worker : v # w => job'[v] = NoJob
  BY DEF Calm, Alone
<1>2. ASSUME NEW v \in Worker, Alone(v)'
      PROVE  Calm(v)'
  <2>1. CASE v = w
    BY <2>1
  <2>2. CASE v # w
    <3>1. job'[v] = NoJob /\ job'[w] = NoJob
      BY <1>1, <1>2, <2>2 DEF Alone
    <3>2. Disjoint(v)'
      BY <3>1 DEF Calm, Disjoint, Saved
    <3>3. Settled(v)'
      BY <3>1 DEF Calm, Settled
    <3>4. (Pending(v) /\ Apart(v) /\ Chosen(v) /\ Selected(v))'
      BY <3>1 DEF NoJob, Pending, Apart, Chosen, Anew, Selected
    <3>5. QED
      BY <1>2, <3>2, <3>3, <3>4 DEF Calm
  <2>3. QED
    BY <2>1, <2>2
<1>3. \A n \in Line : moves'[n] < 2
  BY DEF Calm, Settled, TypeOK
<1>4. QED
  BY <1>1, <1>2, <1>3 DEF Orderly, Calm

(* A record is not None.                                                     *)
LEMMA RecordIsNotNone ==
  ASSUME NEW ns \in SUBSET Line, NEW status \in Live \cup {"SUPERSEDED"}
  PROVE  [lines |-> ns, status |-> status] # None
BY ConstantsOK

(* What writing one record changes.                                          *)
LEMMA Written ==
  ASSUME TypeOK, NEW i \in Id, NEW ns \in SUBSET Line, NEW status \in Live, Write(i, ns, status)
  PROVE  /\ Status(i)' = status /\ table'[i].lines = ns /\ i \in LiveIds'
         /\ \A k \in Id \ {i} : Status(k)' = Status(k) /\ table'[k] = table[k]
         /\ LiveIds' = LiveIds \cup {i}
<1>1. table' = [table EXCEPT ![i] = [lines |-> ns, status |-> status]]
  BY DEF Write
<1>2. table'[i] = [lines |-> ns, status |-> status] /\ table'[i] # None
  BY <1>1, RecordIsNotNone DEF TypeOK
<1>3. \A k \in Id \ {i} : table'[k] = table[k]
  BY <1>1 DEF TypeOK
<1>4. Status(i)' = status /\ table'[i].lines = ns
  BY <1>2 DEF Status
<1>5. \A k \in Id \ {i} : Status(k)' = Status(k)
  BY <1>3 DEF Status
<1>6. QED
  BY <1>3, <1>4, <1>5 DEF LiveIds

(* What retiring records changes.                                            *)
LEMMA Retired ==
  ASSUME TypeOK, NEW ids \in SUBSET LiveIds, table' = Superseded(ids)
  PROVE  /\ \A i \in ids : Status(i)' = "SUPERSEDED"
         /\ \A i \in Id \ ids : Status(i)' = Status(i) /\ table'[i] = table[i]
         /\ LiveIds' = LiveIds \ ids
<1>1. \A i \in Id \ ids : Status(i)' = Status(i) /\ table'[i] = table[i]
  BY DEF Superseded, Marked, Status
<1>2. ASSUME NEW i \in ids
      PROVE  Status(i)' = "SUPERSEDED"
  <2>1. i \in Id /\ table[i] # None
    BY DEF LiveIds, Status, Live
  <2>2. table[i] \in [lines : SUBSET Line, status : Live \cup {"SUPERSEDED"}]
    BY <2>1 DEF TypeOK
  <2>3. table'[i] = [lines |-> table[i].lines, status |-> "SUPERSEDED"]
    BY <2>1, <2>2 DEF Superseded, Marked
  <2>4. table'[i] # None
    BY <2>2, <2>3, RecordIsNotNone
  <2>5. QED
    BY <2>3, <2>4 DEF Status
<1>3. LiveIds' = LiveIds \ ids
  BY <1>1, <1>2 DEF LiveIds, Live
<1>4. QED
  BY <1>1, <1>2, <1>3

(* SUCCESS rows stay, and stand for the lines they stood for.                *)
Final ==
  \A i \in Id : Status(i) = "SUCCESS" => Status(i)' = "SUCCESS" /\ table'[i] = table[i]

(* What does not touch records or stock leaves this to show.                 *)
LEMMA Untouched ==
  ASSUME UNCHANGED table
  PROVE  /\ LiveIds' = LiveIds /\ (Posted' <=> Posted) /\ (Shown' <=> Shown) /\ Final
         /\ \A i \in Id : Status(i)' = Status(i)
BY DEF LiveIds, Posted, Shown, Final, Status

(* Nor does it concern what Oracle has in its queue.                         *)
LEMMA LeftAlone ==
  ASSUME UNCHANGED staged
  PROVE  /\ \A n \in Line : Left(n)' <=> Left(n)
         /\ \A ns : Unsettled(ns)' <=> Unsettled(ns)
         /\ UNCHANGED moves => (Queued' <=> Queued)
<1>1. \A n \in Line : Left(n)' <=> Left(n)
  BY DEF Left
<1>2. ASSUME NEW ns
      PROVE  Unsettled(ns)' <=> Unsettled(ns)
  BY DEF Unsettled
<1>3. UNCHANGED moves => (Queued' <=> Queued)
  BY DEF Queued
<1>4. QED
  BY <1>1, <1>2, <1>3

(* The lines of what a call holds.                                           *)
LEMMA LinesTyped ==
  ASSUME TypeOK, NEW w \in Worker
  PROVE  /\ \A x \in job[w].todo : x.lines \in SUBSET Line
         /\ \A c \in job[w].open : c.lines \in SUBSET Line /\ c.id \in Id
BY DEF TypeOK, Job, Row, Open

-----------------------------------------------------------------------------
(* The rows of an upload share no line; a row that is the only one stands    *)
(* for all that landed.                                                      *)
LEMMA RowsApart ==
  /\ \A ns \in Rows : ns # {} /\ ns \subseteq landed
  /\ \A ms, ns \in Rows : ms = ns \/ ms \cap ns = {}
  /\ \A ns : Rows = {ns} => landed \subseteq ns
<1>1. \A ns \in Rows : ns # {} /\ ns \subseteq landed
  BY DEF Rows
<1>2. \A ms, ns \in Rows : ms = ns \/ ms \cap ns = {}
  BY DEF Rows
<1>3. ASSUME NEW ns, Rows = {ns}, NEW m \in landed
      PROVE  m \in ns
  <2>1. {n \in landed : UomOf[n] = UomOf[m]} \in Rows
    BY DEF Rows
  <2>2. {n \in landed : UomOf[n] = UomOf[m]} = ns
    BY <1>3, <2>1
  <2>3. QED
    BY <2>2
<1>4. QED
  BY <1>1, <1>2, <1>3

LEMMA BeginCalm ==
  ASSUME Steady, ~harm', NEW w \in Worker,
         \/ w \in Host /\ UploadDay(w)
         \/ w \in Clerk /\ Reprocess(w)
  PROVE  Calm(w)'
<1>1. PICK rows :
        /\ Begin(w, rows)
        /\ IF w \in Host
           THEN rows = {[lines |-> ns, id |-> None] : ns \in Rows}
           ELSE \E ids \in SUBSET {i \in Id : Status(i) = "HELD"} :
                  rows = {[lines |-> table[i].lines, id |-> i] : i \in ids}
  BY ConstantsOK DEF UploadDay, Reprocess
<1>2. ~harm /\ Alone(w) /\ job[w] = NoJob /\ UNCHANGED <<landed, table, moves, staged>>
  BY <1>1 DEF Begin, leftovers
<1> DEFINE j == [NoJob EXCEPT !.pc = "read", !.todo = rows]
<1>3. job'[w] = j /\ Alone(w)'
  BY <1>1, <1>2, Stepped DEF Begin, Steady
<1>4. /\ j.pc = "read" /\ j.todo = rows /\ j.open = {} /\ j.older = {}
      /\ j.reuse = None /\ j.posted = FALSE
  BY DEF NoJob
<1>5. Calm(w) /\ job[w].open = {}
  BY <1>2, Stepping, NoJobTyped
<1> HIDE DEF j
<1>6. Disjoint(w)'
  BY <1>2, <1>5, Untouched DEF Calm, Disjoint, Saved
<1>7. Settled(w)' /\ Queued'
  BY <1>2, <1>5, Untouched, LeftAlone DEF Calm, Settled
<1>8. Pending(w)'
  BY <1>3, <1>4 DEF Pending
<1>9. CASE w \in Host
  <2>1. Apart(w)'
    <3>1. \A x \in rows : x.id = None /\ x.lines # {} /\ x.lines \subseteq landed
      BY <1>1, <1>9, RowsApart
    <3>2. ASSUME NEW x \in rows, NEW y \in rows
          PROVE  x = y \/ x.lines \cap y.lines = {}
      <4>1. PICK ms \in Rows, ns \in Rows :
              x = [lines |-> ms, id |-> None] /\ y = [lines |-> ns, id |-> None]
        BY <1>1, <1>9
      <4>2. QED
        BY <4>1, RowsApart
    <3>3. QED
      BY <1>2, <1>3, <1>4, <3>1, <3>2 DEF Apart
  <2>2. Chosen(w)'
    BY <1>3, <1>4 DEF Chosen, Anew
  <2>3. QED
    BY <1>2, <1>3, <1>5, <1>6, <1>7, <1>8, <1>9, <2>1, <2>2, Untouched DEF Calm
<1>10. CASE w \notin Host
  <2>1. ASSUME NEW x \in rows
        PROVE  x.id \in Id /\ table[x.id] = [lines |-> x.lines, status |-> "HELD"]
    <3>1. PICK i \in Id : Status(i) = "HELD" /\ x = [lines |-> table[i].lines, id |-> i]
      BY <1>1, <1>10, <2>1
    <3>2. table[i] \in [lines : SUBSET Line, status : Live \cup {"SUPERSEDED"}]
      BY <3>1 DEF Status, Steady, TypeOK
    <3>3. QED
      BY <3>1, <3>2 DEF Status
  <2>2. Selected(w)'
    BY <1>2, <1>3, <1>4, <2>1 DEF Selected
  <2>3. QED
    BY <1>2, <1>3, <1>5, <1>6, <1>7, <1>8, <1>10, <2>2, Untouched DEF Calm
<1>11. QED
  BY <1>9, <1>10

(* The search: an upload that finds no SUCCESS row knows that what moved, if *)
(* anything, moved for a leftover.                                           *)
LEMMA ReadCalm ==
  ASSUME Steady, ~harm', NEW w \in Worker, ReadExisting(w)
  PROVE  Calm(w)'
<1>1. ~harm /\ UNCHANGED <<landed, table, moves, staged>> /\ job[w].pc = "read" /\ job[w] \in Job
  BY DEF ReadExisting, Steady, TypeOK, leftovers
<1>2. Calm(w)
  BY <1>1, Stepping DEF NoJob
<1>3. job[w].open = {} /\ job[w].older = {} /\ job[w].reuse = None
  BY <1>1, <1>2 DEF Calm, Pending
<1>4. PICK j :
        /\ Go(w, j) /\ j.pc = "work" /\ j.todo = job[w].todo /\ j.open = {}
        /\ j.posted = Posted
        /\ IF w \in Clerk \/ LiveIds = {}
           THEN j.reuse = None /\ j.older = {}
           ELSE j.reuse \in LiveIds /\ j.older = LiveIds \ {j.reuse}
  <2>1. CASE w \in Clerk \/ LiveIds = {}
    <3> DEFINE j == [job[w] EXCEPT !.pc = "work", !.posted = Posted]
    <3>1. Go(w, j)
      BY <2>1 DEF ReadExisting
    <3>2. /\ j.pc = "work" /\ j.todo = job[w].todo /\ j.open = {} /\ j.posted = Posted
          /\ j.reuse = None /\ j.older = {}
      BY <1>1, <1>3 DEF Job
    <3> HIDE DEF j
    <3>3. QED
      BY <2>1, <3>1, <3>2
  <2>2. CASE ~(w \in Clerk \/ LiveIds = {})
    <3>1. PICK i \in LiveIds :
            Go(w, [job[w] EXCEPT !.pc = "work", !.posted = Posted, !.reuse = i,
                                 !.older = LiveIds \ {i}])
      BY <2>2 DEF ReadExisting
    <3> DEFINE j == [job[w] EXCEPT !.pc = "work", !.posted = Posted, !.reuse = i,
                                   !.older = LiveIds \ {i}]
    <3>2. /\ j.pc = "work" /\ j.todo = job[w].todo /\ j.open = {} /\ j.posted = Posted
          /\ j.reuse = i /\ j.older = LiveIds \ {i}
      BY <1>1, <1>3 DEF Job
    <3>3. Go(w, j)
      BY <3>1
    <3> HIDE DEF j
    <3>4. QED
      BY <2>2, <3>2, <3>3
  <2>3. QED
    BY <2>1, <2>2
<1>5. job'[w] = j /\ Alone(w)'
  BY <1>2, <1>4, Stepped DEF Steady, Calm
<1>6. Disjoint(w)'
  BY <1>1, <1>2, <1>3, Untouched DEF Calm, Disjoint, Saved
<1>7. Settled(w)' /\ Queued'
  <2>1. Settled(w)'
    BY <1>1, <1>2, <1>3, Untouched, LeftAlone DEF Calm, Settled
  <2>2. QED
    BY <1>1, <1>2, <2>1, LeftAlone DEF Calm
<1>8. Pending(w)'
  <2>1. ASSUME ~Posted, NEW x \in job[w].todo, NEW n \in x.lines, moves'[n] # 0
        PROVE  Left(n)'
    <3>1. n \in Line
      BY LinesTyped DEF Steady
    <3>2. QED
      BY <1>1, <1>2, <1>3, <2>1, <3>1, LeftAlone DEF Calm, Settled
  <2>2. QED
    BY <1>4, <1>5, <2>1 DEF Pending
<1>9. IF w \in Host THEN (Apart(w) /\ Chosen(w))' ELSE Selected(w)'
  <2>1. CASE w \in Host
    <3>1. w \notin Clerk /\ LiveIds \subseteq Id /\ None \notin Id
      BY <2>1, ConstantsOK DEF LiveIds
    <3>2. Apart(w)'
      BY <1>1, <1>2, <1>3, <1>4, <1>5, <2>1 DEF Calm, Apart
    <3>3. LiveIds' = LiveIds /\ (Posted' <=> Posted)
      BY <1>1, Untouched
    <3>4. Chosen(w)'
      <4>1. CASE LiveIds = {}
        BY <1>4, <1>5, <3>3, <4>1 DEF Chosen, Anew
      <4>2. CASE LiveIds # {}
        <5>1. job'[w].reuse # None
          BY <1>4, <1>5, <3>1, <4>2
        <5>2. Again(w)'
          BY <1>4, <1>5, <3>1, <3>3, <4>2 DEF Again
        <5>3. QED
          BY <5>1, <5>2 DEF Chosen
      <4>3. QED
        BY <4>1, <4>2
    <3>5. QED
      BY <2>1, <3>2, <3>4
  <2>2. CASE w \notin Host
    BY <1>1, <1>2, <1>3, <1>4, <1>5, <2>2, Untouched DEF Calm, Selected
  <2>3. QED
    BY <2>1, <2>2
<1>10. QED
  BY <1>1, <1>2, <1>5, <1>6, <1>7, <1>8, <1>9, Untouched DEF Calm

(* The rows reprocess holds are told apart by their records.                 *)
LEMMA SelectedApart ==
  ASSUME Steady, NEW w \in Worker, Selected(w), NEW x \in job[w].todo, NEW y \in job[w].todo,
         x.id = y.id
  PROVE  x = y
<1>1. x \in Row /\ y \in Row
  BY RowTyped DEF Steady
<1>2. table[x.id] = [lines |-> x.lines, status |-> "HELD"]
      /\ table[y.id] = [lines |-> y.lines, status |-> "HELD"]
  BY DEF Selected
<1>3. x.lines = y.lines
  BY <1>2
<1>4. QED
  BY <1>1, <1>3 DEF Row

(* Skipping: only reprocess touches a record, one that was held, and a       *)
(* SUCCESS row is there.                                                     *)
LEMMA SkipCalm ==
  ASSUME Steady, ~harm, NEW w \in Worker, NEW x \in job[w].todo, SkipPosted(w, x)
  PROVE  Calm(w)' /\ Final
<1>1. /\ job[w].pc = "work" /\ job[w].posted /\ job[w] \in Job
      /\ UNCHANGED <<landed, moves, staged>>
  BY DEF SkipPosted, Working, Steady, TypeOK, leftovers
<1>2. Calm(w)
  BY <1>1, Stepping DEF NoJob
<1> DEFINE j == [job[w] EXCEPT !.todo = @ \ {x}]
<1>3. job'[w] = j /\ Alone(w)'
  BY <1>2, Stepped DEF SkipPosted, Steady, Calm
<1>4. /\ j.pc = "work" /\ j.posted = job[w].posted /\ j.todo = job[w].todo \ {x}
      /\ j.open = job[w].open /\ j.older = job[w].older /\ j.reuse = job[w].reuse
  BY <1>1 DEF Job
<1> HIDE DEF j
<1>5. Pending(w)' /\ Queued'
  <2>1. \A c \in job[w].open : Unsettled(c.lines)' <=> Unsettled(c.lines)
    BY <1>1, LeftAlone
  <2>2. Pending(w)'
    BY <1>1, <1>2, <1>3, <1>4, <2>1 DEF Calm, Pending
  <2>3. QED
    BY <1>1, <1>2, <2>2, LeftAlone DEF Calm
<1>6. CASE w \in Host
  <2>1. UNCHANGED table
    BY <1>6, ConstantsOK DEF SkipPosted
  <2>2. Disjoint(w)' /\ Settled(w)'
    <3>1. Disjoint(w)'
      BY <1>2, <1>3, <1>4, <2>1, Untouched DEF Calm, Disjoint, Saved
    <3>2. Settled(w)'
      BY <1>1, <1>2, <1>3, <1>4, <2>1, Untouched, LeftAlone DEF Calm, Settled
    <3>3. QED
      BY <3>1, <3>2
  <2>3. Apart(w)' /\ Chosen(w)'
    <3>1. Apart(w)'
      BY <1>1, <1>2, <1>3, <1>4, <1>6 DEF Calm, Apart
    <3>2. job[w].open = {}
      BY <1>1, <1>2, <1>6 DEF Calm, Chosen, Anew, Again
    <3>3. Chosen(w)'
      BY <1>1, <1>2, <1>3, <1>4, <1>6, <3>2 DEF Calm, Chosen, Anew, Again
    <3>4. QED
      BY <3>1, <3>3
  <2>4. QED
    BY <1>2, <1>3, <1>5, <1>6, <2>1, <2>2, <2>3, Untouched DEF Calm
<1>7. CASE w \notin Host
  <2>1. w \in Clerk /\ Selected(w) /\ job[w].older = {}
    BY <1>2, <1>7 DEF Calm, Worker, Steady, TypeOK
  <2>2. x.id \in Id /\ table[x.id] = [lines |-> x.lines, status |-> "HELD"] /\ x.lines \in SUBSET Line
    BY <2>1, RowTyped DEF Selected, Steady, Row
  <2>3. Status(x.id) = "HELD"
    BY <2>2, RecordIsNotNone DEF Status, Live
  <2>4. {x.id} \in SUBSET LiveIds
    BY <2>2, <2>3 DEF LiveIds, Live
  <2>5. table' = Superseded({x.id})
    BY <2>1 DEF SkipPosted
  <2>6. /\ \A i \in Id \ {x.id} : Status(i)' = Status(i) /\ table'[i] = table[i]
        /\ LiveIds' = LiveIds \ {x.id} /\ Status(x.id)' = "SUPERSEDED"
    BY <2>4, <2>5, Retired DEF Steady
  <2>7. Final
    BY <2>3, <2>6 DEF Final
  <2>8. Posted /\ Posted'
    BY <1>1, <2>1, <2>7 DEF Selected, Posted, Final
  <2>9. Shown'
    BY <2>8 DEF Shown, Posted, LiveIds, Live
  <2>10. Disjoint(w)' /\ Settled(w)'
    <3>1. Disjoint(w)'
      BY <1>2, <1>3, <1>4, <2>1, <2>6 DEF Calm, Disjoint, Saved, LiveIds
    <3>2. Settled(w)'
      BY <1>1, <1>2, <2>8 DEF Calm, Settled
    <3>3. QED
      BY <3>1, <3>2
  <2>11. Selected(w)'
    <3>1. \A y \in j.todo \cup j.open : y.id # x.id
      BY <1>4, <2>1, SelectedApart DEF Selected
    <3>2. QED
      BY <1>3, <1>4, <2>1, <2>6, <2>8, <3>1 DEF Selected
  <2>12. QED
    BY <1>3, <1>5, <1>7, <2>7, <2>9, <2>10, <2>11 DEF Calm
<1>8. Final
  BY <1>6, <1>7, ConstantsOK, Untouched DEF SkipPosted
<1>9. QED
  BY <1>6, <1>7, <1>8

(* Taking a row: unless rows share a record or a leftover is in the way, an  *)
(* upload writes a new one, or its only row is all that landed.              *)
LEMMA TakeCalm ==
  ASSUME Steady, ~harm', NEW w \in Worker, NEW x \in job[w].todo,
         NEW phase \in {"sent", "unsent"}, TakeRow(w, x, phase)
  PROVE  Calm(w)'
<1>1. /\ ~harm /\ ~Shared(w, x) /\ (phase = "sent" => ~Unsettled(x.lines))
      /\ job[w].pc = "work" /\ ~job[w].posted /\ job[w] \in Job
      /\ UNCHANGED <<landed, table, moves, staged>>
  BY DEF TakeRow, Take, Working, Steady, TypeOK, leftovers
<1>2. Calm(w)
  BY <1>1, Stepping DEF NoJob
<1>3. PICK i \in Target(w, x) :
        Go(w, [job[w] EXCEPT !.todo = @ \ {x}, !.open = @ \cup
                               {[lines |-> x.lines, id |-> i, phase |-> phase]}])
  BY DEF TakeRow, Take
<1> DEFINE c == [lines |-> x.lines, id |-> i, phase |-> phase]
           j == [job[w] EXCEPT !.todo = @ \ {x}, !.open = @ \cup {c}]
<1>4. job'[w] = j /\ Alone(w)'
  BY <1>2, <1>3, Stepped DEF Steady, Calm
<1>5. /\ j.pc = "work" /\ j.posted = job[w].posted /\ j.todo = job[w].todo \ {x}
      /\ j.open = job[w].open \cup {c} /\ j.older = job[w].older /\ j.reuse = job[w].reuse
  BY <1>1 DEF Job
<1>6. c.lines = x.lines /\ c.id = i /\ c.phase = phase
  OBVIOUS
<1> HIDE DEF c, j
<1>7. Saved(w)' <=> Saved(w)
  BY <1>4, <1>5, <1>6 DEF Saved
<1>8. Disjoint(w)' /\ Settled(w)' /\ Queued'
  <2>1. Disjoint(w)'
    BY <1>1, <1>2, <1>4, <1>5, <1>7, Untouched DEF Calm, Disjoint
  <2>2. Settled(w)'
    BY <1>1, <1>2, <1>4, <1>5, Untouched, LeftAlone DEF Calm, Settled
  <2>3. QED
    BY <1>1, <1>2, <2>1, <2>2, LeftAlone DEF Calm
<1>9. Pending(w)'
  <2>1. \A n \in Line : Left(n)' <=> Left(n)
    BY <1>1, LeftAlone
  <2>2. ASSUME NEW y \in j.todo, NEW n \in y.lines, moves'[n] # 0
        PROVE  Left(n)'
    <3>1. n \in Line
      BY <1>5, LinesTyped DEF Steady
    <3>2. QED
      BY <1>1, <1>2, <1>5, <2>1, <2>2, <3>1 DEF Calm, Pending
  <2>3. ASSUME phase = "sent", NEW n \in x.lines
        PROVE  moves[n] = 0
    BY <1>1, <1>2, <2>3 DEF Calm, Pending, Left, Unsettled
  <2>4. ASSUME NEW d \in j.open, d.phase = "sent"
        PROVE  ~Unsettled(d.lines)' /\ \A n \in d.lines : moves'[n] = 0
    <3>1. Unsettled(d.lines)' <=> Unsettled(d.lines)
      BY <1>1, LeftAlone
    <3>2. QED
      BY <1>1, <1>2, <1>5, <1>6, <2>3, <2>4, <3>1 DEF Calm, Pending
  <2>5. QED
    BY <1>4, <1>5, <2>2, <2>4 DEF Pending
<1>10. CASE w \in Host
  <2>1. Apart(w) /\ Chosen(w) /\ x.id = None
    BY <1>2, <1>10 DEF Calm, Apart
  <2>2. Apart(w)'
    BY <1>1, <1>4, <1>5, <1>6, <2>1 DEF Apart
  <2>3. LiveIds' = LiveIds /\ (Posted' <=> Posted) /\ \A k \in Id : Status(k)' = Status(k)
    BY <1>1, Untouched
  <2>4. Chosen(w)'
    <3>1. CASE job[w].reuse = None
      <4>1. FreshId(i) /\ i \in Id
        BY <1>3, <2>1, <3>1 DEF Target
      <4>2. i \notin LiveIds /\ \A d \in job[w].open : d.id # i
        BY <4>1 DEF FreshId, LiveIds, Live, Ids
      <4>3. Anew(w)
        BY <2>1, <3>1 DEF Chosen
      <4>4. Anew(w)'
        <5>1. \A d \in j.open : d.id \notin LiveIds /\ d.phase # "saved" /\ ~j.posted
          BY <1>1, <1>5, <1>6, <4>2, <4>3 DEF Anew
        <5>2. \A d, e \in j.open : d.id = e.id => d = e
          BY <1>5, <1>6, <4>2, <4>3 DEF Anew
        <5>3. \A y \in j.todo \cup j.open, k \in LiveIds : y.lines \cap table[k].lines = {}
          BY <1>1, <1>5, <1>6, <4>3 DEF Anew
        <5>4. QED
          BY <1>1, <1>4, <1>5, <2>3, <4>3, <5>1, <5>2, <5>3 DEF Anew
      <4>5. QED
        BY <1>4, <1>5, <3>1, <4>4 DEF Chosen
    <3>2. CASE job[w].reuse # None
      <4>1. Again(w) /\ i = job[w].reuse
        BY <1>3, <2>1, <3>2 DEF Chosen, Target
      <4>2. landed \subseteq x.lines
        BY <1>1, <2>1, <3>2, RowsApart DEF Shared
      <4>3. job[w].todo = {x} /\ job[w].open = {}
        BY <2>1, <4>2 DEF Apart
      <4>4. /\ ~Posted /\ LiveIds \subseteq job[w].older \cup {i}
            /\ job[w].older \subseteq LiveIds /\ i \notin job[w].older
        BY <1>1, <4>1, <4>3 DEF Again
      <4>5. \A k \in job[w].older : k \in Id /\ Status(k) \in {"HELD", "PENDING"}
        BY <4>4 DEF LiveIds, Live, Posted
      <4>6. j.todo = {} /\ j.open = {c}
        BY <1>5, <4>3
      <4>7. Again(w)'
        BY <1>1, <1>4, <1>5, <1>6, <2>3, <4>1, <4>4, <4>5, <4>6 DEF Again
      <4>8. QED
        BY <1>4, <1>5, <3>2, <4>7 DEF Chosen
    <3>3. QED
      BY <3>1, <3>2
  <2>5. QED
    BY <1>1, <1>2, <1>4, <1>8, <1>9, <1>10, <2>2, <2>4, Untouched DEF Calm
<1>11. CASE w \notin Host
  <2>1. Selected(w)
    BY <1>2, <1>11 DEF Calm
  <2>2. x.id \in Id /\ x.id # None
    BY <2>1, ConstantsOK DEF Selected
  <2>3. i = x.id
    BY <1>3, <2>2 DEF Target
  <2>4. \A y \in j.todo : y.id # x.id
    BY <1>5, <2>1, SelectedApart
  <2>5. Selected(w)'
    BY <1>1, <1>4, <1>5, <1>6, <2>1, <2>3, <2>4, Untouched DEF Selected
  <2>6. QED
    BY <1>1, <1>2, <1>4, <1>8, <1>9, <1>11, <2>5, Untouched DEF Calm
<1>12. QED
  BY <1>10, <1>11

-----------------------------------------------------------------------------
(* What a call holds besides a row it has sent shares no line with it.       *)
LEMMA SentApart ==
  ASSUME Steady, NEW w \in Worker, Calm(w), NEW c \in job[w].open, c.phase = "sent",
         NEW x \in job[w].todo \cup job[w].open, x # c
  PROVE  x.lines \cap c.lines = {}
<1>1. CASE w \in Host
  BY <1>1 DEF Calm, Apart
<1>2. CASE w \notin Host
  <2>1. w \in Clerk /\ Selected(w) /\ job[w].older = {}
    BY <1>2 DEF Calm, Worker, Steady, TypeOK
  <2>2. x.id # c.id
    BY <2>1 DEF Selected
  <2>3. /\ x.id \in Id /\ table[x.id] = [lines |-> x.lines, status |-> "HELD"]
        /\ c.id \in Id /\ table[c.id] = [lines |-> c.lines, status |-> "HELD"]
    BY <2>1 DEF Selected
  <2>4. x.lines \in SUBSET Line /\ c.lines \in SUBSET Line
    BY LinesTyped DEF Steady
  <2>5. x.id \in LiveIds /\ c.id \in LiveIds
    BY <2>3, <2>4, RecordIsNotNone DEF LiveIds, Status, Live
  <2>6. QED
    BY <2>1, <2>2, <2>3, <2>5 DEF Calm, Disjoint
<1>3. QED
  BY <1>1, <1>2

(* A row in hand changes its phase, records being left alone.                *)
LEMMA AdvanceCalm ==
  ASSUME Steady, ~harm, NEW w \in Worker, NEW c \in job[w].open, c.phase = "sent",
         \/ Accept(w, c) \/ Refuse(w, c)
  PROVE  Calm(w)'
<1>1. /\ c \in Open /\ job[w] \in Job /\ UNCHANGED <<landed, table, staged>>
      /\ c.lines \subseteq Line
  BY DEF Steady, TypeOK, Job, Open, Accept, Refuse, leftovers
<1>2. Calm(w)
  BY Stepping, NoJobTyped
<1>3. PICK phase \in {"accepted", "refused"} :
        /\ Advance(w, c, phase)
        /\ IF phase = "accepted" THEN Move(c.lines) ELSE UNCHANGED moves
  BY DEF Accept, Refuse
<1> DEFINE d == [c EXCEPT !.phase = phase]
           j == [job[w] EXCEPT !.open = (@ \ {c}) \cup {d}]
<1>4. job'[w] = j /\ Alone(w)'
  BY <1>2, <1>3, Stepped DEF Steady, Calm, Advance
<1>5. /\ j.pc = job[w].pc /\ j.posted = job[w].posted /\ j.todo = job[w].todo
      /\ j.open = (job[w].open \ {c}) \cup {d} /\ j.older = job[w].older
      /\ j.reuse = job[w].reuse
  BY <1>1 DEF Job
<1>6. d.lines = c.lines /\ d.id = c.id /\ d.phase = phase
  BY <1>1 DEF Open
<1> HIDE DEF d, j
<1>7. Saved(w)' <=> Saved(w)
  BY <1>4, <1>5, <1>6 DEF Saved
<1>8. Disjoint(w)'
  BY <1>1, <1>2, <1>4, <1>5, <1>7, Untouched DEF Calm, Disjoint
<1>9. \A n \in Line : moves'[n] = IF phase = "accepted" /\ n \in c.lines THEN 1 ELSE moves[n]
  <2>1. \A n \in c.lines : moves[n] = 0
    BY <1>2 DEF Calm, Pending
  <2>2. QED
    BY <1>1, <1>3, <2>1 DEF Move
<1>10. Settled(w)'
  BY <1>1, <1>2, <1>4, <1>5, <1>6, <1>9, Untouched, LeftAlone DEF Calm, Settled
<1>11. job[w].pc \notin {"idle", "read"}
  BY <1>2 DEF Calm, Pending
<1>12. Queued'
  <2>1. ~Unsettled(c.lines)
    BY <1>2 DEF Calm, Pending
  <2>2. ASSUME NEW i \in LegacyId, staged'[i] = "queued"
        PROVE  moves'[LegacyOf[i]] = 0
    <3>1. LegacyOf[i] \in Line /\ LegacyOf[i] \notin c.lines
      BY <1>1, <2>1, <2>2, ConstantsOK DEF Unsettled
    <3>2. QED
      BY <1>1, <1>2, <1>9, <2>2, <3>1 DEF Calm, Queued
  <2>3. QED
    BY <2>2 DEF Queued
<1>13. Pending(w)'
  <2>1. ASSUME NEW x \in job[w].todo \cup job[w].open, x # c, NEW n \in x.lines
        PROVE  n \in Line /\ moves'[n] = moves[n]
    <3>1. n \in Line
      BY <2>1, LinesTyped DEF Steady
    <3>2. n \notin c.lines
      BY <1>2, <2>1, SentApart
    <3>3. QED
      BY <1>9, <3>1, <3>2
  <2>2. ASSUME NEW e \in j.open, e.phase = "sent"
        PROVE  ~Unsettled(e.lines)' /\ \A n \in e.lines : moves'[n] = 0
    <3>1. e \in job[w].open /\ e # c
      BY <1>3, <1>5, <1>6, <2>2
    <3>2. Unsettled(e.lines)' <=> Unsettled(e.lines)
      BY <1>1, LeftAlone
    <3>3. QED
      BY <1>2, <2>1, <2>2, <3>1, <3>2 DEF Calm, Pending
  <2>3. ASSUME NEW x \in j.todo, NEW n \in x.lines, j.pc = "work", ~j.posted, moves'[n] # 0
        PROVE  Left(n)'
    <3>1. x # c
      <4>1. x \in Row
        BY <1>5, RowTyped DEF Steady
      <4>2. CASE w \in Host
        BY <1>2, <1>5, <4>2 DEF Calm, Apart
      <4>3. CASE w \notin Host
        BY <1>2, <1>5, <4>3 DEF Calm, Selected
      <4>4. QED
        BY <4>2, <4>3
    <3>2. n \in Line /\ moves[n] # 0
      BY <1>5, <2>1, <2>3, <3>1
    <3>3. QED
      BY <1>1, <1>2, <1>5, <2>3, <3>2, LeftAlone DEF Calm, Pending
  <2>4. QED
    BY <1>4, <1>5, <1>11, <2>2, <2>3 DEF Pending
<1>14. IF w \in Host THEN (Apart(w) /\ Chosen(w))' ELSE Selected(w)'
  <2>1. LiveIds' = LiveIds /\ (Posted' <=> Posted) /\ \A i \in Id : Status(i)' = Status(i)
    BY <1>1, Untouched
  <2>2. CASE w \in Host
    <3>1. Apart(w) /\ Chosen(w)
      BY <1>2, <2>2 DEF Calm
    <3>2. Apart(w)'
      BY <1>1, <1>4, <1>5, <1>6, <3>1 DEF Apart
    <3>3. CASE job[w].reuse = None
      <4>1. Anew(w)'
        BY <1>1, <1>3, <1>4, <1>5, <1>6, <2>1, <3>1, <3>3 DEF Chosen, Anew
      <4>2. QED
        BY <1>4, <1>5, <2>2, <3>2, <3>3, <4>1 DEF Chosen
    <3>4. CASE job[w].reuse # None
      <4>1. Again(w) /\ job[w].open = {c} /\ job[w].todo = {} /\ ~Posted
        BY <3>1, <3>4 DEF Chosen, Again
      <4>2. j.open = {d} /\ d.phase # "saved" /\ job[w].older \subseteq Id
        BY <1>1, <1>3, <1>5, <1>6, <4>1 DEF Job
      <4>3. Again(w)'
        BY <1>4, <1>5, <1>6, <2>1, <4>1, <4>2 DEF Again
      <4>4. QED
        BY <1>4, <1>5, <2>2, <3>2, <3>4, <4>3 DEF Chosen
    <3>5. QED
      BY <3>3, <3>4
  <2>3. CASE w \notin Host
    <3>1. Selected(w)
      BY <1>2, <2>3 DEF Calm
    <3>2. QED
      BY <1>1, <1>3, <1>4, <1>5, <1>6, <2>1, <2>3, <3>1 DEF Selected
  <2>4. QED
    BY <2>2, <2>3
<1>15. QED
  BY <1>1, <1>2, <1>4, <1>8, <1>10, <1>12, <1>13, <1>14, Untouched DEF Calm

(* What returning an outcome changes.                                        *)
LEMMA OutcomeSteps ==
  ASSUME Steady, NEW w \in Worker, Alone(w), NEW c \in job[w].open,
         NEW success \in BOOLEAN, Outcome(w, c, success)
  PROVE  /\ Alone(w)'
         /\ job'[w].pc = job[w].pc /\ job'[w].todo = job[w].todo
         /\ job'[w].older = job[w].older /\ job'[w].reuse = job[w].reuse
         /\ job'[w].posted = (job[w].posted \/ (success /\ w \in Clerk))
         /\ \E d \in Open :
              /\ d.phase = "saved" /\ d.id = c.id /\ d.lines = c.lines
              /\ job'[w].open = (job[w].open \ {c}) \cup
                                IF job[w].older = {} THEN {} ELSE {d}
<1>1. c \in Open /\ job[w] \in Job
  BY DEF Steady, TypeOK, Job
<1> DEFINE d == [c EXCEPT !.phase = "saved"]
           kept == (job[w].open \ {c}) \cup (IF job[w].older = {} THEN {} ELSE {d})
           p == job[w].posted \/ (success /\ w \in Clerk)
           j == [job[w] EXCEPT !.posted = p, !.open = kept]
<1>2. d \in Open /\ d.phase = "saved" /\ d.id = c.id /\ d.lines = c.lines
  BY <1>1 DEF Open
<1>3. Go(w, j)
  BY DEF Outcome
<1>4. job'[w] = j /\ Alone(w)'
  BY <1>3, Stepped DEF Steady
<1>5. /\ j.pc = job[w].pc /\ j.todo = job[w].todo /\ j.older = job[w].older
      /\ j.reuse = job[w].reuse /\ j.posted = p /\ j.open = kept
  BY <1>1 DEF Job
<1> HIDE DEF j, d
<1>6. QED
  BY <1>2, <1>4, <1>5

(* Left alone by a save: who is left to send, and what Oracle has in hand.   *)
LEMMA SavedPending ==
  ASSUME Steady, NEW w \in Worker, Calm(w), NEW c \in job[w].open, c.phase # "saved",
         UNCHANGED <<moves, staged>>,
         job'[w].pc = job[w].pc, job'[w].todo = job[w].todo,
         job[w].posted => job'[w].posted,
         \A d \in job'[w].open : d \in job[w].open \/ d.phase = "saved"
  PROVE  Pending(w)' /\ Queued'
<1>1. \A n \in Line : Left(n)' <=> Left(n)
  BY LeftAlone
<1>2. job[w].pc \notin {"idle", "read"}
  BY DEF Calm, Pending
<1>3. ASSUME NEW x \in job[w].todo, NEW n \in x.lines, job'[w].pc = "work", ~job'[w].posted,
             moves'[n] # 0
      PROVE  Left(n)'
  <2>1. n \in Line
    BY LinesTyped DEF Steady
  <2>2. QED
    BY <1>1, <1>3, <2>1 DEF Calm, Pending
<1>4. ASSUME NEW d \in job'[w].open, d.phase = "sent"
      PROVE  ~Unsettled(d.lines)' /\ \A n \in d.lines : moves'[n] = 0
  <2>1. Unsettled(d.lines)' <=> Unsettled(d.lines)
    BY LeftAlone
  <2>2. QED
    BY <1>4, <2>1 DEF Calm, Pending
<1>5. Queued'
  BY LeftAlone DEF Calm
<1>6. QED
  BY <1>2, <1>3, <1>4, <1>5 DEF Pending

(* An upload writes a record: a new one for lines no live row stands for, or *)
(* its one record, knowing the others, none of them SUCCESS.                 *)
LEMMA UploadSaves ==
  ASSUME Steady, ~harm, NEW w \in Host, NEW c \in job[w].open, c.phase # "saved",
         NEW ns \in SUBSET Line, NEW status \in Live, Write(c.id, ns, status),
         ns # c.lines => Status(c.id) \in Live,
         NEW success \in BOOLEAN, Outcome(w, c, success), UNCHANGED <<landed, moves, staged>>,
         IF c.phase = "accepted" THEN status = "SUCCESS" ELSE status = "HELD"
  PROVE  Calm(w)' /\ Final
<1>1. w \in Worker /\ w \notin Clerk /\ c.id \in Id /\ job[w] \in Job /\ job[w].older \subseteq Id
  BY ConstantsOK DEF Worker, Steady, TypeOK, Job, Open
<1>2. Calm(w) /\ Apart(w) /\ Chosen(w)
  BY <1>1, Stepping, NoJobTyped DEF Calm
<1>3. PICK d \in Open :
        /\ Alone(w)' /\ job'[w].pc = job[w].pc /\ job'[w].todo = job[w].todo
        /\ job'[w].older = job[w].older /\ job'[w].reuse = job[w].reuse
        /\ job'[w].posted = job[w].posted
        /\ d.phase = "saved" /\ d.id = c.id /\ d.lines = c.lines
        /\ job'[w].open = (job[w].open \ {c}) \cup IF job[w].older = {} THEN {} ELSE {d}
  <2>1. Alone(w) /\ job[w].posted \in BOOLEAN
    BY <1>1, <1>2 DEF Calm, Job
  <2>2. (job[w].posted \/ (success /\ w \in Clerk)) = job[w].posted
    BY <1>1, <2>1
  <2>3. PICK d \in Open :
          /\ d.phase = "saved" /\ d.id = c.id /\ d.lines = c.lines
          /\ job'[w].open = (job[w].open \ {c}) \cup IF job[w].older = {} THEN {} ELSE {d}
    BY <1>1, <2>1, OutcomeSteps
  <2>4. /\ Alone(w)' /\ job'[w].pc = job[w].pc /\ job'[w].todo = job[w].todo
        /\ job'[w].older = job[w].older /\ job'[w].reuse = job[w].reuse
        /\ job'[w].posted = job[w].posted
    BY <1>1, <2>1, <2>2, OutcomeSteps
  <2>5. QED
    BY <2>3, <2>4
<1>4. /\ Status(c.id)' = status /\ LiveIds' = LiveIds \cup {c.id} /\ table'[c.id].lines = ns
      /\ \A k \in Id \ {c.id} : Status(k)' = Status(k) /\ table'[k] = table[k]
  BY <1>1, Written DEF Steady
<1>5. Status(c.id) # "SUCCESS"
  BY <1>1, <1>2 DEF Chosen, Anew, Again, LiveIds, Live, Posted
<1>6. Final
  BY <1>4, <1>5 DEF Final
<1>7. Posted => Posted'
  BY <1>6 DEF Posted, Final
<1>8. Settled(w)'
  <2>1. ASSUME NEW e \in job[w].open, e.phase = "accepted"
        PROVE  Posted' \/ e \in job'[w].open
    <3>1. CASE e = c
      BY <1>1, <1>4, <2>1, <3>1 DEF Posted
    <3>2. CASE e # c
      BY <1>3, <3>2
    <3>3. QED
      BY <3>1, <3>2
  <2>2. \A n \in Line : Left(n)' <=> Left(n)
    BY LeftAlone
  <2>3. QED
    BY <1>2, <1>7, <2>1, <2>2 DEF Calm, Settled
<1>9. Shown'
  BY <1>4 DEF Shown
<1>10. Pending(w)' /\ Queued'
  BY <1>1, <1>2, <1>3, SavedPending
<1>11. Apart(w)'
  BY <1>2, <1>3 DEF Apart
<1>12. CASE job[w].reuse = None
  <2>1. Anew(w) /\ job[w].older = {} /\ ~job[w].posted /\ c.id \notin LiveIds
    BY <1>2, <1>12 DEF Chosen, Anew
  <2>2. job[w].pc = "work"
    BY <1>1, <1>2 DEF Calm, Pending, Job
  <2>3. ns = c.lines
    BY <1>1, <2>1 DEF LiveIds
  <2>4. job'[w].open = job[w].open \ {c}
    BY <1>3, <2>1
  <2>5. Disjoint(w)'
    <3>1. \A i \in LiveIds : c.lines \cap table[i].lines = {}
      BY <2>1, <2>2 DEF Anew
    <3>2. ~Saved(w)
      BY <2>1 DEF Anew, Saved
    <3>3. \A i \in LiveIds : i \in Id \ {c.id} /\ table'[i] = table[i]
      BY <1>4, <2>1 DEF LiveIds
    <3>4. QED
      BY <1>2, <1>4, <2>3, <3>1, <3>2, <3>3 DEF Calm, Disjoint
  <2>6. Anew(w)'
    <3>1. \A x \in job[w].todo \cup (job[w].open \ {c}) : x.lines \cap c.lines = {}
      BY <1>2 DEF Apart
    <3>2. \A x \in job[w].todo \cup (job[w].open \ {c}), i \in LiveIds' :
            x.lines \cap table'[i].lines = {}
      BY <1>4, <2>1, <2>2, <2>3, <3>1 DEF Anew, LiveIds
    <3>3. \A e \in job[w].open \ {c} : e.id # c.id /\ e.id \notin LiveIds'
      BY <1>4, <2>1 DEF Anew
    <3>4. QED
      BY <1>3, <2>1, <2>4, <3>2, <3>3 DEF Anew
  <2>7. QED
    BY <1>3, <1>6, <1>8, <1>9, <1>10, <1>11, <1>12, <2>5, <2>6 DEF Calm, Chosen
<1>13. CASE job[w].reuse # None
  <2>1. /\ Again(w) /\ job[w].open = {c} /\ job[w].todo = {} /\ ~Posted
        /\ c.id = job[w].reuse /\ c.id \notin job[w].older /\ ~job[w].posted
        /\ LiveIds \subseteq job[w].older \cup {c.id}
        /\ \A i \in job[w].older : Status(i) \in {"HELD", "PENDING"}
    BY <1>2, <1>13 DEF Chosen, Again
  <2>2. job'[w].open = IF job[w].older = {} THEN {} ELSE {d}
    BY <1>3, <2>1
  <2>3. Disjoint(w)'
    BY <1>3, <1>4, <2>1, <2>2 DEF Disjoint, Saved
  <2>4. Again(w)'
    <3>1. \A i \in job[w].older : Status(i)' \in {"HELD", "PENDING"}
      BY <1>1, <1>4, <2>1
    <3>2. QED
      BY <1>3, <1>4, <2>1, <2>2, <3>1 DEF Again
  <2>5. QED
    BY <1>3, <1>6, <1>8, <1>9, <1>10, <1>11, <1>13, <2>3, <2>4 DEF Calm, Chosen
<1>14. QED
  BY <1>12, <1>13

(* Reprocess writes to a record it selected: held until then, its lines kept.*)
LEMMA ReprocessSaves ==
  ASSUME Steady, ~harm, NEW w \in Worker, w \notin Host, NEW c \in job[w].open,
         NEW status \in Live, Write(c.id, c.lines, status),
         NEW success \in BOOLEAN, success <=> status = "SUCCESS",
         Outcome(w, c, success), UNCHANGED <<landed, moves, staged>>,
         c.phase = "accepted" => status = "SUCCESS"
  PROVE  Calm(w)' /\ Final
<1>1. w \in Clerk /\ job[w].older = {} /\ c.id \in Id /\ c.lines \in SUBSET Line
      /\ job[w].posted \in BOOLEAN
  BY DEF Worker, Steady, TypeOK, Job, Open
<1>2. Calm(w) /\ Selected(w)
  BY <1>1, Stepping, NoJobTyped DEF Calm
<1>3. /\ Alone(w)' /\ job'[w].pc = job[w].pc /\ job'[w].todo = job[w].todo
      /\ job'[w].older = {} /\ job'[w].reuse = job[w].reuse
      /\ job'[w].posted = (job[w].posted \/ success)
      /\ job'[w].open = job[w].open \ {c}
  BY <1>1, <1>2, OutcomeSteps DEF Calm
<1>4. table[c.id] = [lines |-> c.lines, status |-> "HELD"]
  BY <1>2 DEF Selected
<1>5. Status(c.id) = "HELD" /\ c.id \in LiveIds
  BY <1>1, <1>4, RecordIsNotNone DEF Status, Live, LiveIds
<1>6. /\ Status(c.id)' = status /\ LiveIds' = LiveIds
      /\ \A k \in Id \ {c.id} : Status(k)' = Status(k) /\ table'[k] = table[k]
      /\ table'[c.id].lines = c.lines
  <2>1. TypeOK
    BY DEF Steady
  <2>2. /\ Status(c.id)' = status /\ table'[c.id].lines = c.lines
        /\ LiveIds' = LiveIds \cup {c.id}
        /\ \A k \in Id \ {c.id} : Status(k)' = Status(k) /\ table'[k] = table[k]
    BY <1>1, <2>1, Written
  <2>3. QED
    BY <1>5, <2>2
<1>7. Final
  BY <1>5, <1>6 DEF Final
<1>8. Posted => Posted'
  BY <1>7 DEF Posted, Final
<1>9. status = "SUCCESS" => Posted'
  BY <1>1, <1>6 DEF Posted
<1>10. \A k \in LiveIds : table'[k].lines = table[k].lines
  BY <1>4, <1>6 DEF LiveIds
<1>11. Disjoint(w)'
  <2>1. ~Saved(w)
    BY <1>2 DEF Selected, Saved
  <2>2. QED
    BY <1>2, <1>6, <1>10, <2>1 DEF Calm, Disjoint
<1>12. Settled(w)'
  BY <1>2, <1>3, <1>8, <1>9, LeftAlone DEF Calm, Settled
<1>13. Shown'
  BY <1>5, <1>6 DEF Shown
<1>14. Pending(w)' /\ Queued'
  <2>1. c.phase # "saved"
    BY <1>2 DEF Selected
  <2>2. QED
    BY <1>2, <1>3, <2>1, SavedPending
<1>15. Selected(w)'
  <2>1. \A x \in job'[w].todo \cup job'[w].open : x.id \in Id \ {c.id}
    BY <1>2, <1>3 DEF Selected
  <2>2. \A x \in job'[w].todo \cup job'[w].open :
          table'[x.id] = [lines |-> x.lines, status |-> "HELD"]
    BY <1>2, <1>3, <1>6, <2>1 DEF Selected
  <2>3. job'[w].posted => Posted'
    BY <1>2, <1>3, <1>8, <1>9 DEF Selected
  <2>4. QED
    BY <1>2, <1>3, <2>1, <2>2, <2>3 DEF Selected
<1>16. QED
  BY <1>3, <1>7, <1>11, <1>12, <1>13, <1>14, <1>15 DEF Calm

LEMMA SaveCalm ==
  ASSUME Steady, ~harm, NEW w \in Worker, NEW c \in job[w].open,
         SaveSuccess(w, c) \/ SaveFailure(w, c) \/ SaveUnsent(w, c)
  PROVE  Calm(w)' /\ Final
<1>1. "SUCCESS" \in Live /\ "HELD" \in Live /\ UNCHANGED <<landed, moves, staged>>
  BY DEF Live, SaveSuccess, SaveFailure, SaveUnsent, leftovers
<1>2. c \in Open /\ Calm(w)
  BY Stepping, NoJobTyped DEF Steady, TypeOK, Job
<1>3. c.lines \in SUBSET Line /\ c.id \in Id
  BY <1>2 DEF Open
<1>4. CASE SaveSuccess(w, c)
  <2>1. Write(c.id, c.lines, "SUCCESS") /\ Outcome(w, c, TRUE) /\ c.phase = "accepted"
    BY <1>4 DEF SaveSuccess
  <2>2. CASE w \in Host
    BY <1>1, <1>3, <2>1, <2>2, UploadSaves
  <2>3. CASE w \notin Host
    BY <1>1, <2>1, <2>3, ReprocessSaves
  <2>4. QED
    BY <2>2, <2>3
<1>5. CASE SaveFailure(w, c) \/ SaveUnsent(w, c)
  <2>1. PICK ns \in {c.lines, table[c.id].lines} :
          /\ Write(c.id, ns, "HELD")
          /\ Outcome(w, c, FALSE) /\ c.phase \in {"refused", "unsent"}
          /\ ns # c.lines => Status(c.id) \in Live
    BY <1>5 DEF SaveFailure, SaveUnsent
  <2>2. ns \in SUBSET Line
    BY <1>3, <2>1 DEF Steady, TypeOK, Status, Live
  <2>3. CASE w \in Host
    BY <1>1, <2>1, <2>2, <2>3, UploadSaves
  <2>4. CASE w \notin Host
    <3>1. ns = c.lines
      <4>1. table[c.id] = [lines |-> c.lines, status |-> "HELD"]
        BY <1>2, <2>4 DEF Calm, Selected
      <4>2. QED
        BY <4>1
    <3>2. QED
      BY <1>1, <2>1, <2>4, <3>1, ReprocessSaves
  <2>5. QED
    BY <2>3, <2>4
<1>6. QED
  BY <1>4, <1>5

(* Retiring: none of the records was SUCCESS, and the one just written stays *)
(* live.                                                                     *)
LEMMA RetireCalm ==
  ASSUME Steady, ~harm, NEW w \in Worker, NEW c \in job[w].open, Retire(w, c)
  PROVE  Calm(w)' /\ Final
<1>1. c.phase = "saved" /\ job[w] \in Job /\ UNCHANGED <<landed, moves, staged>>
  BY DEF Retire, Steady, TypeOK, leftovers
<1>2. Calm(w) /\ w \in Host
  BY <1>1, Stepping, NoJobTyped DEF Calm, Selected
<1>3. job[w].reuse # None /\ Again(w) /\ job[w].todo = {} /\ job[w].open = {c}
  BY <1>1, <1>2 DEF Calm, Chosen, Anew, Again
<1> DEFINE j == [job[w] EXCEPT !.open = @ \ {c}]
<1>4. job'[w] = j /\ Alone(w)'
  BY <1>2, Stepped DEF Retire, Steady, Calm
<1>5. /\ j.pc = job[w].pc /\ j.posted = job[w].posted /\ j.todo = {} /\ j.open = {}
      /\ j.older = job[w].older /\ j.reuse = job[w].reuse
  BY <1>1, <1>3 DEF Job
<1> HIDE DEF j
<1>6. /\ c.id \in LiveIds \ job[w].older
      /\ LiveIds \subseteq job[w].older \cup {c.id}
      /\ \A i \in job[w].older : i \in Id /\ Status(i) \in {"HELD", "PENDING"}
  BY <1>1, <1>3 DEF Again, Job
<1>7. job[w].older \in SUBSET LiveIds
  BY <1>6 DEF LiveIds, Live
<1>8. /\ \A i \in Id \ job[w].older : Status(i)' = Status(i) /\ table'[i] = table[i]
      /\ LiveIds' = LiveIds \ job[w].older
  BY <1>7, Retired DEF Retire, Steady
<1>9. Final
  BY <1>6, <1>8 DEF Final
<1>10. LiveIds' = {c.id}
  BY <1>6, <1>8
<1>11. Disjoint(w)' /\ Shown'
  BY <1>10 DEF Disjoint, Shown
<1>12. Settled(w)' /\ Queued'
  <2>1. Posted => Posted'
    BY <1>9 DEF Posted, Final
  <2>2. Settled(w)'
    BY <1>1, <1>2, <1>3, <2>1, LeftAlone DEF Calm, Settled
  <2>3. QED
    BY <1>1, <1>2, <2>2, LeftAlone DEF Calm
<1>13. Pending(w)'
  <2>1. job[w].pc \notin {"idle", "read"}
    BY <1>2 DEF Calm, Pending
  <2>2. QED
    BY <1>4, <1>5, <2>1 DEF Pending
<1>14. Apart(w)' /\ Chosen(w)'
  BY <1>3, <1>4, <1>5 DEF Apart, Chosen, Again
<1>15. QED
  BY <1>2, <1>4, <1>9, <1>11, <1>12, <1>13, <1>14 DEF Calm

(* A call ends, or dies with nothing accepted in hand and nothing to retire. *)
LEMMA EndCalm ==
  ASSUME Steady, ~harm', NEW w \in Worker, Finish(w) \/ Crash(w)
  PROVE  Calm(w)'
<1>1. ~harm /\ job[w] # NoJob /\ UNCHANGED <<landed, table, moves, staged>> /\ Go(w, NoJob)
      /\ \A c \in job[w].open : c.phase \notin {"accepted", "saved"}
  <2>1. harm \in BOOLEAN
    BY DEF Steady, TypeOK
  <2>2. CASE Finish(w)
    BY <2>2 DEF Finish, NoJob, leftovers
  <2>3. CASE Crash(w)
    BY <2>1, <2>3 DEF Crash, leftovers
  <2>4. QED
    BY <2>2, <2>3
<1>2. Calm(w)
  BY <1>1, Stepping
<1>3. job'[w] = NoJob /\ Alone(w)'
  BY <1>1, <1>2, Stepped DEF Steady, Calm
<1>4. Disjoint(w)' /\ Settled(w)' /\ Queued'
  <2>1. ~Saved(w)
    BY <1>1 DEF Saved
  <2>2. Disjoint(w)'
    BY <1>1, <1>2, <2>1, Untouched DEF Calm, Disjoint
  <2>3. Settled(w)'
    BY <1>1, <1>2, Untouched, LeftAlone DEF Calm, Settled
  <2>4. QED
    BY <1>1, <1>2, <2>2, <2>3, LeftAlone DEF Calm
<1>5. (Pending(w) /\ Apart(w) /\ Chosen(w) /\ Selected(w))'
  BY <1>3 DEF NoJob, Pending, Apart, Chosen, Anew, Selected
<1>6. QED
  BY <1>1, <1>2, <1>3, <1>4, <1>5, Untouched DEF Calm

-----------------------------------------------------------------------------
(* Initially: the earlier upload left one row per line, and what moved was   *)
(* moved for one of them.                                                    *)
LEMMA InitOrderly == Init => Orderly
<1> SUFFICES ASSUME Init PROVE Orderly
  OBVIOUS
<1>1. \A w \in Worker : job[w] = NoJob
  BY DEF Init
<1>2. \A i \in LiveIds : i \in LegacyId /\ table[i].lines = {LegacyOf[i]}
  BY DEF Init, LiveIds, Status, Live
<1>3. Shown
  <2>1. SUFFICES ASSUME NEW i \in Id, Status(i) = "SUPERSEDED"
                 PROVE  FALSE
    BY DEF Shown
  <2>2. table[i] \in [lines : {{n} : n \in Line}, status : Legacy] \cup {None} /\ table[i] # None
    BY <2>1 DEF Init, Status
  <2>3. table[i].status \in Legacy
    BY <2>2
  <2>4. QED
    BY <2>1, <2>2, <2>3, ConstantsOK DEF Status, Live
<1>4. \A n \in Line : moves[n] # 0 => moves[n] = 1 /\ Left(n)
  BY DEF Init, Left
<1>5. Queued
  BY ConstantsOK DEF Init, Queued
<1>6. ASSUME NEW w \in Worker, Alone(w)
      PROVE  Calm(w)
  <2>1. Disjoint(w)
    BY <1>2, ConstantsOK DEF Disjoint
  <2>2. Settled(w)
    BY <1>4 DEF Settled
  <2>3. QED
    BY <1>1, <1>3, <1>5, <1>6, <2>1, <2>2, IdleCalm DEF Calm
<1>7. \A n \in Line : moves[n] < 2
  BY <1>4, InitTyped DEF TypeOK
<1>8. QED
  BY <1>1, <1>3, <1>5, <1>6, <1>7 DEF Orderly

(* Harm is never undone.                                                     *)
LEMMA HarmStays ==
  ASSUME TypeOK, [Next]_vars, ~harm'
  PROVE  ~harm
<1>1. harm \in BOOLEAN
  BY DEF TypeOK
<1>2. CASE RowLands \/ DayAges \/ UNCHANGED vars
  BY <1>2 DEF RowLands, DayAges, vars
<1>3. CASE (\E h \in Host : UploadDay(h)) \/ (\E k \in Clerk : Reprocess(k))
  BY <1>3 DEF UploadDay, Reprocess, Begin
<1>4. ASSUME NEW w \in Worker, Upload(w)
      PROVE  ~harm
  <2>1. ASSUME NEW x, NEW phase, TakeRow(w, x, phase)
        PROVE  ~harm
    BY <1>1, <2>1 DEF TakeRow, Take
  <2>2. QED
    BY <1>4, <2>1 DEF Upload, ReadExisting, SkipPosted, Send, Unmapped, Accept, Refuse,
                ReplyLost, SaveSuccess, SaveFailure, SaveUnsent, SaveLost, Retire, RetireLost,
                Finish
<1>5. ASSUME NEW w \in Worker, Crash(w)
      PROVE  ~harm
  BY <1>1, <1>5 DEF Crash
<1>6. ASSUME NEW i \in LegacyId, Leftover(i)
      PROVE  ~harm
  BY <1>6 DEF Leftover, OracleProcesses, OracleRejects, Check, LetGo, Confirm, Condemn, Settle
<1>7. QED
  BY <1>2, <1>3, <1>4, <1>5, <1>6 DEF Next

-----------------------------------------------------------------------------
(* A step of a call at work.                                                 *)
LEMMA UploadOrderly ==
  ASSUME Steady, ~harm, NEW w \in Worker, Upload(w) \/ Crash(w)
  PROVE  Final /\ (harm' \/ Calm(w)')
<1>1. CASE ReadExisting(w) \/ Finish(w) \/ Crash(w)
  BY <1>1, ReadCalm, EndCalm, Untouched DEF ReadExisting, Finish, Crash
<1>2. ASSUME NEW x \in job[w].todo, SkipPosted(w, x) \/ Send(w, x) \/ Unmapped(w, x)
      PROVE  Final /\ (harm' \/ Calm(w)')
  <2>1. ASSUME NEW phase \in {"sent", "unsent"}, TakeRow(w, x, phase)
        PROVE  Final /\ (harm' \/ Calm(w)')
    BY <2>1, TakeCalm, Untouched DEF TakeRow, Take
  <2>2. QED
    BY <1>2, <2>1, SkipCalm DEF Send, Unmapped
<1>3. ASSUME NEW c \in job[w].open,
             Accept(w, c) \/ Refuse(w, c)
      PROVE  Final /\ Calm(w)'
  BY <1>3, AdvanceCalm, Untouched DEF Accept, Refuse
<1>4. ASSUME NEW c \in job[w].open,
             ReplyLost(w, c) \/ SaveLost(w, c) \/ RetireLost(w, c)
      PROVE  Final /\ harm'
  BY <1>4, Untouched DEF ReplyLost, SaveLost, RetireLost
<1>5. QED
  BY <1>1, <1>2, <1>3, <1>4, SaveCalm, RetireCalm DEF Upload

(* Oracle processes a row queued for a leftover: its line had not moved, and *)
(* nobody is sending it.                                                     *)
LEMMA ProcessedCalm ==
  ASSUME Steady, NEW i \in LegacyId, OracleProcesses(i), NEW w \in Worker, Calm(w)
  PROVE  Calm(w)'
<1> DEFINE m == LegacyOf[i]
<1>1. /\ UNCHANGED <<landed, table, job>> /\ m \in Line /\ moves[m] = 0
      /\ staged[i] = "queued" /\ staged \in [LegacyId -> {"refused", "queued", "processed"}]
  BY ConstantsOK DEF OracleProcesses, Calm, Queued, Steady, TypeOK
<1>2. \A n \in Line : moves'[n] = IF n = m THEN 1 ELSE moves[n]
  BY <1>1 DEF OracleProcesses, Move
<1>3. \A k \in LegacyId : staged'[k] = IF k = i THEN "processed" ELSE staged[k]
  BY <1>1 DEF OracleProcesses
<1>4. \A n \in Line : Left(n)' <=> (n = m \/ Left(n))
  BY <1>3 DEF Left
<1>5. ASSUME NEW ns
      PROVE  Unsettled(ns)' <=> Unsettled(ns)
  BY <1>1, <1>3 DEF Unsettled
<1> HIDE DEF m
<1>6. Queued'
  <2>1. ASSUME NEW k \in LegacyId, staged'[k] = "queued"
        PROVE  moves'[LegacyOf[k]] = 0
    <3>1. k # i /\ staged[k] = "queued"
      BY <1>3, <2>1
    <3>2. LegacyOf[k] \in Line /\ LegacyOf[k] # m
      BY <3>1, ConstantsOK DEF m
    <3>3. QED
      BY <1>2, <3>1, <3>2 DEF Calm, Queued
  <2>2. QED
    BY <2>1 DEF Queued
<1>7. Disjoint(w)' /\ Alone(w)'
  BY <1>1, Untouched DEF Calm, Disjoint, Saved, Alone
<1>8. Settled(w)'
  BY <1>1, <1>2, <1>4, Untouched DEF Calm, Settled
<1>9. Pending(w)'
  <2>1. ASSUME NEW x \in job[w].todo, NEW n \in x.lines, job[w].pc = "work", ~job[w].posted,
               moves'[n] # 0
        PROVE  Left(n)'
    <3>1. n \in Line
      BY <2>1, LinesTyped DEF Steady
    <3>2. QED
      BY <1>2, <1>4, <2>1, <3>1 DEF Calm, Pending
  <2>2. ASSUME NEW c \in job[w].open, c.phase = "sent"
        PROVE  ~Unsettled(c.lines)' /\ \A n \in c.lines : moves'[n] = 0
    <3>1. ~Unsettled(c.lines) /\ c.lines \in SUBSET Line
      BY <2>2, LinesTyped DEF Calm, Pending, Steady
    <3>2. m \notin c.lines
      BY <1>1, <3>1 DEF Unsettled, m
    <3>3. QED
      BY <1>2, <1>5, <2>2, <3>1, <3>2 DEF Calm, Pending
  <2>3. QED
    BY <1>1, <2>1, <2>2 DEF Calm, Pending
<1>10. IF w \in Host THEN (Apart(w) /\ Chosen(w))' ELSE Selected(w)'
  <2>1. LiveIds' = LiveIds /\ (Posted' <=> Posted) /\ \A k \in Id : Status(k)' = Status(k)
    BY <1>1, Untouched
  <2>2. job[w].older \subseteq Id
    BY DEF Steady, TypeOK, Job
  <2>3. QED
    BY <1>1, <2>1, <2>2 DEF Calm, Apart, Chosen, Anew, Again, Selected
<1>11. QED
  BY <1>1, <1>6, <1>7, <1>8, <1>9, <1>10, Untouched DEF Calm

(* A step beside the callers that moves no stock and writes no record: less  *)
(* may be queued, and orders land.                                           *)
LEMMA BesideCalm ==
  ASSUME Steady, UNCHANGED <<table, moves, job>>, landed \subseteq landed',
         \A i \in LegacyId : /\ staged'[i] = "processed" <=> staged[i] = "processed"
                             /\ staged'[i] = "queued" => staged[i] = "queued",
         NEW w \in Worker, Calm(w)
  PROVE  Calm(w)'
<1>1. \A n \in Line : Left(n)' <=> Left(n)
  BY DEF Left
<1>2. ASSUME NEW ns
      PROVE  Unsettled(ns)' => Unsettled(ns)
  BY DEF Unsettled
<1>3. Queued'
  BY DEF Calm, Queued
<1>4. Disjoint(w)' /\ Alone(w)'
  BY Untouched DEF Calm, Disjoint, Saved, Alone
<1>5. Settled(w)'
  BY <1>1, Untouched DEF Calm, Settled
<1>6. Pending(w)'
  <2>1. ASSUME NEW x \in job[w].todo, NEW n \in x.lines, job[w].pc = "work", ~job[w].posted,
               moves'[n] # 0
        PROVE  Left(n)'
    <3>1. n \in Line
      BY <2>1, LinesTyped DEF Steady
    <3>2. QED
      BY <1>1, <2>1, <3>1 DEF Calm, Pending
  <2>2. QED
    BY <1>2, <2>1 DEF Calm, Pending
<1>7. IF w \in Host THEN (Apart(w) /\ Chosen(w))' ELSE Selected(w)'
  <2>1. LiveIds' = LiveIds /\ (Posted' <=> Posted) /\ \A k \in Id : Status(k)' = Status(k)
    BY Untouched
  <2>2. job[w].older \subseteq Id
    BY DEF Steady, TypeOK, Job
  <2>3. Apart(w) => Apart(w)'
    BY DEF Apart
  <2>4. QED
    BY <2>1, <2>2, <2>3 DEF Calm, Chosen, Anew, Again, Selected
<1>8. QED
  BY <1>3, <1>4, <1>5, <1>6, <1>7, Untouched DEF Calm

(* A verdict in time: on a PENDING row, nobody being at work.                *)
LEMMA SettledCalm ==
  ASSUME Steady, NEW i \in LegacyId, NEW status \in {"SUCCESS", "HELD"}, Settle(i, status), ~harm',
         NEW w \in Worker, Calm(w)
  PROVE  Calm(w)' /\ Final
<1>1. /\ Quiet /\ Status(i) = "PENDING" /\ table' = Marked({i}, status) /\ i \in Id
      /\ UNCHANGED <<landed, moves, job, staged>>
  BY ConstantsOK DEF Settle
<1>2. table[i] # None /\ table[i] \in [lines : SUBSET Line, status : Live \cup {"SUPERSEDED"}]
  BY <1>1 DEF Status, Steady, TypeOK
<1>3. table'[i] = [lines |-> table[i].lines, status |-> status]
  BY <1>1, <1>2 DEF Marked
<1>4. \A k \in Id \ {i} : table'[k] = table[k] /\ Status(k)' = Status(k)
  BY <1>1 DEF Marked, Status
<1>5. Status(i)' = status /\ table'[i].lines = table[i].lines
  <2>1. table'[i] # None
    BY <1>2, <1>3, RecordIsNotNone DEF Live
  <2>2. QED
    BY <1>3, <2>1 DEF Status
<1>6. LiveIds' = LiveIds
  BY <1>1, <1>4, <1>5 DEF LiveIds, Live
<1>7. Final
  BY <1>1, <1>4 DEF Final
<1>8. Posted => Posted'
  BY <1>7 DEF Posted, Final
<1>9. job[w] = NoJob /\ job'[w] = NoJob /\ Alone(w)'
  BY <1>1 DEF Quiet, Alone
<1>10. Disjoint(w)'
  <2>1. ~Saved(w)
    BY <1>9 DEF Saved, NoJob
  <2>2. \A k \in LiveIds : k \in Id /\ table'[k].lines = table[k].lines
    BY <1>4, <1>5 DEF LiveIds
  <2>3. QED
    BY <1>6, <2>1, <2>2 DEF Calm, Disjoint
<1>11. Settled(w)' /\ Queued' /\ Shown'
  <2>1. Settled(w)'
    BY <1>1, <1>8, LeftAlone DEF Calm, Settled
  <2>2. Shown'
    BY <1>4, <1>5, <1>6 DEF Calm, Shown
  <2>3. QED
    BY <1>1, <2>1, <2>2, LeftAlone DEF Calm
<1>12. (Pending(w) /\ Apart(w) /\ Chosen(w) /\ Selected(w))'
  BY <1>9 DEF NoJob, Pending, Apart, Chosen, Anew, Selected
<1>13. QED
  BY <1>7, <1>9, <1>10, <1>11, <1>12 DEF Calm

(* Whoever is alone stays calm when nobody's call changes.                   *)
LEMMA CallsUnchanged ==
  ASSUME Steady, ~harm, TypeOK', UNCHANGED job,
         \A w \in Worker : Calm(w) => Calm(w)',
         Shown', Queued', \A n \in Line : moves'[n] < 2
  PROVE  Orderly'
<1>1. ASSUME NEW w \in Worker, Alone(w)'
      PROVE  Calm(w)'
  <2>1. Alone(w)
    BY <1>1 DEF Alone
  <2>2. QED
    BY <2>1, Stepping
<1>2. QED
  BY <1>1 DEF Steady, Orderly

(* A leftover's row or its verdict.                                          *)
LEMMA LeftoverOrderly ==
  ASSUME Steady, ~harm, TypeOK', NEW i \in LegacyId, Leftover(i), ~harm'
  PROVE  Orderly' /\ Final
<1>1. Shown /\ Queued /\ \A n \in Line : moves[n] < 2
  BY DEF Steady, Orderly
<1>2. UNCHANGED job
  BY DEF Leftover, OracleProcesses, OracleRejects, Check, Confirm, Condemn, Settle, LetGo
<1>3. CASE OracleProcesses(i)
  <2>1. UNCHANGED table /\ moves[LegacyOf[i]] = 0 /\ LegacyOf[i] \in Line
    BY <1>1, <1>3, ConstantsOK DEF OracleProcesses, Queued
  <2>2. \A n \in Line : moves'[n] = IF n = LegacyOf[i] THEN 1 ELSE moves[n]
    BY <1>3, <2>1 DEF OracleProcesses, Move
  <2>3. Queued'
    <3>1. ASSUME NEW k \in LegacyId, staged'[k] = "queued"
          PROVE  moves'[LegacyOf[k]] = 0
      <4>1. k # i /\ staged[k] = "queued"
        BY <1>3, <3>1 DEF OracleProcesses, Steady, TypeOK
      <4>2. LegacyOf[k] \in Line /\ LegacyOf[k] # LegacyOf[i]
        BY <4>1, ConstantsOK
      <4>3. QED
        BY <1>1, <2>2, <4>1, <4>2 DEF Queued
    <3>2. QED
      BY <3>1 DEF Queued
  <2>4. \A n \in Line : moves'[n] < 2
    BY <1>1, <2>2
  <2>5. QED
    BY <1>1, <1>2, <1>3, <2>1, <2>3, <2>4, CallsUnchanged, ProcessedCalm, Untouched
<1>4. CASE OracleRejects(i) \/ Check(i) \/ LetGo(i)
  <2>1. UNCHANGED <<table, moves, landed>>
    BY <1>4 DEF OracleRejects, Check, LetGo
  <2>2. \A k \in LegacyId : /\ staged'[k] = "processed" <=> staged[k] = "processed"
                            /\ staged'[k] = "queued" => staged[k] = "queued"
    BY <1>4 DEF OracleRejects, Check, LetGo, Steady, TypeOK
  <2>3. Queued'
    BY <1>1, <2>1, <2>2 DEF Queued
  <2>4. QED
    BY <1>1, <1>2, <2>1, <2>2, <2>3, CallsUnchanged, BesideCalm, Untouched
<1>5. ASSUME NEW status \in {"SUCCESS", "HELD"}, Settle(i, status)
      PROVE  Orderly' /\ Final
  <2>1. Quiet /\ UNCHANGED <<moves, staged>>
    BY <1>5 DEF Settle
  <2>2. \A w \in Worker : Alone(w) /\ Calm(w)
    BY <2>1, Stepping DEF Quiet, Alone
  <2>3. \A w \in Worker : Calm(w)' /\ Final
    BY <1>5, <2>2, SettledCalm
  <2>4. CASE Worker = {}
    <3>1. Status(i) = "PENDING" /\ table' = Marked({i}, status) /\ i \in Id
      BY <1>5, ConstantsOK DEF Settle
    <3>2. \A k \in Id \ {i} : table'[k] = table[k] /\ Status(k)' = Status(k)
      BY <3>1 DEF Marked, Status
    <3>3. Final
      BY <3>1, <3>2 DEF Final
    <3>4. Status(i)' \in Live
      <4>1. table[i] # None
            /\ table[i] \in [lines : SUBSET Line, status : Live \cup {"SUPERSEDED"}]
        BY <3>1 DEF Status, Steady, TypeOK
      <4>2. table'[i] = [lines |-> table[i].lines, status |-> status]
        BY <3>1, <4>1 DEF Marked
      <4>3. QED
        BY <4>1, <4>2, RecordIsNotNone DEF Status, Live
    <3>5. Shown'
      BY <3>1, <3>4 DEF Shown, LiveIds
    <3>6. QED
      BY <1>1, <1>2, <2>1, <2>4, <3>3, <3>5, LeftAlone DEF Orderly
  <2>5. CASE Worker # {}
    <3>1. PICK w \in Worker : TRUE
      BY <2>5
    <3>2. Calm(w)' /\ Final
      BY <2>3, <3>1
    <3>3. QED
      BY <3>1, <3>2, StillOrderly
  <2>6. QED
    BY <2>4, <2>5
<1>6. QED
  BY <1>3, <1>4, <1>5 DEF Leftover, Confirm, Condemn

(* Every step: SUCCESS rows stay, and whoever steps stays calm.              *)
LEMMA OrderlyStep ==
  ASSUME Steady, [Next]_vars
  PROVE  Orderly' /\ (harm' \/ Final)
<1>1. TypeOK'
  BY StepTyped DEF Steady
<1>2. CASE harm'
  BY <1>2 DEF Orderly
<1>3. CASE ~harm'
  <2>0. ~harm
    BY <1>3, HarmStays DEF Steady
  <2>1. CASE RowLands \/ DayAges \/ UNCHANGED vars
    <3>1. UNCHANGED <<table, moves, job, staged>> /\ landed \subseteq landed'
      BY <2>1 DEF RowLands, DayAges, vars, leftovers
    <3>2. \A w \in Worker : Calm(w) => Calm(w)'
      BY <3>1, BesideCalm
    <3>3. Shown /\ Queued /\ \A n \in Line : moves[n] < 2
      BY <2>0 DEF Steady, Orderly
    <3>4. Shown' /\ Queued' /\ Final
      BY <3>1, <3>3, Untouched, LeftAlone
    <3>5. QED
      BY <1>1, <2>0, <3>1, <3>2, <3>3, <3>4, CallsUnchanged
  <2>2. ASSUME NEW w \in Worker,
               \/ w \in Host /\ UploadDay(w)
               \/ w \in Clerk /\ Reprocess(w)
        PROVE  Orderly' /\ Final
    <3>1. Final
      BY <2>2, Untouched DEF UploadDay, Reprocess, Begin
    <3>2. QED
      BY <1>1, <1>3, <2>2, <3>1, BeginCalm, StillOrderly
  <2>3. ASSUME NEW w \in Worker, Upload(w) \/ Crash(w)
        PROVE  Orderly' /\ Final
    BY <1>1, <1>3, <2>0, <2>3, UploadOrderly, StillOrderly
  <2>4. ASSUME NEW i \in LegacyId, Leftover(i)
        PROVE  Orderly' /\ Final
    BY <1>1, <1>3, <2>0, <2>4, LeftoverOrderly
  <2>5. QED
    BY <2>1, <2>2, <2>3, <2>4 DEF Next, Worker, RowLands, DayAges, vars
<1>4. QED
  BY <1>2, <1>3

LEMMA OrderlyAlways == Spec => []Steady
<1>1. Init => Steady
  BY InitTyped, InitOrderly DEF Steady
<1>2. Steady /\ [Next]_vars => Steady'
  BY StepTyped, OrderlyStep DEF Steady
<1>3. QED
  BY <1>1, <1>2, PTL DEF Spec

(* However often a day is re-run, its held rows reprocessed, its leftovers   *)
(* of the earlier upload met, processed late and judged, or a run dies       *)
(* between two rows, no stock moves twice, unless callers overlapped, an     *)
(* outcome was lost, a line was sent that Oracle had for a leftover, or two  *)
(* units shared a record.                                                    *)
THEOREM StockMovesOnce == Spec => []MovedOnce
<1>1. Steady => MovedOnce
  BY DEF Steady, Orderly, MovedOnce, TypeOK
<1>2. QED
  BY <1>1, OrderlyAlways, PTL

(* Nor does retiring duplicates then leave an order-item without a row that  *)
(* the admin panel and the next run can see.                                 *)
THEOREM StockIsShown == Spec => []NeverHidden
<1>1. Steady => NeverHidden
  BY DEF Steady, Orderly, NeverHidden, Shown
<1>2. QED
  BY <1>1, OrderlyAlways, PTL

(* Nor does a step of any caller then turn a SUCCESS row into anything else. *)
THEOREM SuccessStays == Spec => SuccessIsFinal
<1>1. Steady /\ [Next]_vars =>
        [harm' \/ \A i \in Id : Status(i) = "SUCCESS" => (Status(i) = "SUCCESS")']_vars
  BY OrderlyStep DEF Final
<1>2. QED
  BY <1>1, OrderlyAlways, PTL DEF Spec, SuccessIsFinal

-----------------------------------------------------------------------------
(* The ledger of the branch.  Unless a verdict was misjudged, lines shown as *)
(* posted moved.                                                             *)
LEMMA PostedLinesMoved ==
  ASSUME TypeOK, RecordedMeansMoved
  PROVE  /\ PostedLines \in SUBSET Line
         /\ misjudged \/ PostedLines \subseteq Ledger!MovedLines
<1>1. ASSUME NEW n \in PostedLines
      PROVE  n \in Line /\ (misjudged \/ moves[n] > 0)
  <2>1. PICK i \in Id : Status(i) = "SUCCESS" /\ n \in table[i].lines
    BY <1>1 DEF PostedLines
  <2>2. table[i].lines \in SUBSET Line
    BY <2>1 DEF TypeOK, Status
  <2>3. QED
    BY <2>1, <2>2 DEF RecordedMeansMoved
<1>2. QED
  BY <1>1 DEF Ledger!MovedLines

(* Records left alone show what they showed.                                 *)
LEMMA SamePostedLines == ASSUME UNCHANGED table PROVE UNCHANGED PostedLines
BY DEF PostedLines, Status

(* A POST that Oracle accepts moves stock that had not moved.                *)
LEMMA AcceptLedger ==
  ASSUME Steady, NEW w \in Worker, NEW c \in job[w].open, Accept(w, c)
  PROVE  Ledger!Next
<1>1. c.lines \in SUBSET Line /\ c.phase = "sent"
  BY DEF Accept, Steady, TypeOK, Job, Open
<1>2. harm \/ \A n \in c.lines : moves[n] = 0
  <2>1. CASE ~harm
    <3>1. Pending(w)
      BY <2>1, Stepping, NoJobTyped DEF Calm
    <3>2. QED
      BY <1>1, <3>1 DEF Pending
  <2>2. QED
    BY <2>1
<1>3. Ledger!MoveStock(c.lines)
  BY <1>2, SamePostedLines DEF Accept, Move, Ledger!MoveStock, leftovers
<1>4. QED
  BY <1>1, <1>3 DEF Ledger!Next

(* So does a row Oracle had queued for a leftover.                           *)
LEMMA ProcessedLedger ==
  ASSUME Steady, NEW i \in LegacyId, OracleProcesses(i)
  PROVE  Ledger!Next
<1>1. LegacyOf[i] \in Line /\ (harm \/ moves[LegacyOf[i]] = 0)
  BY ConstantsOK DEF OracleProcesses, Steady, Orderly, Queued
<1>2. Ledger!MoveStock({LegacyOf[i]})
  BY <1>1, SamePostedLines DEF OracleProcesses, Move, Ledger!MoveStock
<1>3. QED
  BY <1>1, <1>2 DEF Ledger!Next

(* A step that writes or retires records, moving nothing.                    *)
LEMMA WriteLedger ==
  ASSUME TypeOK', RecordedMeansMoved', UNCHANGED moves,
         harm' \in {harm, TRUE}, misjudged' \in {misjudged, harm'}, misjudged => misjudged',
         harm' \/ Final
  PROVE  Ledger!Next
<1>1. PostedLines' \in SUBSET Line /\ (misjudged' \/ PostedLines' \subseteq Ledger!MovedLines)
  <2>1. ASSUME NEW n \in PostedLines'
        PROVE  n \in Line /\ (misjudged' \/ moves[n] > 0)
    <3>1. PICK i \in Id : Status(i)' = "SUCCESS" /\ n \in table'[i].lines
      BY <2>1 DEF PostedLines
    <3>2. table'[i].lines \in SUBSET Line
      BY <3>1 DEF TypeOK, Status
    <3>3. QED
      BY <3>1, <3>2 DEF RecordedMeansMoved
  <2>2. QED
    BY <2>1 DEF Ledger!MovedLines
<1>2. harm' \/ PostedLines \subseteq PostedLines'
  <2>1. ASSUME Final PROVE PostedLines \subseteq PostedLines'
    BY <2>1 DEF Final, PostedLines
  <2>2. QED
    BY <2>1
<1>3. Ledger!Record(PostedLines')
  BY <1>1, <1>2 DEF Ledger!Record
<1>4. QED
  BY <1>1, <1>3 DEF Ledger!Next

(* A step that touches neither records nor stock, harmful or not.            *)
LEMMA StutterLedger ==
  ASSUME UNCHANGED <<table, moves, misjudged>>, harm' = harm \/ harm' = TRUE
  PROVE  [Ledger!Next]_(Ledger!vars)
BY SamePostedLines DEF Ledger!Next, Ledger!Harm, Ledger!vars

(* Every step of InventoryUpload is a step of StockLedger or leaves the      *)
(* ledger alone.                                                             *)
LEMMA LedgerStep ==
  ASSUME Steady, RecordedMeansMoved', [Next]_vars
  PROVE  [Ledger!Next]_(Ledger!vars)
<1>1. TypeOK' /\ (harm' \/ Final) /\ harm \in BOOLEAN /\ misjudged \in BOOLEAN
  BY StepTyped, OrderlyStep DEF Steady, TypeOK
<1>2. CASE RowLands \/ DayAges \/ UNCHANGED vars
  BY <1>2, StutterLedger DEF RowLands, DayAges, vars, leftovers
<1>3. ASSUME NEW w, NEW rows, Begin(w, rows)
      PROVE  [Ledger!Next]_(Ledger!vars)
  BY <1>3, StutterLedger DEF Begin, leftovers
<1>4. ASSUME NEW w \in Worker, Upload(w)
      PROVE  [Ledger!Next]_(Ledger!vars)
  <2>1. CASE ReadExisting(w) \/ Finish(w)
    BY <2>1, StutterLedger DEF ReadExisting, Finish, leftovers
  <2>2. ASSUME NEW x \in job[w].todo, SkipPosted(w, x)
        PROVE  Ledger!Next
    BY <1>1, <2>2, WriteLedger DEF SkipPosted, leftovers
  <2>3. ASSUME NEW x \in job[w].todo, Send(w, x) \/ Unmapped(w, x)
        PROVE  [Ledger!Next]_(Ledger!vars)
    <3>1. PICK phase \in {"sent", "unsent"} : Take(w, x, phase)
      BY <2>3 DEF Send, Unmapped, TakeRow
    <3>2. harm' = harm \/ harm' = TRUE
      BY <1>1, <3>1 DEF Take
    <3>3. QED
      BY <3>1, <3>2, StutterLedger DEF Take, leftovers
  <2>4. ASSUME NEW c \in job[w].open, Accept(w, c)
        PROVE  Ledger!Next
    BY <2>4, AcceptLedger
  <2>5. ASSUME NEW c \in job[w].open,
               Refuse(w, c) \/ ReplyLost(w, c) \/ SaveLost(w, c) \/ RetireLost(w, c)
        PROVE  [Ledger!Next]_(Ledger!vars)
    BY <2>5, StutterLedger DEF Refuse, ReplyLost, SaveLost, RetireLost, leftovers
  <2>6. ASSUME NEW c \in job[w].open,
               SaveSuccess(w, c) \/ SaveFailure(w, c) \/ SaveUnsent(w, c) \/ Retire(w, c)
        PROVE  Ledger!Next
    BY <1>1, <2>6, WriteLedger DEF SaveSuccess, SaveFailure, SaveUnsent, Retire, leftovers
  <2>7. QED
    BY <1>4, <2>1, <2>2, <2>3, <2>4, <2>5, <2>6 DEF Upload
<1>5. ASSUME NEW w \in Worker, Crash(w)
      PROVE  [Ledger!Next]_(Ledger!vars)
  <2>1. harm' = harm \/ harm' = TRUE
    BY <1>1, <1>5 DEF Crash
  <2>2. QED
    BY <1>5, <2>1, StutterLedger DEF Crash, leftovers
<1>6. ASSUME NEW i \in LegacyId, Leftover(i)
      PROVE  [Ledger!Next]_(Ledger!vars)
  <2>1. CASE OracleProcesses(i)
    BY <2>1, ProcessedLedger
  <2>2. CASE OracleRejects(i) \/ Check(i) \/ LetGo(i)
    BY <2>2, StutterLedger DEF OracleRejects, Check, LetGo
  <2>3. CASE Confirm(i) \/ Condemn(i)
    <3>1. UNCHANGED moves /\ harm' \in {harm, TRUE}
      BY <2>3 DEF Confirm, Condemn, Settle
    <3>2. misjudged' \in {misjudged, harm'} /\ (misjudged => misjudged')
      BY <1>1, <2>3 DEF Confirm, Condemn, Settle
    <3>3. QED
      BY <1>1, <3>1, <3>2, WriteLedger
  <2>4. QED
    BY <1>6, <2>1, <2>2, <2>3 DEF Leftover
<1>7. QED
  BY <1>2, <1>3, <1>4, <1>5, <1>6 DEF Next, UploadDay, Reprocess

(* What the earlier upload left: lines that moved once at most, and SUCCESS  *)
(* rows for lines that moved, or misjudged.                                  *)
LEMMA LedgerStarts == ASSUME Init PROVE Ledger!Init
<1>1. TypeOK /\ RecordedMeansMoved
  BY InitTyped, RecordedInit DEF IInv
<1>2. moves \in [Line -> 0 .. 1] /\ harm = FALSE
  BY DEF Init
<1>3. QED
  BY <1>1, <1>2, PostedLinesMoved DEF TypeOK, Ledger!Init

(* The upload keeps the ledger: its re-runs, reprocess calls, clean-ups,     *)
(* crashes and verdicts move no stock twice and unrecord nothing, until harm *)
(* is done; and then still nothing is recorded that did not move, unless a   *)
(* verdict was passed on the wrong row.                                      *)
THEOREM ImplementsLedger == Spec => LedgerSpec
<1>1. Init => Ledger!Init
  BY LedgerStarts
<1>2. Steady /\ RecordedMeansMoved' /\ [Next]_vars => [Ledger!Next]_(Ledger!vars)
  BY LedgerStep
<1>3. QED
  BY <1>1, <1>2, OrderlyAlways, RecordedIsMoved, PTL DEF Spec, LedgerSpec, Ledger!Spec
================================================================================
