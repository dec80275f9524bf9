-------------------------- MODULE RunTrackerProofs ---------------------------
(***************************************************************************)
(* Proofs about run tracking and resume, for every set of ranges, every     *)
(* queue capacity, batch size and number of runs.                           *)
(***************************************************************************)
EXTENDS RunTracker, SequenceTheorems, WellFoundedInduction, TLAPS

-----------------------------------------------------------------------------
(* Writes, and sequences of them.                                           *)

RowStatus == RangeStatus \cup {Absent}

\* What a tracking write is made of.
LEMMA WriteFields ==
    /\ \A r \in Ranges, s \in RangeStatus :
         /\ RangeWrite(r, s) \in Writes
         /\ RangeWrite(r, s).kind = "range"
         /\ RangeWrite(r, s).range = r /\ RangeWrite(r, s).status = s
    /\ \A s \in RunStatus, f \in BOOLEAN :
         /\ RunWrite(s, f) \in Writes
         /\ RunWrite(s, f).kind = "run"
         /\ RunWrite(s, f).status = s /\ RunWrite(s, f).failed = f
    /\ \A w \in Writes :
         \/ w.kind = "range" /\ w.range \in Ranges /\ w.status \in RangeStatus
         \/ w.kind = "run" /\ w.status \in RunStatus /\ w.failed \in BOOLEAN
BY DEF RangeWrite, RunWrite, Writes

\* An element appended to a sequence of writes is its last, the others stay where they are.
LEMMA Appended ==
    ASSUME NEW W, NEW s \in Seq(W), NEW w \in W
    PROVE  LET t == Append(s, w) IN
           /\ t \in Seq(W) /\ Len(t) = Len(s) + 1 /\ t[Len(t)] = w
           /\ \A i \in 1..Len(s) : t[i] = s[i]
BY AppendProperties

\* Taking the first element off a sequence shifts the others by one.
LEMMA Shifted ==
    ASSUME NEW W, NEW s \in Seq(W), s # <<>>
    PROVE  /\ Len(s) \in Nat \ {0} /\ s[1] \in W /\ Head(s) = s[1]
           /\ Tail(s) \in Seq(W) /\ Len(Tail(s)) = Len(s) - 1
           /\ \A i \in 1..(Len(s) - 1) : Tail(s)[i] = s[i + 1]
<1>1. Len(s) \in Nat \ {0}
  BY EmptySeq
<1> QED
  BY <1>1, HeadTailProperties, ElementOfSeq

\* What the writer still has to apply, oldest first.
Flow == batch \o queue

\* Receiving moves writes from the queue to the batch and changes neither their order nor number.
LEMMA ReceiveKeepsFlow ==
    ASSUME TypeOK, batch = <<>>, Receive
    PROVE  /\ batch' \in Seq(Writes) /\ Len(batch') <= BatchSize
           /\ queue' \in Seq(Writes) /\ Len(queue') <= QueueCapacity
           /\ Flow' = Flow
<1> DEFINE k == NextBatch
<1>1. queue \in Seq(Writes) /\ Len(queue) \in Nat /\ Len(queue) <= QueueCapacity
  BY DEF TypeOK
<1>2. k \in 0..Len(queue) /\ k <= BatchSize
  BY <1>1, TrackerSizes DEF NextBatch
<1>3. batch' = SubSeq(queue, 1, k) /\ queue' = SubSeq(queue, k + 1, Len(queue))
  BY DEF Receive
<1> HIDE DEF k
<1>4. \A i \in 1..Len(queue) : queue[i] \in Writes
  BY <1>1, ElementOfSeq
<1>5. batch' \in Seq(Writes) /\ Len(batch') = k /\ \A i \in 1..k : batch'[i] = queue[i]
  BY <1>2, <1>3, <1>4, <1>1, SubSeqProperties
<1>6. queue' \in Seq(Writes) /\ Len(queue') = Len(queue) - k
      /\ \A i \in 1..(Len(queue) - k) : queue'[i] = queue[k + i]
  <2>1. \A i \in (k + 1)..Len(queue) : queue[i] \in Writes
    BY <1>1, <1>2, <1>4
  <2>2. /\ SubSeq(queue, k + 1, Len(queue)) \in Seq(Writes)
        /\ Len(SubSeq(queue, k + 1, Len(queue)))
             = (IF k + 1 <= Len(queue) THEN Len(queue) - (k + 1) + 1 ELSE 0)
        /\ \A i \in 1..(Len(queue) - (k + 1) + 1) :
              SubSeq(queue, k + 1, Len(queue))[i] = queue[k + 1 + i - 1]
    BY <1>1, <1>2, <2>1, SubSeqProperties
  <2> QED
    BY <2>2, <1>1, <1>2, <1>3
<1>7. Flow = queue
  BY <1>1, ConcatEmptySeq DEF Flow
<1>8. Flow' \in Seq(Writes) /\ Len(Flow') = Len(queue)
      /\ \A i \in 1..Len(queue) : Flow'[i] = queue[i]
  <2>1. /\ batch' \o queue' \in Seq(Writes)
        /\ Len(batch' \o queue') = Len(batch') + Len(queue')
        /\ \A i \in 1..(Len(batch') + Len(queue')) : (batch' \o queue')[i] =
              IF i <= Len(batch') THEN batch'[i] ELSE queue'[i - Len(batch')]
    BY <1>5, <1>6, ConcatProperties
  <2> QED
    BY <2>1, <1>1, <1>2, <1>5, <1>6 DEF Flow
<1>9. Flow' = queue
  BY <1>1, <1>8, SeqEqual
<1> QED
  BY <1>1, <1>2, <1>5, <1>6, <1>7, <1>9, TrackerSizes

\* Appending to the second of two sequences appends to their concatenation.
LEMMA ConcatAppend ==
    ASSUME NEW W, NEW s \in Seq(W), NEW t \in Seq(W), NEW w \in W
    PROVE  s \o t \in Seq(W) /\ s \o Append(t, w) = Append(s \o t, w)
<1>1. s \o t \in Seq(W) /\ <<w>> \in Seq(W)
  BY ConcatProperties
<1>2. Append(t, w) = t \o <<w>> /\ Append(s \o t, w) = (s \o t) \o <<w>>
  BY <1>1, AppendIsConcat
<1>3. (s \o t) \o <<w>> = s \o (t \o <<w>>)
  BY <1>1, ConcatAssociative
<1> QED
  BY <1>1, <1>2, <1>3

\* The first of two sequences loses its head, and so does their concatenation.
LEMMA ConcatTail ==
    ASSUME NEW W, NEW s \in Seq(W), NEW t \in Seq(W), s # <<>>
    PROVE  /\ s \o t \in Seq(W) /\ s \o t # <<>> /\ (s \o t)[1] = s[1]
           /\ Tail(s) \o t = Tail(s \o t)
<1> DEFINE u == Tail(s)
           st == s \o t
           ut == u \o t
           tl == Tail(st)
<1>1. Len(s) \in Nat \ {0} /\ Len(t) \in Nat /\ u \in Seq(W) /\ Len(u) = Len(s) - 1
      /\ \A i \in 1..(Len(s) - 1) : u[i] = s[i + 1]
  BY Shifted, LenProperties
<1> HIDE DEF u
<1>2. /\ st \in Seq(W) /\ Len(st) = Len(s) + Len(t)
      /\ \A i \in 1..(Len(s) + Len(t)) : st[i] = IF i <= Len(s) THEN s[i] ELSE t[i - Len(s)]
  BY ConcatProperties
<1>3. /\ ut \in Seq(W) /\ Len(ut) = Len(u) + Len(t)
      /\ \A i \in 1..(Len(u) + Len(t)) : ut[i] = IF i <= Len(u) THEN u[i] ELSE t[i - Len(u)]
  BY <1>1, ConcatProperties
<1> HIDE DEF st, ut
<1>4. st # <<>>
  BY <1>1, <1>2, EmptySeq
<1>5. tl \in Seq(W) /\ Len(tl) = Len(st) - 1 /\ \A i \in 1..(Len(st) - 1) : tl[i] = st[i + 1]
  BY <1>2, <1>4, Shifted
<1> HIDE DEF tl
<1>6. ASSUME NEW i \in 1..Len(ut) PROVE ut[i] = tl[i]
  <2>0. i \in 1..(Len(u) + Len(t)) /\ i + 1 \in 1..(Len(s) + Len(t)) /\ i \in 1..(Len(st) - 1)
    BY <1>1, <1>2, <1>3
  <2>1. CASE i <= Len(u)
    <3>1. ut[i] = u[i] /\ u[i] = s[i + 1] /\ st[i + 1] = s[i + 1]
      BY <2>0, <2>1, <1>1, <1>2, <1>3
    <3> QED
      BY <3>1, <2>0, <1>5
  <2>2. CASE i > Len(u)
    <3>1. i - Len(u) = (i + 1) - Len(s) /\ ~(i <= Len(u)) /\ ~(i + 1 <= Len(s))
      BY <2>0, <2>2, <1>1
    <3>2. ut[i] = t[i - Len(u)] /\ st[i + 1] = t[(i + 1) - Len(s)]
      BY <2>0, <3>1, <1>2, <1>3
    <3> QED
      BY <3>1, <3>2, <2>0, <1>5
  <2> QED
    BY <2>0, <2>1, <2>2, <1>1
<1>7. ut = tl
  <2>1. Len(ut) = Len(tl)
    BY <1>1, <1>2, <1>3, <1>5
  <2> QED
    BY <2>1, <1>3, <1>5, <1>6, SeqEqual
<1>8. st[1] = s[1]
  BY <1>1, <1>2
<1> QED
  BY <1>2, <1>4, <1>7, <1>8 DEF st, ut, u, tl

\* Appending to the queue appends to what the writer has to apply.
LEMMA AppendFlow ==
    ASSUME TypeOK, NEW w \in Writes, queue' = Append(queue, w), batch' = batch
    PROVE  /\ queue' \in Seq(Writes) /\ Len(queue') = Len(queue) + 1
           /\ Flow \in Seq(Writes) /\ Flow' = Append(Flow, w)
<1>1. queue \in Seq(Writes) /\ batch \in Seq(Writes)
  BY DEF TypeOK
<1>2. queue' \in Seq(Writes) /\ Len(queue') = Len(queue) + 1
  BY <1>1, Appended
<1> QED
  BY <1>1, <1>2, ConcatAppend DEF Flow

\* Applying takes the first write off, and it is the first of the batch.
LEMMA ApplyFlow ==
    ASSUME TypeOK, batch # <<>>, batch' = Tail(batch), queue' = queue
    PROVE  /\ batch' \in Seq(Writes) /\ Len(batch') = Len(batch) - 1
           /\ Flow \in Seq(Writes) /\ Flow # <<>>
           /\ Head(batch) = Flow[1] /\ Flow[1] \in Writes /\ Flow' = Tail(Flow)
<1>1. queue \in Seq(Writes) /\ batch \in Seq(Writes)
  BY DEF TypeOK
<1>2. batch' \in Seq(Writes) /\ Len(batch') = Len(batch) - 1 /\ Head(batch) = batch[1]
      /\ batch[1] \in Writes
  BY <1>1, Shifted
<1> QED
  BY <1>1, <1>2, ConcatTail DEF Flow

\* What one applied write does to the tables.
LEMMA StoreEffect ==
    ASSUME TypeOK, cur \in Runs, NEW w \in Writes, Store(w)
    PROVE  /\ runRow' \in [Runs -> RunRows] /\ rows' \in [Runs -> [Ranges -> RowStatus]]
           /\ \A n \in Runs : n # cur => runRow'[n] = runRow[n] /\ rows'[n] = rows[n]
           /\ w.kind = "range" => runRow' = runRow
           /\ w.kind = "run" =>
                /\ rows' = rows
                /\ runRow'[cur].status = w.status /\ runRow'[cur].failed = w.failed
           /\ \A r \in Ranges : rows'[cur][r] =
                IF w.kind = "range" /\ w.range = r THEN w.status ELSE rows[cur][r]
<1>1. runRow \in [Runs -> RunRows] /\ rows \in [Runs -> [Ranges -> RowStatus]]
  BY DEF TypeOK, RowStatus
<1>2. CASE w.kind = "range"
  <2>1. w.range \in Ranges /\ w.status \in RowStatus
    BY <1>2, WriteFields DEF RowStatus
  <2>2. runRow' = runRow /\ rows' = [rows EXCEPT ![cur][w.range] = w.status]
    BY <1>2 DEF Store
  <2>3. rows' = [rows EXCEPT ![cur] = [rows[cur] EXCEPT ![w.range] = w.status]]
    BY <2>2
  <2> DEFINE new == [rows[cur] EXCEPT ![w.range] = w.status]
  <2>4. new \in [Ranges -> RowStatus]
        /\ \A r \in Ranges : new[r] = IF w.range = r THEN w.status ELSE rows[cur][r]
    BY <1>1, <2>1
  <2> HIDE DEF new
  <2>5. rows' = [rows EXCEPT ![cur] = new]
    BY <2>3 DEF new
  <2>6. rows' \in [Runs -> [Ranges -> RowStatus]] /\ rows'[cur] = new
        /\ \A n \in Runs : n # cur => rows'[n] = rows[n]
    BY <1>1, <2>4, <2>5
  <2> QED
    BY <1>1, <1>2, <2>2, <2>4, <2>6
<1>3. CASE w.kind = "run"
  <2> DEFINE new == [status |-> w.status, failed |-> w.failed]
  <2>1. new \in RunRows /\ new.status = w.status /\ new.failed = w.failed
    BY <1>3, WriteFields DEF RunRows
  <2>2. rows' = rows /\ runRow' = [runRow EXCEPT ![cur] = new]
    BY <1>3 DEF Store
  <2> HIDE DEF new
  <2> QED
    BY <1>1, <1>3, <2>1, <2>2
<1> QED
  BY <1>2, <1>3, WriteFields

\* A range write either joins the queue or is folded into the checkpoint map.
LEMMA EnqueueEffect ==
    ASSUME TypeOK, NEW r \in Ranges, NEW s \in RangeStatus, Enqueue(r, s), batch' = batch
    PROVE  /\ queue' \in Seq(Writes) /\ Len(queue') <= QueueCapacity
           /\ pending' \in [Ranges -> RowStatus] /\ shed' \in BOOLEAN
           /\ \/ shed' = shed /\ pending' = pending /\ Flow' = Append(Flow, RangeWrite(r, s))
              \/ /\ shed' = TRUE /\ Flow' = Flow
                 /\ \A x \in Ranges : pending'[x] = IF x = r THEN s ELSE pending[x]
<1>1. RangeWrite(r, s) \in Writes
  BY WriteFields
<1>2. pending \in [Ranges -> RowStatus] /\ shed \in BOOLEAN /\ s \in RowStatus
      /\ queue \in Seq(Writes) /\ Len(queue) \in Nat /\ Len(queue) <= QueueCapacity
  BY DEF TypeOK, RowStatus
<1>3. CASE HasRoom
  <2>1. queue' = Append(queue, RangeWrite(r, s)) /\ shed' = shed /\ pending' = pending
    BY <1>3 DEF Enqueue
  <2> QED
    BY <2>1, <1>1, <1>2, <1>3, AppendFlow, TrackerSizes DEF HasRoom
<1>4. CASE ~HasRoom
  <2>1. queue' = queue /\ shed' = TRUE /\ pending' = [pending EXCEPT ![r] = s]
    BY <1>4 DEF Enqueue
  <2> QED
    BY <2>1, <1>2 DEF Flow
<1> QED
  BY <1>3, <1>4

-----------------------------------------------------------------------------
(* Typing, and what each phase of the process and of its writer implies.    *)

NoRecord(map) == \A r \in Ranges : map[r] = Absent

\* The writer lives only while a run does; what it holds fits where it is in its loop.
MemoryInv ==
    /\ proc \in {"none", "create"} => writer = "ended"
    /\ proc = "running" => writer \in {"select", "batch", "checkpoint"}
    /\ batch # <<>> => writer = "batch"
    /\ writer \notin {"checkpoint", "last"} => NoRecord(ckpt)
    /\ writer \in {"last", "ended"} => queue = <<>> /\ blocked = <<>> /\ NoRecord(pending)
    /\ blocked # <<>> => proc = "closing"
    /\ proc # "none" => cur \in Runs

Base == TypeOK /\ MemoryInv

\* No run yet, and nothing in memory.
LEMMA BaseInit == Init => Base
<1> SUFFICES ASSUME Init PROVE Base
  OBVIOUS
<1> USE DEF Init, RowStatus
<1>1. [status |-> Absent, failed |-> FALSE] \in RunRows
  BY DEF RunRows
<1>2. runRow \in [Runs -> RunRows]
  BY <1>1
<1>3. rows \in [Runs -> [Ranges -> RowStatus]] /\ cur \in 0..MaxRuns
  BY TrackerSizes
<1>4. <<>> \in Seq(Writes) /\ Len(<<>>) = 0
  BY EmptySeq
<1>5. /\ queue \in Seq(Writes) /\ Len(queue) <= QueueCapacity
      /\ batch \in Seq(Writes) /\ Len(batch) <= BatchSize
      /\ blocked \in Seq(Writes) /\ Len(blocked) <= 1
  BY <1>4, TrackerSizes
<1>6. live \in [Ranges -> RangeStatus \cup {Absent, "InFlight"}]
      /\ {pending, ckpt} \subseteq [Ranges -> RowStatus]
      /\ begun \in [Ranges -> SUBSET Runs] /\ finished \subseteq Ranges /\ aborted \subseteq Runs
      /\ previous \in [Runs -> 0..MaxRuns] /\ lost \subseteq Runs
  BY TrackerSizes
<1>7. TypeOK
  BY <1>2, <1>3, <1>5, <1>6 DEF TypeOK
<1>8. MemoryInv
  BY DEF MemoryInv, NoRecord
<1> QED
  BY <1>7, <1>8 DEF Base

\* The memory a fresh or dead process has.
LEMMA EmptyMemoryEffect ==
    ASSUME EmptyMemory
    PROVE  /\ queue' = <<>> /\ batch' = <<>> /\ blocked' = <<>>
           /\ NoRecord(pending)' /\ NoRecord(ckpt)'
           /\ queue' \in Seq(Writes) /\ Len(queue') <= QueueCapacity
           /\ batch' \in Seq(Writes) /\ Len(batch') <= BatchSize
           /\ blocked' \in Seq(Writes) /\ Len(blocked') <= 1
           /\ pending' \in [Ranges -> RowStatus] /\ ckpt' \in [Ranges -> RowStatus]
<1>1. <<>> \in Seq(Writes) /\ Len(<<>>) = 0
  BY EmptySeq
<1> QED
  BY <1>1, TrackerSizes DEF EmptyMemory, NoRecord, RowStatus

\* A run continues another or none.
LEMMA RunIsNumber == 0 \in 0..MaxRuns /\ \A n \in Runs : n \in 0..MaxRuns
BY TrackerSizes DEF Runs

\* What starting a run writes.
LEMMA CreateEffect ==
    ASSUME Base, NEW f \in 0..MaxRuns, NEW S, S \subseteq Ranges, Create(f, S)
    PROVE  /\ proc = "none" /\ proc' = "create" /\ cur \in 0..MaxRuns /\ cur' = cur + 1
           /\ cur' \in Runs /\ plan' = S
           /\ live' \in [Ranges -> RangeStatus \cup {Absent, "InFlight"}]
           /\ \A r \in Ranges : live'[r] = IF r \in S THEN "NOT_STARTED" ELSE Absent
           /\ runRow' \in [Runs -> RunRows] /\ runRow'[cur'].status = "NOT_STARTED"
           /\ \A n \in Runs : n # cur' => runRow'[n] = runRow[n]
           /\ previous' \in [Runs -> 0..MaxRuns] /\ previous'[cur'] = f
           /\ \A n \in Runs : n # cur' => previous'[n] = previous[n]
           /\ UNCHANGED <<rows, memory, lost, begun, finished, aborted>>
           /\ shed' = FALSE
<1>1. proc = "none" /\ proc' = "create" /\ cur' = cur + 1 /\ plan' = S
      /\ cur < MaxRuns /\ shed' = FALSE
      /\ previous' = [previous EXCEPT ![cur + 1] = f]
      /\ UNCHANGED <<rows, memory, lost, begun, finished, aborted>>
  BY DEF Create
<1>2. cur \in 0..MaxRuns /\ cur' \in Runs
  BY <1>1, TrackerSizes DEF Base, TypeOK, Runs
<1>3. live' = [r \in Ranges |-> IF r \in S THEN "NOT_STARTED" ELSE Absent]
  BY DEF Create
<1>4. live' \in [Ranges -> RangeStatus \cup {Absent, "InFlight"}]
      /\ \A r \in Ranges : live'[r] = IF r \in S THEN "NOT_STARTED" ELSE Absent
  BY <1>3 DEF RangeStatus
<1>5. runRow \in [Runs -> RunRows]
  BY DEF Base, TypeOK
<1> DEFINE new == [runRow[cur'] EXCEPT !.status = "NOT_STARTED"]
<1>6. new \in RunRows /\ new.status = "NOT_STARTED"
  BY <1>2, <1>5 DEF RunRows, RunStatus
<1>7. runRow' = [runRow EXCEPT ![cur'] = new]
  BY <1>1 DEF Create
<1> HIDE DEF new
<1>8. runRow' \in [Runs -> RunRows] /\ runRow'[cur'] = new
      /\ \A n \in Runs : n # cur' => runRow'[n] = runRow[n]
  BY <1>2, <1>5, <1>6, <1>7
<1>9. /\ previous' \in [Runs -> 0..MaxRuns] /\ previous'[cur'] = f
      /\ \A n \in Runs : n # cur' => previous'[n] = previous[n]
  BY <1>1, <1>2 DEF Base, TypeOK
<1> QED
  BY <1>1, <1>2, <1>4, <1>6, <1>8, <1>9

\* A status written to a run row leaves the other rows alone.
LEMMA RowUpdate ==
    ASSUME TypeOK, NEW n \in Runs, NEW s \in RunStatus,
           runRow' = [runRow EXCEPT ![n].status = s]
    PROVE  /\ runRow' \in [Runs -> RunRows]
           /\ runRow'[n].status = s /\ runRow'[n].failed = runRow[n].failed
           /\ \A m \in Runs : m # n => runRow'[m] = runRow[m]
<1>1. runRow \in [Runs -> RunRows]
  BY DEF TypeOK
<1> DEFINE new == [runRow[n] EXCEPT !.status = s]
<1>2. new \in RunRows /\ new.status = s /\ new.failed = runRow[n].failed
  BY <1>1 DEF RunRows
<1>3. runRow' = [runRow EXCEPT ![n] = new]
  OBVIOUS
<1> HIDE DEF new
<1> QED
  BY <1>1, <1>2, <1>3

\* The ranges a resume plans are ranges.
LEMMA ReplannedRanges ==
    ASSUME TypeOK, NEW n \in Runs, NEW b
    PROVE  /\ Replanned(rows[n], b) \subseteq Ranges
           /\ \A r \in Ranges : r \in Replanned(rows[n], b) <=>
                 rows[n][r] # Absent /\ Disposition(b, rows[n][r]) = "Rerun"
<1>1. rows[n] \in [Ranges -> RowStatus]
  BY DEF TypeOK, RowStatus
<1> QED
  BY <1>1 DEF Replanned, Recorded

\* Every step keeps the types and the phases.
LEMMA BaseNext == Base /\ [Next]_vars => Base'
<1> SUFFICES ASSUME Base, [Next]_vars PROVE Base'
  OBVIOUS
<1> USE DEF Base
<1>t. /\ runRow \in [Runs -> RunRows] /\ rows \in [Runs -> [Ranges -> RowStatus]]
      /\ cur \in 0..MaxRuns /\ plan \subseteq Ranges
      /\ live \in [Ranges -> RangeStatus \cup {Absent, "InFlight"}]
      /\ queue \in Seq(Writes) /\ Len(queue) <= QueueCapacity /\ Len(queue) \in Nat
      /\ batch \in Seq(Writes) /\ Len(batch) <= BatchSize
      /\ blocked \in Seq(Writes) /\ Len(blocked) <= 1
      /\ pending \in [Ranges -> RowStatus] /\ ckpt \in [Ranges -> RowStatus]
      /\ begun \in [Ranges -> SUBSET Runs] /\ finished \subseteq Ranges /\ aborted \subseteq Runs
      /\ previous \in [Runs -> 0..MaxRuns] /\ lost \subseteq Runs
  BY LenProperties DEF TypeOK, RowStatus
<1>e. <<>> \in Seq(Writes) /\ Len(<<>>) = 0
  BY EmptySeq
<1>1. ASSUME NEW f \in 0..MaxRuns, NEW S, S \subseteq Ranges, Create(f, S) PROVE Base'
  <2>0. /\ proc' = "create" /\ cur' \in Runs /\ plan' = S
        /\ live' \in [Ranges -> RangeStatus \cup {Absent, "InFlight"}]
        /\ runRow' \in [Runs -> RunRows]
        /\ previous' \in [Runs -> 0..MaxRuns]
        /\ UNCHANGED <<rows, memory, lost, begun, finished, aborted>>
        /\ shed' = FALSE
    BY <1>1, CreateEffect
  <2>1. TypeOK'
    <3>1. cur' \in 0..MaxRuns
      BY <2>0, TrackerSizes DEF Runs
    <3> QED
      BY <1>1, <1>t, <2>0, <3>1 DEF TypeOK, memory, RowStatus
  <2>2. MemoryInv'
    BY <1>1, CreateEffect DEF MemoryInv, memory, NoRecord
  <2> QED
    BY <2>1, <2>2
<1>2. CASE StartFirstRun
  BY <1>1, <1>2, RunIsNumber DEF StartFirstRun
<1>3. ASSUME NEW n \in Runs, ResumeRun(n) PROVE Base'
  BY <1>1, <1>3, ReplannedRanges, RunIsNumber DEF ResumeRun
<1>4. ASSUME NEW n \in Runs, Cancel(n) PROVE Base'
  <2>1. runRow' \in [Runs -> RunRows]
    BY <1>4, RowUpdate DEF Cancel, RunStatus
  <2>2. TypeOK'
    BY <2>1, <1>4, <1>t DEF TypeOK, Cancel, memory
  <2>3. MemoryInv'
    BY <1>4 DEF MemoryInv, Cancel, memory, NoRecord
  <2> QED
    BY <2>2, <2>3
<1>5. CASE InsertRange
  <2>1. PICK r \in Unrecorded : rows' = [rows EXCEPT ![cur][r] = "NOT_STARTED"]
    BY <1>5 DEF InsertRange
  <2>2. cur \in Runs /\ r \in Ranges
    BY <1>5, <1>t DEF InsertRange, MemoryInv, Unrecorded
  <2> DEFINE new == [rows[cur] EXCEPT ![r] = "NOT_STARTED"]
  <2>3. new \in [Ranges -> RowStatus]
    BY <1>t, <2>2 DEF RowStatus, RangeStatus
  <2>4. rows' = [rows EXCEPT ![cur] = new]
    BY <2>1
  <2> HIDE DEF new
  <2>5. rows' \in [Runs -> [Ranges -> RowStatus]]
    BY <1>t, <2>2, <2>3, <2>4
  <2>6. TypeOK'
    BY <2>5, <1>5, <1>t DEF TypeOK, InsertRange, memory, history, RowStatus
  <2>7. MemoryInv'
    BY <1>5 DEF MemoryInv, InsertRange, memory, NoRecord
  <2> QED
    BY <2>6, <2>7
<1>6. CASE MarkStarted
  <2>1. cur \in Runs
    BY <1>6 DEF MarkStarted, RowsWritten, MemoryInv
  <2>2. runRow' \in [Runs -> RunRows]
    BY <1>6, <2>1, RowUpdate DEF MarkStarted, RunStatus
  <2>3. TypeOK'
    BY <2>2, <1>6, <1>t, EmptyMemoryEffect DEF TypeOK, MarkStarted, history, RowStatus
  <2>4. MemoryInv'
    BY <2>1, <1>6, EmptyMemoryEffect DEF MemoryInv, MarkStarted
  <2> QED
    BY <2>3, <2>4
<1>7. ASSUME NEW r \in Ranges, StartRange(r) PROVE Base'
  <2>1. batch' = batch /\ "STARTED" \in RangeStatus /\ Enqueue(r, "STARTED")
    BY <1>7 DEF StartRange, RangeStatus
  <2>2. /\ queue' \in Seq(Writes) /\ Len(queue') <= QueueCapacity
        /\ pending' \in [Ranges -> RowStatus] /\ shed' \in BOOLEAN
    BY <2>1, EnqueueEffect
  <2>3. live' \in [Ranges -> RangeStatus \cup {Absent, "InFlight"}] /\ begun' \in [Ranges -> SUBSET Runs]
    BY <1>7, <1>t DEF StartRange, MemoryInv
  <2>4. TypeOK'
    BY <1>7, <1>t, <2>2, <2>3 DEF TypeOK, StartRange, RowStatus, table
  <2>5. MemoryInv'
    BY <1>7 DEF MemoryInv, StartRange, NoRecord
  <2> QED
    BY <2>4, <2>5
<1>8. ASSUME NEW r \in Ranges, NEW s \in Verdicts \cup {"STARTED"}, FinishRange(r, s) PROVE Base'
  <2>1. batch' = batch /\ s \in RangeStatus /\ Enqueue(r, s)
    BY <1>8 DEF FinishRange, RangeStatus
  <2>2. /\ queue' \in Seq(Writes) /\ Len(queue') <= QueueCapacity
        /\ pending' \in [Ranges -> RowStatus] /\ shed' \in BOOLEAN
    BY <2>1, EnqueueEffect
  <2>3. live' \in [Ranges -> RangeStatus \cup {Absent, "InFlight"}] /\ finished' \subseteq Ranges
    BY <1>8, <1>t, <2>1 DEF FinishRange
  <2>4. TypeOK'
    BY <1>8, <1>t, <2>2, <2>3 DEF TypeOK, FinishRange, RowStatus, table
  <2>5. MemoryInv'
    BY <1>8 DEF MemoryInv, FinishRange, NoRecord
  <2> QED
    BY <2>4, <2>5
<1>9. ASSUME NEW s \in TerminalStatuses, FinishRun(s) PROVE Base'
  <2> DEFINE w == RunWrite(s, \E r \in plan : live[r] = "FAIL")
  <2>1. w \in Writes
    BY WriteFields DEF TerminalStatuses, RunStatus
  <2> HIDE DEF w
  <2>2. EnqueueRun(w)
    BY <1>9 DEF FinishRun, w
  <2>3. queue' \in Seq(Writes) /\ Len(queue') <= QueueCapacity
        /\ blocked' \in Seq(Writes) /\ Len(blocked') <= 1
    <3>1. CASE HasRoom
      <4>1. queue' = Append(queue, w) /\ blocked' = blocked /\ Len(queue) < QueueCapacity
        BY <3>1, <2>2 DEF EnqueueRun, HasRoom
      <4>2. queue' \in Seq(Writes) /\ Len(queue') = Len(queue) + 1
        BY <4>1, <2>1, <1>t, Appended
      <4> QED
        BY <4>1, <4>2, <1>t, TrackerSizes
    <3>2. CASE ~HasRoom
      <4>1. blocked' = <<w>> /\ queue' = queue
        BY <3>2, <2>2 DEF EnqueueRun
      <4>2. <<w>> \in Seq(Writes) /\ Len(<<w>>) = 1
        BY <2>1
      <4> QED
        BY <4>1, <4>2, <1>t
    <3> QED
      BY <3>1, <3>2
  <2>4. TypeOK'
    BY <1>9, <1>t, <2>3 DEF TypeOK, FinishRun, RowStatus, table, history
  <2>5. MemoryInv'
    BY <1>9 DEF MemoryInv, FinishRun, NoRecord
  <2> QED
    BY <2>4, <2>5
<1>10. CASE AbandonRun
  <2>1. TypeOK'
    BY <1>10 DEF TypeOK, AbandonRun, table, memory, history
  <2>2. MemoryInv'
    BY <1>10 DEF MemoryInv, AbandonRun, memory, NoRecord
  <2> QED
    BY <2>1, <2>2
<1>11. CASE SendBlocked
  <2>1. Head(blocked) \in Writes
    BY <1>11, <1>t, Shifted DEF SendBlocked
  <2>2. queue' \in Seq(Writes) /\ Len(queue') <= QueueCapacity
    BY <2>1, <1>t, <1>11, Appended, TrackerSizes DEF SendBlocked, HasRoom
  <2>3. TypeOK'
    BY <1>11, <1>t, <1>e, <2>2 DEF TypeOK, SendBlocked, RowStatus, table, history
  <2>4. MemoryInv'
    BY <1>11 DEF MemoryInv, SendBlocked, NoRecord
  <2> QED
    BY <2>3, <2>4
<1>12. CASE Close
  <2>1. TypeOK'
    BY <1>12 DEF TypeOK, Close, table, memory, history
  <2>2. MemoryInv'
    BY <1>12 DEF MemoryInv, Close, memory, NoRecord
  <2> QED
    BY <2>1, <2>2
<1>13. CASE Receive
  <2>1. batch = <<>>
    BY <1>13 DEF Receive, MemoryInv
  <2>2. TypeOK'
    BY <2>1, <1>13, <1>t, ReceiveKeepsFlow DEF TypeOK, Receive, RowStatus, table, history
  <2>3. MemoryInv'
    BY <1>13 DEF MemoryInv, Receive, NoRecord
  <2> QED
    BY <2>2, <2>3
<1>s. ASSUME NEW w \in Writes, cur \in Runs,
             \/ Store(w) /\ UNCHANGED lost
             \/ MayFailWrites /\ lost' = lost \cup {cur} /\ UNCHANGED table
      PROVE  /\ runRow' \in [Runs -> RunRows] /\ rows' \in [Runs -> [Ranges -> RowStatus]]
             /\ lost' \subseteq Runs
  <2>1. CASE Store(w) /\ UNCHANGED lost
    BY <1>s, <2>1, StoreEffect DEF TypeOK
  <2>2. CASE MayFailWrites /\ lost' = lost \cup {cur} /\ UNCHANGED table
    BY <1>s, <2>2, <1>t DEF table
  <2> QED
    BY <1>s, <2>1, <2>2
<1>14. CASE Apply
  <2>1. batch # <<>> /\ batch' = Tail(batch) /\ queue' = queue /\ cur \in Runs
    BY <1>14 DEF Apply, MemoryInv, TypeOK
  <2>2. batch' \in Seq(Writes) /\ Len(batch') <= BatchSize /\ Head(batch) \in Writes
    BY <2>1, <1>t, Shifted, TrackerSizes
  <2>3. /\ runRow' \in [Runs -> RunRows] /\ rows' \in [Runs -> [Ranges -> RowStatus]]
        /\ lost' \subseteq Runs
    BY <1>14, <2>1, <2>2, <1>s DEF Apply
  <2>4. TypeOK'
    BY <1>14, <1>t, <2>2, <2>3 DEF TypeOK, Apply, RowStatus
  <2>5. MemoryInv'
    BY <1>14 DEF MemoryInv, Apply, NoRecord
  <2> QED
    BY <2>4, <2>5
<1>15. CASE BatchDone
  <2>1. TypeOK'
    BY <1>15 DEF TypeOK, BatchDone, table, history
  <2>2. MemoryInv'
    BY <1>15 DEF MemoryInv, BatchDone, NoRecord
  <2> QED
    BY <2>1, <2>2
<1>c. ASSUME TakeCheckpoint PROVE /\ ckpt' \in [Ranges -> RowStatus]
                                  /\ pending' \in [Ranges -> RowStatus] /\ NoRecord(pending)'
  BY <1>c, <1>t DEF TakeCheckpoint, RowStatus, NoRecord
<1>16. CASE Tick
  <2>1. TypeOK'
    BY <1>16, <1>t, <1>c DEF TypeOK, Tick, RowStatus, table, history
  <2>2. MemoryInv'
    BY <1>16, <1>c DEF MemoryInv, Tick, NoRecord
  <2> QED
    BY <2>1, <2>2
<1>17. CASE ApplyCheckpoint
  <2>1. PICK r \in Recorded(ckpt) :
           /\ ckpt' = [ckpt EXCEPT ![r] = Absent]
           /\ \/ Store(RangeWrite(r, ckpt[r])) /\ UNCHANGED lost
              \/ MayFailWrites /\ lost' = lost \cup {cur} /\ UNCHANGED table
    BY <1>17 DEF ApplyCheckpoint
  <2>2. r \in Ranges /\ ckpt[r] \in RangeStatus
    BY <1>t DEF Recorded, RowStatus
  <2>3. cur \in Runs
    BY <1>17 DEF ApplyCheckpoint, MemoryInv, TypeOK
  <2>4. /\ runRow' \in [Runs -> RunRows] /\ rows' \in [Runs -> [Ranges -> RowStatus]]
        /\ lost' \subseteq Runs
    BY <2>1, <2>2, <2>3, <1>s, WriteFields
  <2>5. ckpt' \in [Ranges -> RowStatus]
    BY <2>1, <2>2, <1>t DEF RowStatus
  <2>6. TypeOK'
    BY <1>17, <1>t, <2>4, <2>5 DEF TypeOK, ApplyCheckpoint, RowStatus
  <2>7. MemoryInv'
    BY <1>17 DEF MemoryInv, ApplyCheckpoint, NoRecord
  <2> QED
    BY <2>6, <2>7
<1>18. CASE CheckpointDone
  <2>1. NoRecord(ckpt)
    BY <1>18, <1>t DEF CheckpointDone, Recorded, NoRecord
  <2>2. TypeOK'
    BY <1>18 DEF TypeOK, CheckpointDone, table, history
  <2>3. MemoryInv'
    BY <1>18, <2>1 DEF MemoryInv, CheckpointDone, NoRecord
  <2> QED
    BY <2>2, <2>3
<1>19. CASE LoopEnds
  <2>1. TypeOK'
    BY <1>19, <1>t, <1>c DEF TypeOK, LoopEnds, RowStatus, table, history
  <2>2. MemoryInv'
    BY <1>19, <1>c DEF MemoryInv, LoopEnds, NoRecord, SendersGone
  <2> QED
    BY <2>1, <2>2
<1>20. CASE Crash
  <2>0. cur \in Runs
    BY <1>20 DEF Crash, MemoryInv
  <2>1. TypeOK'
    BY <1>20, <1>t, <2>0, EmptyMemoryEffect DEF TypeOK, Crash, RowStatus, table
  <2>2. MemoryInv'
    BY <1>20, EmptyMemoryEffect DEF MemoryInv, Crash
  <2> QED
    BY <2>1, <2>2
<1>21. CASE UNCHANGED vars
  <2>1. TypeOK'
    BY <1>21 DEF TypeOK, vars, table, memory, history
  <2>2. MemoryInv'
    BY <1>21 DEF MemoryInv, vars, memory, NoRecord
  <2> QED
    BY <2>1, <2>2
<1> QED
  BY <1>2, <1>3, <1>4, <1>5, <1>6, <1>7, <1>8, <1>9, <1>10, <1>11, <1>12, <1>13, <1>14, <1>15,
     <1>16, <1>17, <1>18, <1>19, <1>20, <1>21
     DEF Next, WriterStep, Idle

\* The tables, the queue, the batch and the checkpoint map keep their types: the queue never
\* exceeds its capacity, and no write is queued or applied for a run that is not there.
THEOREM TrackerTypes == Spec => []TypeOK
<1>1. Spec => []Base
  BY BaseInit, BaseNext, PTL DEF Spec
<1>2. Base => TypeOK
  BY DEF Base
<1> QED
  BY <1>1, <1>2, PTL

-----------------------------------------------------------------------------
(* The run's last word: it is queued last, and what it claims is true.      *)

\* Runs that were not created yet have no rows.
Fresh == \A n \in Runs : n > cur => runRow[n].status = Absent /\ NoRecord(rows[n])

\* The ranges of the newest run are those with a state.
PlanLive == \A r \in Ranges : r \in plan <=> live[r] # Absent

\* While a run is being created none of its ranges has begun.
Creating ==
    proc = "create" =>
        \A r \in Ranges : /\ live[r] = "NOT_STARTED" \/ live[r] = Absent
                          /\ rows[cur][r] = "NOT_STARTED" \/ rows[cur][r] = Absent

\* Once the run is closing no range is in flight.
Settled == proc = "closing" => \A r \in plan : live[r] # "InFlight"

\* Nothing is applied after the run write.
RunWriteLast ==
    /\ \A i \in 1..Len(Flow) :
          Flow[i].kind = "run" => i = Len(Flow) /\ proc = "closing" /\ blocked = <<>>
    /\ \A i \in 1..Len(blocked) : blocked[i].kind = "run"

Done == \A r \in plan : live[r] \in Clean \cup {"DIFF"}
Claims(w) == w.kind = "run" /\ w.status = "ENDED" /\ ~w.failed

\* A run write that says ENDED without failures, queued or applied, tells the truth.
ClaimsTrue ==
    /\ \A i \in 1..Len(Flow) : Claims(Flow[i]) => Done
    /\ \A i \in 1..Len(blocked) : Claims(blocked[i]) => Done
    /\ cur \in Runs /\ runRow[cur].status = "ENDED" =>
          /\ proc \in {"closing", "none"}
          /\ ~runRow[cur].failed => Done

RunInv == Base /\ Fresh /\ PlanLive /\ Creating /\ Settled /\ RunWriteLast /\ ClaimsTrue

\* Writer steps that apply nothing leave the flow, the tables and the process alone.
LEMMA SameFlow ==
    ASSUME Base, Receive \/ BatchDone \/ Tick \/ CheckpointDone \/ LoopEnds \/ UNCHANGED vars
    PROVE  /\ Flow' = Flow /\ UNCHANGED <<table, cur, proc, plan, live, blocked, history>>
           /\ NoRecord(pending) /\ NoRecord(ckpt) => NoRecord(pending)' /\ NoRecord(ckpt)'
           /\ \A r \in Ranges : {pending'[r], ckpt'[r]} \subseteq {pending[r], ckpt[r], Absent}
           /\ \A r \in Ranges : pending[r] # Absent \/ ckpt[r] # Absent =>
                                pending'[r] # Absent \/ ckpt'[r] # Absent
<1>1. CASE Receive
  <2>1. batch = <<>>
    BY <1>1 DEF Base, MemoryInv, Receive
  <2> QED
    BY <2>1, <1>1, ReceiveKeepsFlow DEF Base, Receive, NoRecord
<1>2. CASE BatchDone
  BY <1>2 DEF BatchDone, Flow, NoRecord
<1>t. ASSUME TakeCheckpoint, writer = "select"
      PROVE  /\ NoRecord(pending) => NoRecord(pending)' /\ NoRecord(ckpt)'
             /\ \A r \in Ranges : {pending'[r], ckpt'[r]} \subseteq {pending[r], ckpt[r], Absent}
             /\ \A r \in Ranges : pending[r] # Absent \/ ckpt[r] # Absent =>
                                  pending'[r] # Absent \/ ckpt'[r] # Absent
  <2>1. NoRecord(ckpt) /\ ckpt' = pending /\ \A r \in Ranges : pending'[r] = Absent
    BY <1>t DEF Base, MemoryInv, TakeCheckpoint
  <2> QED
    BY <2>1 DEF NoRecord
<1>3. CASE Tick
  BY <1>3, <1>t DEF Tick, Flow
<1>4. CASE CheckpointDone
  BY <1>4 DEF CheckpointDone, Flow, NoRecord
<1>5. CASE LoopEnds
  BY <1>5, <1>t DEF LoopEnds, Flow
<1>6. CASE UNCHANGED vars
  BY <1>6 DEF vars, memory, Flow, NoRecord
<1> QED
  BY <1>1, <1>2, <1>3, <1>4, <1>5, <1>6

\* A process without a run, one that starts and one that died have nothing to apply.
LEMMA NoFlow ==
    /\ EmptyMemory => Flow' = <<>>
    /\ Base /\ writer = "ended" => Flow = <<>>
<1>1. <<>> \o <<>> = <<>>
  BY EmptySeq, ConcatEmptySeq
<1>2. EmptyMemory => Flow' = <<>>
  BY <1>1 DEF EmptyMemory, Flow
<1>3. Base /\ writer = "ended" => Flow = <<>>
  BY <1>1 DEF Base, MemoryInv, Flow
<1> QED
  BY <1>2, <1>3

\* finish(): what is queued, or waits to be.
LEMMA FinishRunEffect ==
    ASSUME RunInv, NEW s \in TerminalStatuses, FinishRun(s)
    PROVE  \E w \in Writes :
             /\ w.kind = "run" /\ w.status \in {"INTERRUPTED", "ABORTED", "ENDED"}
             /\ Claims(w) => Done
             /\ blocked = <<>>
             /\ \/ Flow' = Append(Flow, w) /\ blocked' = blocked
                \/ Flow' = Flow /\ blocked' = <<w>>
<1> DEFINE f == \E r \in plan : live[r] = "FAIL"
           w == RunWrite(s, f)
<1>1. f \in BOOLEAN /\ s \in RunStatus /\ s \in {"INTERRUPTED", "ABORTED", "ENDED"}
  BY DEF TerminalStatuses, RunStatus
<1>2. s = "ENDED" => Unprocessed = {}
  BY DEF TerminalStatuses
<1>3. EnqueueRun(w) /\ batch' = batch /\ proc = "running"
      /\ \A r \in plan : live[r] # "InFlight"
  BY DEF FinishRun
<1>4. s = "ENDED" /\ ~f => Done
  <2> SUFFICES ASSUME s = "ENDED", ~f, NEW r \in plan PROVE live[r] \in Clean \cup {"DIFF"}
    BY DEF Done
  <2>1. r \in Ranges /\ live[r] \in RangeStatus \cup {Absent, "InFlight"}
    BY DEF RunInv, Base, TypeOK
  <2>2. live[r] \notin {"NOT_STARTED", "STARTED", "InFlight", "FAIL", Absent}
    BY <1>2, <1>3, <2>1 DEF Unprocessed, RunInv, PlanLive
  <2> QED
    BY <2>1, <2>2, TrackerVerdicts DEF RangeStatus, Clean
<1> HIDE DEF f
<1>5. w \in Writes /\ w.kind = "run" /\ w.status = s /\ w.failed = f
  BY <1>1, WriteFields
<1> HIDE DEF w
<1>6. blocked = <<>>
  BY <1>3 DEF RunInv, Base, MemoryInv
<1>7. \/ Flow' = Append(Flow, w) /\ blocked' = blocked
      \/ Flow' = Flow /\ blocked' = <<w>>
  <2>1. CASE HasRoom
    BY <2>1, <1>3, <1>5, AppendFlow DEF EnqueueRun, RunInv, Base
  <2>2. CASE ~HasRoom
    BY <2>2, <1>3 DEF EnqueueRun, Flow
  <2> QED
    BY <2>1, <2>2
<1>8. Claims(w) => Done
  BY <1>4, <1>5 DEF Claims
<1> QED
  BY <1>1, <1>5, <1>6, <1>7, <1>8

\* The spawned sender moves the run write to the end of the queue.
LEMMA SendBlockedEffect ==
    ASSUME RunInv, SendBlocked
    PROVE  \E w \in Writes :
             /\ Len(blocked) = 1 /\ w = blocked[1] /\ w.kind = "run" /\ proc = "closing"
             /\ Flow' = Append(Flow, w) /\ blocked' = <<>>
<1>1. blocked # <<>> /\ queue' = Append(queue, Head(blocked)) /\ batch' = batch /\ blocked' = <<>>
  BY DEF SendBlocked
<1>2. blocked \in Seq(Writes) /\ Len(blocked) <= 1 /\ proc = "closing"
  BY <1>1 DEF RunInv, Base, TypeOK, MemoryInv
<1>3. Len(blocked) \in Nat \ {0} /\ blocked[1] \in Writes /\ Head(blocked) = blocked[1]
  BY <1>1, <1>2, Shifted
<1>4. Len(blocked) = 1 /\ blocked[1].kind = "run"
  <2>1. Len(blocked) = 1 /\ 1 \in 1..Len(blocked)
    BY <1>2, <1>3
  <2>2. \A i \in 1..Len(blocked) : blocked[i].kind = "run"
    BY DEF RunInv, RunWriteLast
  <2> QED
    BY <2>1, <2>2
<1>5. Flow' = Append(Flow, blocked[1])
  BY <1>1, <1>3, AppendFlow DEF RunInv, Base
<1> QED
  BY <1>1, <1>2, <1>3, <1>4, <1>5

\* What the writer has to apply is a sequence of writes.
LEMMA FlowType == TypeOK => Flow \in Seq(Writes) /\ Len(Flow) \in Nat
BY ConcatProperties, LenProperties DEF TypeOK, Flow

\* Nothing to apply and no run claims anything.
LEMMA RunInvInit == Init => RunInv
<1> SUFFICES ASSUME Init PROVE RunInv
  OBVIOUS
<1>1. Base
  BY BaseInit
<1>2. Flow = <<>> /\ blocked = <<>> /\ Len(<<>>) = 0
  BY <1>1, NoFlow, EmptySeq DEF Init
<1>3. Fresh /\ PlanLive /\ Creating /\ Settled
  BY TrackerSizes DEF Init, Fresh, PlanLive, Creating, Settled, NoRecord, Runs
<1>4. RunWriteLast /\ ClaimsTrue
  BY <1>2 DEF Init, RunWriteLast, ClaimsTrue, Runs
<1> QED
  BY <1>1, <1>3, <1>4 DEF RunInv

\* Every step keeps the run write last and its claim true.
LEMMA RunInvNext == RunInv /\ [Next]_vars => RunInv'
<1> SUFFICES ASSUME RunInv, [Next]_vars PROVE RunInv'
  OBVIOUS
<1>b. Base /\ TypeOK /\ Base'
  BY BaseNext DEF RunInv, Base
<1>f. Flow \in Seq(Writes) /\ Len(Flow) \in Nat /\ Len(<<>>) = 0
  BY <1>b, FlowType, EmptySeq
<1>t. /\ cur \in 0..MaxRuns /\ MaxRuns \in Nat /\ plan \subseteq Ranges
      /\ live \in [Ranges -> RangeStatus \cup {Absent, "InFlight"}]
      /\ rows \in [Runs -> [Ranges -> RowStatus]] /\ runRow \in [Runs -> RunRows]
  BY <1>b, TrackerSizes DEF TypeOK, RowStatus
\* Steps that leave the ranges and the rows of every run alone.
<1>k. ASSUME UNCHANGED <<cur, plan, live, rows>>,
             \/ proc' = proc \/ proc' = "none"
             \/ (proc' = "closing" /\ \A r \in plan : live[r] # "InFlight")
             \/ (proc' = "running" /\ proc = "create")
      PROVE  PlanLive' /\ Creating' /\ Settled'
  BY <1>k DEF RunInv, PlanLive, Creating, Settled
<1>1. ASSUME NEW f \in 0..MaxRuns, NEW S, S \subseteq Ranges, Create(f, S) PROVE RunInv'
  <2>1. /\ proc = "none" /\ proc' = "create" /\ cur' = cur + 1 /\ cur' \in Runs /\ plan' = S
        /\ \A r \in Ranges : live'[r] = IF r \in S THEN "NOT_STARTED" ELSE Absent
        /\ runRow'[cur'].status = "NOT_STARTED"
        /\ \A n \in Runs : n # cur' => runRow'[n] = runRow[n]
        /\ UNCHANGED <<rows, memory>>
    BY <1>1, <1>b, CreateEffect
  <2>2. Flow' = <<>> /\ blocked' = <<>>
    BY <2>1, <1>b, NoFlow DEF memory, Base, MemoryInv, Flow
  <2>3. NoRecord(rows[cur'])
    BY <2>1, <1>t DEF RunInv, Fresh
  <2>4. Fresh'
    BY <2>1, <1>t DEF RunInv, Fresh, NoRecord, Runs
  <2>5. PlanLive' /\ Creating' /\ Settled'
    BY <1>1, <2>1, <2>3 DEF PlanLive, Creating, Settled, NoRecord, Absent
  <2>6. RunWriteLast' /\ ClaimsTrue'
    BY <2>1, <2>2, <1>f DEF RunWriteLast, ClaimsTrue
  <2> QED
    BY <1>b, <2>4, <2>5, <2>6 DEF RunInv
<1>2. CASE StartFirstRun
  BY <1>1, <1>2, RunIsNumber DEF StartFirstRun
<1>3. ASSUME NEW n \in Runs, ResumeRun(n) PROVE RunInv'
  BY <1>1, <1>3, <1>b, ReplannedRanges, RunIsNumber DEF ResumeRun
<1>4. ASSUME NEW n \in Runs, Cancel(n) PROVE RunInv'
  <2>1. /\ runRow'[n].status = "ABORTED" /\ runRow[n].status # Absent
        /\ \A m \in Runs : m # n => runRow'[m] = runRow[m]
        /\ UNCHANGED <<rows, cur, proc, plan, live, memory>>
    BY <1>4, <1>b, RowUpdate DEF Cancel, RunStatus
  <2>2. Fresh'
    BY <2>1 DEF RunInv, Fresh, NoRecord
  <2>3. RunWriteLast' /\ ClaimsTrue'
    BY <2>1 DEF RunInv, RunWriteLast, ClaimsTrue, Flow, memory, Done
  <2> QED
    BY <1>b, <1>k, <2>1, <2>2, <2>3 DEF RunInv
<1>5. CASE InsertRange
  <2>1. PICK r \in Unrecorded : rows' = [rows EXCEPT ![cur][r] = "NOT_STARTED"]
    BY <1>5 DEF InsertRange
  <2>2. cur \in Runs /\ r \in Ranges /\ proc = "create"
    BY <1>5, <1>b, <1>t DEF InsertRange, Base, MemoryInv, Unrecorded
  <2>3. UNCHANGED <<runRow, cur, proc, plan, live, memory>>
    BY <1>5 DEF InsertRange
  <2>4. /\ \A n \in Runs : n # cur => rows'[n] = rows[n]
        /\ \A x \in Ranges : rows'[cur][x] = IF x = r THEN "NOT_STARTED" ELSE rows[cur][x]
    BY <1>t, <2>1, <2>2
  <2>5. Fresh'
    BY <2>2, <2>3, <2>4, <1>t DEF RunInv, Fresh, NoRecord
  <2>6. PlanLive' /\ Creating' /\ Settled'
    BY <2>2, <2>3, <2>4 DEF RunInv, PlanLive, Creating, Settled
  <2>7. RunWriteLast' /\ ClaimsTrue'
    BY <2>3 DEF RunInv, RunWriteLast, ClaimsTrue, Flow, memory, Done
  <2> QED
    BY <1>b, <2>5, <2>6, <2>7 DEF RunInv
<1>6. CASE MarkStarted
  <2>1. cur \in Runs /\ proc = "create" /\ proc' = "running" /\ EmptyMemory
        /\ UNCHANGED <<rows, cur, plan, live>>
    BY <1>6, <1>b DEF MarkStarted, RowsWritten, Base, MemoryInv
  <2>2. runRow'[cur].status = "STARTED"
        /\ \A m \in Runs : m # cur => runRow'[m] = runRow[m]
    BY <1>6, <1>b, <2>1, RowUpdate DEF MarkStarted, RunStatus
  <2>3. Fresh'
    <3>1. \A n \in Runs : n > cur => n # cur
      BY <1>t DEF Runs
    <3> QED
      BY <2>1, <2>2, <3>1 DEF RunInv, Fresh, NoRecord
  <2>4. Flow' = <<>> /\ blocked' = <<>>
    BY <2>1, NoFlow DEF EmptyMemory
  <2>5. RunWriteLast' /\ ClaimsTrue'
    BY <2>1, <2>2, <2>4, <1>f DEF RunWriteLast, ClaimsTrue
  <2> QED
    BY <1>b, <1>k, <2>1, <2>3, <2>5 DEF RunInv
\* While the run is running its run write is not there yet, and its row does not say ENDED.
<1>r. proc = "running" =>
        /\ \A i \in 1..Len(Flow) : Flow[i].kind # "run"
        /\ blocked = <<>> /\ cur \in Runs /\ runRow[cur].status # "ENDED"
  BY <1>b DEF RunInv, RunWriteLast, ClaimsTrue, Base, MemoryInv
<1>e. ASSUME NEW r \in Ranges, NEW s \in RangeStatus, Enqueue(r, s), live[r] # Absent,
             proc = "running", UNCHANGED <<table, cur, proc, plan, blocked, batch>>,
             NEW v, v # Absent, live' = [live EXCEPT ![r] = v]
      PROVE  RunInv'
  <2>1. \/ Flow' = Append(Flow, RangeWrite(r, s)) \/ Flow' = Flow
    BY <1>b, <1>e, EnqueueEffect
  <2>2. RangeWrite(r, s) \in Writes /\ RangeWrite(r, s).kind = "range"
    BY WriteFields
  <2>3. \A i \in 1..Len(Flow') : Flow'[i].kind # "run"
    <3>1. CASE Flow' = Flow
      BY <3>1, <1>r, <1>e
    <3>2. CASE Flow' = Append(Flow, RangeWrite(r, s))
      <4>1. /\ Len(Flow') = Len(Flow) + 1 /\ Flow'[Len(Flow) + 1] = RangeWrite(r, s)
            /\ \A i \in 1..Len(Flow) : Flow'[i] = Flow[i]
        BY <3>2, <2>2, <1>f, Appended
      <4> QED
        BY <4>1, <2>2, <1>r, <1>e, <1>f
    <3> QED
      BY <2>1, <3>1, <3>2
  <2>4. RunWriteLast' /\ ClaimsTrue'
    BY <2>3, <1>r, <1>e, <1>f DEF RunWriteLast, ClaimsTrue, Claims, table
  <2>5. Fresh'
    BY <1>e DEF RunInv, Fresh, NoRecord, table
  <2>6. \A x \in Ranges : live'[x] = IF x = r THEN v ELSE live[x]
    BY <1>e, <1>t
  <2>7. PlanLive' /\ Creating' /\ Settled'
    BY <2>6, <1>e DEF RunInv, PlanLive, Creating, Settled
  <2> QED
    BY <1>b, <2>4, <2>5, <2>7 DEF RunInv
<1>7. ASSUME NEW r \in Ranges, StartRange(r) PROVE RunInv'
  BY <1>7, <1>e DEF StartRange, RangeStatus, Absent
<1>8. ASSUME NEW r \in Ranges, NEW s \in Verdicts \cup {"STARTED"}, FinishRange(r, s) PROVE RunInv'
  <2>1. s \in RangeStatus /\ s # Absent
    BY TrackerVerdicts DEF RangeStatus, Absent
  <2> QED
    BY <2>1, <1>8, <1>e DEF FinishRange, Absent
\* A run write that joins the end of the queue.
<1>w. ASSUME NEW w \in Writes, w.kind = "run", Claims(w) => Done,
             \A i \in 1..Len(Flow) : Flow[i].kind # "run",
             Flow' = Append(Flow, w), blocked' = <<>>, proc' = "closing",
             UNCHANGED <<table, cur, plan, live>>
      PROVE  RunWriteLast' /\ ClaimsTrue'
  <2>1. /\ Len(Flow') = Len(Flow) + 1 /\ Flow'[Len(Flow) + 1] = w
        /\ \A i \in 1..Len(Flow) : Flow'[i] = Flow[i]
    BY <1>w, <1>f, Appended
  <2>2. Done' = Done
    BY <1>w DEF Done
  <2>3. ASSUME NEW i \in 1..Len(Flow'), Flow'[i].kind = "run" PROVE i = Len(Flow') /\ Flow'[i] = w
    <3>1. i = Len(Flow) + 1 \/ i \in 1..Len(Flow)
      BY <2>1, <1>f
    <3> QED
      BY <3>1, <2>1, <2>3, <1>w
  <2>4. RunWriteLast'
    BY <2>3, <1>w, <1>f DEF RunWriteLast
  <2>5. ClaimsTrue'
    BY <2>2, <2>3, <1>w, <1>f DEF ClaimsTrue, Claims, table, RunInv
  <2> QED
    BY <2>4, <2>5
<1>9. ASSUME NEW s \in TerminalStatuses, FinishRun(s) PROVE RunInv'
  <2>1. PICK w \in Writes :
             /\ w.kind = "run" /\ w.status \in {"INTERRUPTED", "ABORTED", "ENDED"}
             /\ Claims(w) => Done
             /\ blocked = <<>>
             /\ \/ Flow' = Append(Flow, w) /\ blocked' = blocked
                \/ Flow' = Flow /\ blocked' = <<w>>
    BY <1>9, FinishRunEffect
  <2>2. proc = "running" /\ proc' = "closing" /\ UNCHANGED <<table, cur, plan, live>>
        /\ \A r \in plan : live[r] # "InFlight"
    BY <1>9 DEF FinishRun
  <2>3. Fresh'
    BY <2>2 DEF RunInv, Fresh, NoRecord, table
  <2>4. RunWriteLast' /\ ClaimsTrue'
    <3>1. CASE Flow' = Append(Flow, w) /\ blocked' = blocked
      BY <3>1, <2>1, <2>2, <1>r, <1>w
    <3>2. CASE Flow' = Flow /\ blocked' = <<w>>
      <4>1. Len(blocked') = 1 /\ blocked'[1] = w
        BY <3>2
      <4>2. \A i \in 1..Len(blocked') : blocked'[i] = w
        BY <4>1
      <4>3. Done' = Done
        BY <2>2 DEF Done
      <4> QED
        BY <3>2, <4>2, <4>3, <2>1, <2>2, <1>r DEF RunWriteLast, ClaimsTrue, Claims, table
    <3> QED
      BY <2>1, <3>1, <3>2
  <2> QED
    BY <1>b, <1>k, <2>2, <2>3, <2>4 DEF RunInv, table
<1>10. CASE AbandonRun
  <2>1. proc = "running" /\ proc' = "closing" /\ UNCHANGED <<table, cur, plan, live, memory>>
        /\ \A r \in plan : live[r] # "InFlight"
    BY <1>10 DEF AbandonRun
  <2>2. Fresh' /\ RunWriteLast' /\ ClaimsTrue'
    BY <2>1, <1>r, <1>f
       DEF RunInv, Fresh, NoRecord, RunWriteLast, ClaimsTrue, Flow, table, memory, Done
  <2> QED
    BY <1>b, <1>k, <2>1, <2>2 DEF RunInv, table
<1>11. CASE SendBlocked
  <2>1. PICK w \in Writes :
             /\ Len(blocked) = 1 /\ w = blocked[1] /\ w.kind = "run" /\ proc = "closing"
             /\ Flow' = Append(Flow, w) /\ blocked' = <<>>
    BY <1>11, SendBlockedEffect
  <2>2. UNCHANGED <<table, cur, proc, plan, live>> /\ blocked # <<>>
    BY <1>11 DEF SendBlocked
  <2>3. Claims(w) => Done
    <3>1. 1 \in 1..Len(blocked)
      BY <2>1
    <3> QED
      BY <2>1, <3>1 DEF RunInv, ClaimsTrue
  <2>4. \A i \in 1..Len(Flow) : Flow[i].kind # "run"
    BY <2>2 DEF RunInv, RunWriteLast
  <2>5. RunWriteLast' /\ ClaimsTrue'
    BY <2>1, <2>2, <2>3, <2>4, <1>w
  <2>6. Fresh'
    BY <2>2 DEF RunInv, Fresh, NoRecord, table
  <2> QED
    BY <1>b, <1>k, <2>2, <2>5, <2>6 DEF RunInv, table
<1>12. CASE Close
  <2>1. proc = "closing" /\ proc' = "none" /\ UNCHANGED <<table, cur, plan, live, memory>>
        /\ writer = "ended"
    BY <1>12 DEF Close
  <2>2. Flow = <<>> /\ Flow' = <<>> /\ blocked' = <<>>
    BY <2>1, <1>b, NoFlow DEF Base, MemoryInv, memory, Flow
  <2>3. Fresh' /\ RunWriteLast' /\ ClaimsTrue'
    BY <2>1, <2>2, <1>f DEF RunInv, Fresh, NoRecord, RunWriteLast, ClaimsTrue, table, Done
  <2> QED
    BY <1>b, <1>k, <2>1, <2>3 DEF RunInv, table
<1>s. ASSUME NEW w \in Writes, cur \in Runs, proc \in {"running", "closing"},
             Claims(w) => Done, w.kind = "run" => proc = "closing",
             Store(w) \/ UNCHANGED table,
             UNCHANGED <<cur, proc, plan, live>>
      PROVE  /\ Fresh' /\ PlanLive' /\ Creating' /\ Settled'
             /\ runRow'[cur].status = "ENDED" =>
                  proc = "closing" /\ (~runRow'[cur].failed => Done)
  <2>1. CASE UNCHANGED table
    BY <2>1, <1>s, <1>k DEF RunInv, Fresh, NoRecord, table, ClaimsTrue
  <2>2. CASE Store(w)
    <3>1. /\ \A n \in Runs : n # cur => runRow'[n] = runRow[n] /\ rows'[n] = rows[n]
          /\ w.kind = "range" => runRow' = runRow
          /\ w.kind = "run" => runRow'[cur].status = w.status /\ runRow'[cur].failed = w.failed
      BY <2>2, <1>s, <1>b, StoreEffect
    <3>2. Fresh'
      BY <3>1, <1>s, <1>t DEF RunInv, Fresh, NoRecord, Runs
    <3>3. PlanLive' /\ Creating' /\ Settled'
      BY <1>s DEF RunInv, PlanLive, Creating, Settled
    <3>4. w.kind = "range" \/ w.kind = "run"
      BY WriteFields
    <3>5. runRow'[cur].status = "ENDED" => proc = "closing" /\ (~runRow'[cur].failed => Done)
      BY <3>1, <3>4, <1>s DEF RunInv, ClaimsTrue, Claims
    <3> QED
      BY <3>2, <3>3, <3>5
  <2> QED
    BY <1>s, <2>1, <2>2
<1>14. CASE Apply
  <2>1. batch # <<>> /\ batch' = Tail(batch) /\ queue' = queue /\ blocked' = blocked
        /\ UNCHANGED <<cur, proc, plan, live>> /\ writer = "batch"
    BY <1>14 DEF Apply
  <2>2. cur \in Runs /\ proc \in {"running", "closing"}
    BY <2>1, <1>b DEF Base, MemoryInv, TypeOK
  <2>3. Flow # <<>> /\ Head(batch) = Flow[1] /\ Flow[1] \in Writes /\ Flow' = Tail(Flow)
    BY <2>1, <1>b, ApplyFlow
  <2>4. /\ Len(Flow) \in Nat \ {0} /\ Len(Flow') = Len(Flow) - 1
        /\ \A i \in 1..(Len(Flow) - 1) : Flow'[i] = Flow[i + 1]
    BY <2>3, <1>f, Shifted
  <2>5. Store(Flow[1]) \/ UNCHANGED table
    BY <1>14, <2>3 DEF Apply
  <2>6. (Claims(Flow[1]) => Done) /\ (Flow[1].kind = "run" => proc = "closing")
    <3>1. 1 \in 1..Len(Flow)
      BY <2>4
    <3> QED
      BY <3>1 DEF RunInv, ClaimsTrue, RunWriteLast
  <2>7. /\ Fresh' /\ PlanLive' /\ Creating' /\ Settled'
        /\ runRow'[cur].status = "ENDED" => proc = "closing" /\ (~runRow'[cur].failed => Done)
    BY <2>1, <2>2, <2>3, <2>5, <2>6, <1>s
  <2>8. \A i \in 1..Len(Flow') : i + 1 \in 1..Len(Flow) /\ Flow'[i] = Flow[i + 1]
    BY <2>4
  <2>9. Done' = Done
    BY <2>1 DEF Done
  <2>10. RunWriteLast'
    <3>1. ASSUME NEW i \in 1..Len(Flow'), Flow'[i].kind = "run"
          PROVE  i = Len(Flow') /\ proc' = "closing" /\ blocked' = <<>>
      <4>1. i + 1 = Len(Flow) /\ proc = "closing" /\ blocked = <<>>
        BY <2>8, <3>1 DEF RunInv, RunWriteLast
      <4> QED
        BY <2>1, <2>4, <4>1
    <3>2. \A i \in 1..Len(blocked') : blocked'[i].kind = "run"
      BY <2>1 DEF RunInv, RunWriteLast
    <3> QED
      BY <3>1, <3>2 DEF RunWriteLast
  <2>11. ClaimsTrue'
    BY <2>1, <2>7, <2>8, <2>9 DEF RunInv, ClaimsTrue, Claims
  <2> QED
    BY <1>b, <2>7, <2>10, <2>11 DEF RunInv
<1>17. CASE ApplyCheckpoint
  <2>1. PICK r \in Recorded(ckpt) :
           Store(RangeWrite(r, ckpt[r])) \/ UNCHANGED table
    BY <1>17 DEF ApplyCheckpoint
  <2>2. r \in Ranges /\ ckpt[r] \in RangeStatus
    BY <1>b DEF Recorded, RowStatus, TypeOK
  <2>3. cur \in Runs /\ proc \in {"running", "closing"}
    BY <1>17, <1>b DEF ApplyCheckpoint, Base, MemoryInv, TypeOK
  <2>4. UNCHANGED <<cur, proc, plan, live, queue, batch, blocked>>
    BY <1>17 DEF ApplyCheckpoint
  <2>5. RangeWrite(r, ckpt[r]) \in Writes /\ RangeWrite(r, ckpt[r]).kind = "range"
    BY <2>2, WriteFields
  <2>6. /\ Fresh' /\ PlanLive' /\ Creating' /\ Settled'
        /\ runRow'[cur].status = "ENDED" => proc = "closing" /\ (~runRow'[cur].failed => Done)
    BY <2>1, <2>3, <2>4, <2>5, <1>s DEF Claims
  <2>7. RunWriteLast' /\ ClaimsTrue'
    BY <2>4, <2>6 DEF RunInv, RunWriteLast, ClaimsTrue, Flow, Done
  <2> QED
    BY <1>b, <2>6, <2>7 DEF RunInv
<1>19. CASE Receive \/ BatchDone \/ Tick \/ CheckpointDone \/ LoopEnds \/ UNCHANGED vars
  <2>1. Flow' = Flow /\ UNCHANGED <<table, cur, proc, plan, live, blocked>>
    BY <1>19, <1>b, SameFlow
  <2>2. Fresh' /\ RunWriteLast' /\ ClaimsTrue'
    BY <2>1 DEF RunInv, Fresh, NoRecord, table, RunWriteLast, ClaimsTrue, Done
  <2> QED
    BY <1>b, <1>k, <2>1, <2>2 DEF RunInv, table
<1>20. CASE Crash
  <2>1. proc' = "none" /\ EmptyMemory /\ UNCHANGED <<table, cur, plan, live>>
    BY <1>20 DEF Crash
  <2>2. Flow' = <<>> /\ blocked' = <<>>
    BY <2>1, NoFlow DEF EmptyMemory
  <2>3. Fresh' /\ RunWriteLast' /\ ClaimsTrue'
    BY <2>1, <2>2, <1>f DEF RunInv, Fresh, NoRecord, table, RunWriteLast, ClaimsTrue, Done
  <2> QED
    BY <1>b, <1>k, <2>1, <2>3 DEF RunInv, table
<1> QED
  BY <1>2, <1>3, <1>4, <1>5, <1>6, <1>7, <1>8, <1>9, <1>10, <1>11, <1>12, <1>14, <1>17, <1>19,
     <1>20
     DEF Next, WriterStep, Idle

\* A run whose row tells auto_rerun there is nothing to do has processed every range it planned,
\* none of them failed or abandoned: for every queue, batch and checkpoint, whatever crashes,
\* overflows, fails to be written or is cancelled.
THEOREM DeclinedRunsAreDone == Spec => []DeclinedRunIsDone
<1>1. Spec => []RunInv
  BY RunInvInit, RunInvNext, PTL DEF Spec
<1>2. RunInv => DeclinedRunIsDone
  <2> SUFFICES ASSUME RunInv, cur > 0, runRow[cur].status # Absent, ~IsResumable(runRow[cur])
               PROVE  Done
    BY DEF DeclinedRunIsDone, Done
  <2>1. cur \in Runs
    BY TrackerSizes DEF RunInv, Base, TypeOK, Runs
  <2> QED
    BY <2>1 DEF RunInv, ClaimsTrue, IsResumable
<1> QED
  BY <1>1, <1>2, PTL

-----------------------------------------------------------------------------
(* The rows under a terminal run row are the true outcomes.                 *)

IsRange(w, r) == w.kind = "range" /\ w.range = r

\* Applying the writes of s in order to a row that holds `old` leaves v in it.
Leaves(s, r, old, v) ==
    \/ (\A i \in 1..Len(s) : ~IsRange(s[i], r)) /\ old = v
    \/ \E i \in 1..Len(s) :
          /\ IsRange(s[i], r) /\ s[i].status = v
          /\ \A j \in (i + 1)..Len(s) : ~IsRange(s[j], r)

\* What the row of a range in this state must come to hold.
RowOf(state) == IF state = "InFlight" THEN "STARTED" ELSE state

\* As long as nothing was shed or lost, applying what is queued makes every row true.
FlowExact ==
    proc \in {"running", "closing"} /\ ~shed /\ cur \notin lost =>
        /\ NoRecord(pending) /\ NoRecord(ckpt)
        /\ \A r \in plan : Leaves(Flow, r, rows[cur][r], RowOf(live[r]))

\* A run row turns terminal with nothing left to apply.
TerminalQuiet ==
    cur \in Runs /\ Terminal(cur) /\ cur \notin aborted =>
        proc \in {"closing", "none"} /\ Flow = <<>> /\ blocked = <<>>

ExactInv == RunInv /\ FlowExact /\ TerminalQuiet /\ TerminalRowsAreExact

\* Nothing to apply leaves a row as it is.
LEMMA LeavesNothing ==
    ASSUME NEW r, NEW old, NEW v
    PROVE  Leaves(<<>>, r, old, v) <=> old = v
<1>1. Len(<<>>) = 0
  BY EmptySeq
<1> QED
  BY <1>1 DEF Leaves

\* A write at the end decides the row it is for, and no other.
LEMMA LeavesAppend ==
    ASSUME NEW W, NEW s \in Seq(W), NEW w \in W, NEW r, NEW old, NEW v
    PROVE  /\ Leaves(s, r, old, v) /\ ~IsRange(w, r) => Leaves(Append(s, w), r, old, v)
           /\ IsRange(w, r) => Leaves(Append(s, w), r, old, w.status)
<1> DEFINE t == Append(s, w)
<1>1. /\ Len(s) \in Nat /\ Len(t) = Len(s) + 1 /\ t[Len(s) + 1] = w
      /\ \A i \in 1..Len(s) : t[i] = s[i]
  BY Appended, LenProperties
<1> HIDE DEF t
<1>2. ASSUME Leaves(s, r, old, v), ~IsRange(w, r) PROVE Leaves(t, r, old, v)
  <2>1. CASE (\A i \in 1..Len(s) : ~IsRange(s[i], r)) /\ old = v
    <3>1. \A i \in 1..Len(t) : i \in 1..Len(s) \/ i = Len(s) + 1
      BY <1>1
    <3>2. \A i \in 1..Len(t) : ~IsRange(t[i], r)
      BY <3>1, <2>1, <1>1, <1>2
    <3> QED
      BY <3>2, <2>1 DEF Leaves
  <2>2. CASE \E i \in 1..Len(s) : /\ IsRange(s[i], r) /\ s[i].status = v
                                  /\ \A j \in (i + 1)..Len(s) : ~IsRange(s[j], r)
    <3>1. PICK i \in 1..Len(s) : /\ IsRange(s[i], r) /\ s[i].status = v
                                 /\ \A j \in (i + 1)..Len(s) : ~IsRange(s[j], r)
      BY <2>2
    <3>2. i \in 1..Len(t) /\ t[i] = s[i]
      BY <1>1
    <3>3. ASSUME NEW j \in (i + 1)..Len(t) PROVE ~IsRange(t[j], r)
      <4>1. (j \in (i + 1)..Len(s) /\ j \in 1..Len(s)) \/ j = Len(s) + 1
        BY <1>1
      <4> QED
        BY <4>1, <3>1, <1>1, <1>2
    <3> QED
      BY <3>1, <3>2, <3>3 DEF Leaves
  <2> QED
    BY <1>2, <2>1, <2>2 DEF Leaves
<1>3. ASSUME IsRange(w, r) PROVE Leaves(t, r, old, w.status)
  <2>1. Len(t) \in 1..Len(t) /\ t[Len(t)] = w /\ (Len(t) + 1)..Len(t) = {}
    BY <1>1
  <2> QED
    BY <2>1, <1>3 DEF Leaves
<1> QED
  BY <1>2, <1>3 DEF t

\* Applying the first write and then the others is applying them all.
LEMMA LeavesTail ==
    ASSUME NEW W, NEW s \in Seq(W), s # <<>>, NEW r, NEW old, NEW v, Leaves(s, r, old, v)
    PROVE  Leaves(Tail(s), r, IF IsRange(s[1], r) THEN s[1].status ELSE old, v)
<1> DEFINE t == Tail(s)
           now == IF IsRange(s[1], r) THEN s[1].status ELSE old
<1>1. /\ Len(s) \in Nat \ {0} /\ Len(t) = Len(s) - 1
      /\ \A i \in 1..(Len(s) - 1) : t[i] = s[i + 1]
  BY Shifted
<1> HIDE DEF t
<1>2. \A i \in 1..Len(t) : i + 1 \in 1..Len(s) /\ t[i] = s[i + 1]
  BY <1>1
<1>3. CASE (\A i \in 1..Len(s) : ~IsRange(s[i], r)) /\ old = v
  <2>1. 1 \in 1..Len(s)
    BY <1>1
  <2> QED
    BY <2>1, <1>2, <1>3 DEF Leaves, t
<1>4. CASE \E i \in 1..Len(s) : /\ IsRange(s[i], r) /\ s[i].status = v
                                /\ \A j \in (i + 1)..Len(s) : ~IsRange(s[j], r)
  <2>1. PICK i \in 1..Len(s) : /\ IsRange(s[i], r) /\ s[i].status = v
                               /\ \A j \in (i + 1)..Len(s) : ~IsRange(s[j], r)
    BY <1>4
  <2>2. CASE i = 1
    <3>1. \A j \in 1..Len(t) : j + 1 \in (i + 1)..Len(s) /\ t[j] = s[j + 1]
      BY <2>2, <1>1
    <3>2. \A j \in 1..Len(t) : ~IsRange(t[j], r)
      BY <3>1, <2>1
    <3> QED
      BY <3>2, <2>1, <2>2 DEF Leaves, t
  <2>3. CASE i # 1
    <3>1. i - 1 \in 1..Len(t) /\ t[i - 1] = s[i]
      BY <2>3, <1>1
    <3>2. \A j \in ((i - 1) + 1)..Len(t) : j + 1 \in (i + 1)..Len(s) /\ t[j] = s[j + 1]
      BY <2>3, <1>1
    <3>3. \A j \in ((i - 1) + 1)..Len(t) : ~IsRange(t[j], r)
      BY <3>2, <2>1
    <3>4. Leaves(t, r, now, v)
      BY <3>1, <3>3, <2>1 DEF Leaves
    <3> QED
      BY <3>4 DEF t
  <2> QED
    BY <2>2, <2>3
<1> QED
  BY <1>3, <1>4 DEF Leaves

\* No run has a row.
LEMMA ExactInvInit == Init => ExactInv
<1> SUFFICES ASSUME Init PROVE ExactInv
  OBVIOUS
<1>1. RunInv
  BY RunInvInit
<1> QED
  BY <1>1 DEF ExactInv, Init, FlowExact, TerminalQuiet, TerminalRowsAreExact, Runs

\* Every step keeps the rows on their way to the truth.
LEMMA ExactInvNext == ExactInv /\ [Next]_vars => ExactInv'
<1> SUFFICES ASSUME ExactInv, [Next]_vars PROVE ExactInv'
  OBVIOUS
<1>i. RunInv /\ RunInv'
  BY RunInvNext DEF ExactInv
<1>b. Base /\ TypeOK
  BY <1>i DEF RunInv, Base
<1>f. Flow \in Seq(Writes) /\ Len(Flow) \in Nat
  BY <1>b, FlowType
<1>t. /\ cur \in 0..MaxRuns /\ MaxRuns \in Nat /\ plan \subseteq Ranges
      /\ (cur > 0 <=> cur \in Runs)
      /\ live \in [Ranges -> RangeStatus \cup {Absent, "InFlight"}]
      /\ rows \in [Runs -> [Ranges -> RowStatus]]
      /\ shed \in BOOLEAN /\ lost \subseteq Runs
  BY <1>b, TrackerSizes DEF TypeOK, RowStatus, Runs
\* A run row that is terminal by the run's own word says that the run is over.
<1>q. proc \in {"create", "running"} \/ Flow # <<>> \/ blocked # <<>> =>
        ~(cur \in Runs /\ Terminal(cur) /\ cur \notin aborted)
  BY DEF ExactInv, TerminalQuiet
<1>v. ASSUME ~(cur \in Runs /\ Terminal(cur) /\ cur \notin aborted),
             UNCHANGED <<cur, runRow, aborted>>
      PROVE  TerminalQuiet' /\ TerminalRowsAreExact'
  BY <1>v, <1>t DEF TerminalQuiet, TerminalRowsAreExact, Terminal
<1>1. ASSUME NEW f \in 0..MaxRuns, NEW S, S \subseteq Ranges, Create(f, S) PROVE ExactInv'
  <2>1. proc' = "create" /\ cur' \in Runs /\ runRow'[cur'].status = "NOT_STARTED"
    BY <1>1, <1>b, CreateEffect
  <2> QED
    BY <1>i, <2>1 DEF ExactInv, FlowExact, TerminalQuiet, TerminalRowsAreExact, Terminal
<1>2. CASE StartFirstRun
  BY <1>1, <1>2, RunIsNumber DEF StartFirstRun
<1>3. ASSUME NEW n \in Runs, ResumeRun(n) PROVE ExactInv'
  BY <1>1, <1>3, <1>b, ReplannedRanges, RunIsNumber DEF ResumeRun
<1>4. ASSUME NEW n \in Runs, Cancel(n) PROVE ExactInv'
  <2>1. /\ \A m \in Runs : m # n => runRow'[m] = runRow[m]
        /\ aborted' = aborted \cup {n}
        /\ UNCHANGED <<rows, cur, proc, plan, live, memory, shed, lost>>
    BY <1>4, <1>b, RowUpdate DEF Cancel, RunStatus
  <2>2. FlowExact'
    BY <2>1 DEF ExactInv, FlowExact, Flow, NoRecord, memory
  <2>3. TerminalQuiet' /\ TerminalRowsAreExact'
    BY <2>1, <1>t DEF ExactInv, TerminalQuiet, TerminalRowsAreExact, Terminal, memory, Flow
  <2> QED
    BY <1>i, <2>2, <2>3 DEF ExactInv
<1>5. CASE InsertRange
  <2>1. proc = "create" /\ UNCHANGED <<runRow, cur, proc, history>>
    BY <1>5 DEF InsertRange
  <2> QED
    BY <2>1, <1>i, <1>q, <1>v DEF ExactInv, FlowExact, history
<1>6. CASE MarkStarted
  <2>1. cur \in Runs /\ proc = "create" /\ EmptyMemory /\ Unrecorded = {}
        /\ UNCHANGED <<rows, cur, plan, live, history>>
    BY <1>6, <1>b DEF MarkStarted, RowsWritten, Base, MemoryInv
  <2>2. runRow'[cur].status = "STARTED"
    BY <1>6, <1>b, <2>1, RowUpdate DEF MarkStarted, RunStatus
  <2>3. Flow' = <<>> /\ NoRecord(pending)' /\ NoRecord(ckpt)'
    BY <2>1, NoFlow, EmptyMemoryEffect
  <2>4. \A r \in plan : live[r] = "NOT_STARTED" /\ rows[cur][r] = "NOT_STARTED"
    BY <2>1, <1>t, <1>i DEF RunInv, Creating, PlanLive, Unrecorded
  <2>5. \A r \in plan : Leaves(<<>>, r, rows[cur][r], RowOf(live[r]))
    BY <2>4, LeavesNothing DEF RowOf
  <2>6. FlowExact'
    BY <2>1, <2>3, <2>5 DEF FlowExact
  <2> QED
    BY <1>i, <2>1, <2>2, <2>6 DEF ExactInv, TerminalQuiet, TerminalRowsAreExact, Terminal
<1>e. ASSUME NEW r \in Ranges, NEW s \in RangeStatus, Enqueue(r, s), proc = "running",
             UNCHANGED <<table, cur, proc, plan, blocked, batch, ckpt, lost, aborted>>,
             NEW v, live' = [live EXCEPT ![r] = v], RowOf(v) = s
      PROVE  ExactInv'
  <2>1. \/ shed' = shed /\ pending' = pending /\ Flow' = Append(Flow, RangeWrite(r, s))
        \/ shed' = TRUE
    BY <1>b, <1>e, EnqueueEffect
  <2>2. RangeWrite(r, s) \in Writes /\ RangeWrite(r, s).kind = "range"
        /\ RangeWrite(r, s).range = r /\ RangeWrite(r, s).status = s
    BY WriteFields
  <2>3. \A x \in Ranges : live'[x] = IF x = r THEN v ELSE live[x]
    BY <1>e, <1>t
  <2>4. FlowExact'
    <3> SUFFICES ASSUME ~shed', cur \notin lost'
                 PROVE  /\ NoRecord(pending)' /\ NoRecord(ckpt)'
                        /\ \A x \in plan : Leaves(Flow', x, rows[cur][x], RowOf(live'[x]))
      BY <1>e DEF FlowExact, table
    <3>1. ~shed /\ cur \notin lost /\ pending' = pending /\ Flow' = Append(Flow, RangeWrite(r, s))
      BY <2>1, <1>e
    <3>2. NoRecord(pending) /\ NoRecord(ckpt)
          /\ \A x \in plan : Leaves(Flow, x, rows[cur][x], RowOf(live[x]))
      BY <3>1, <1>e DEF ExactInv, FlowExact
    <3>3. ASSUME NEW x \in plan PROVE Leaves(Flow', x, rows[cur][x], RowOf(live'[x]))
      <4>1. CASE x = r
        <5>1. IsRange(RangeWrite(r, s), x) /\ RowOf(live'[x]) = RangeWrite(r, s).status
          BY <4>1, <2>2, <2>3, <1>e DEF IsRange
        <5> QED
          BY <5>1, <3>1, <2>2, <1>f, LeavesAppend
      <4>2. CASE x # r
        <5>1. ~IsRange(RangeWrite(r, s), x) /\ live'[x] = live[x]
          BY <4>2, <2>2, <2>3, <1>t DEF IsRange
        <5> QED
          BY <5>1, <3>1, <3>2, <2>2, <1>f, LeavesAppend
      <4> QED
        BY <4>1, <4>2
    <3> QED
      BY <3>1, <3>2, <3>3, <1>e DEF NoRecord
  <2> QED
    BY <1>i, <1>e, <1>q, <1>v, <2>4 DEF ExactInv, table
<1>7. ASSUME NEW r \in Ranges, StartRange(r) PROVE ExactInv'
  <2>1. RowOf("InFlight") = "STARTED" /\ "STARTED" \in RangeStatus
    BY DEF RowOf, RangeStatus
  <2> QED
    BY <1>7, <1>e, <2>1 DEF StartRange
<1>8. ASSUME NEW r \in Ranges, NEW s \in Verdicts \cup {"STARTED"}, FinishRange(r, s) PROVE ExactInv'
  <2>1. s \in RangeStatus /\ RowOf(s) = s
    BY TrackerVerdicts DEF RangeStatus, RowOf
  <2> QED
    BY <2>1, <1>8, <1>e DEF FinishRange
\* A run write at the end decides no range row.
<1>w. ASSUME NEW w \in Writes, w.kind = "run", Flow' = Append(Flow, w), proc \in {"running", "closing"},
             UNCHANGED <<rows, cur, plan, live, pending, ckpt, shed, lost>>
      PROVE  FlowExact'
  <2>1. \A r \in plan : ~IsRange(w, r)
    BY <1>w DEF IsRange
  <2>2. \A r \in plan : Leaves(Flow, r, rows[cur][r], RowOf(live[r])) =>
                        Leaves(Flow', r, rows[cur][r], RowOf(live[r]))
    BY <2>1, <1>w, <1>f, LeavesAppend
  <2> QED
    BY <2>2, <1>w DEF ExactInv, FlowExact, NoRecord
<1>9. ASSUME NEW s \in TerminalStatuses, FinishRun(s) PROVE ExactInv'
  <2>1. PICK w \in Writes :
             /\ w.kind = "run"
             /\ Flow' = Append(Flow, w) \/ Flow' = Flow
    BY <1>9, <1>i, FinishRunEffect
  <2>2. proc = "running" /\ UNCHANGED <<table, cur, plan, live, pending, ckpt, history>>
    BY <1>9 DEF FinishRun
  <2>3. FlowExact'
    <3>1. CASE Flow' = Append(Flow, w)
      BY <3>1, <2>1, <2>2, <1>w DEF table, history
    <3>2. CASE Flow' = Flow
      BY <3>2, <2>2 DEF ExactInv, FlowExact, NoRecord, table, history
    <3> QED
      BY <2>1, <3>1, <3>2
  <2> QED
    BY <1>i, <2>2, <2>3, <1>q, <1>v DEF ExactInv, table, history
<1>10. CASE AbandonRun
  <2>1. proc = "running" /\ UNCHANGED <<table, cur, plan, live, memory, history>>
    BY <1>10 DEF AbandonRun
  <2>2. FlowExact'
    BY <2>1 DEF ExactInv, FlowExact, NoRecord, table, memory, history, Flow
  <2> QED
    BY <1>i, <2>1, <2>2, <1>q, <1>v DEF ExactInv, table, history
<1>11. CASE SendBlocked
  <2>1. PICK w \in Writes : /\ w.kind = "run" /\ proc = "closing" /\ Flow' = Append(Flow, w)
    BY <1>11, <1>i, SendBlockedEffect
  <2>2. UNCHANGED <<table, cur, plan, live, pending, ckpt, history>> /\ blocked # <<>>
    BY <1>11 DEF SendBlocked
  <2>3. FlowExact'
    BY <2>1, <2>2, <1>w DEF table, history
  <2> QED
    BY <1>i, <2>2, <2>3, <1>q, <1>v DEF ExactInv, table, history
<1>12. CASE Close
  <2>1. proc' = "none" /\ UNCHANGED <<table, cur, plan, live, memory, history>>
    BY <1>12 DEF Close
  <2>2. TerminalQuiet' /\ TerminalRowsAreExact' /\ FlowExact'
    BY <2>1 DEF ExactInv, TerminalQuiet, TerminalRowsAreExact, FlowExact, Terminal, table,
                history, memory, Flow
  <2> QED
    BY <1>i, <2>2 DEF ExactInv
<1>14. CASE Apply
  <2>1. batch # <<>> /\ batch' = Tail(batch) /\ queue' = queue
        /\ UNCHANGED <<cur, proc, plan, live, blocked, pending, ckpt, shed, aborted>>
        /\ writer = "batch"
    BY <1>14 DEF Apply
  <2>2. cur \in Runs /\ proc \in {"running", "closing"}
    BY <2>1, <1>b DEF Base, MemoryInv, TypeOK
  <2> DEFINE w == Flow[1]
  <2>3. Flow # <<>> /\ Head(batch) = w /\ w \in Writes /\ Flow' = Tail(Flow)
    BY <2>1, <1>b, ApplyFlow
  <2>4. Len(Flow) \in Nat \ {0} /\ Len(Flow') = Len(Flow) - 1 /\ Flow' \in Seq(Writes)
    BY <2>3, <1>f, Shifted
  <2>5. \/ Store(w) /\ lost' = lost
        \/ lost' = lost \cup {cur} /\ UNCHANGED table
    BY <1>14, <2>3 DEF Apply
  <2> HIDE DEF w
  <2>6. CASE lost' = lost \cup {cur} /\ UNCHANGED table
    BY <2>6, <2>1, <2>3, <1>i, <1>q, <1>v DEF ExactInv, FlowExact, table
  <2>7. CASE Store(w) /\ lost' = lost
    <3>1. /\ w.kind = "range" => runRow' = runRow
          /\ \A r \in Ranges : rows'[cur][r] =
                IF w.kind = "range" /\ w.range = r THEN w.status ELSE rows[cur][r]
      BY <2>7, <2>2, <2>3, <1>b, StoreEffect
    <3>2. FlowExact'
      <4> SUFFICES ASSUME ~shed', cur \notin lost'
                   PROVE  /\ NoRecord(pending)' /\ NoRecord(ckpt)'
                          /\ \A x \in plan : Leaves(Flow', x, rows'[cur][x], RowOf(live[x]))
        BY <2>1 DEF FlowExact
      <4>1. NoRecord(pending) /\ NoRecord(ckpt)
            /\ \A x \in plan : Leaves(Flow, x, rows[cur][x], RowOf(live[x]))
        BY <2>1, <2>2, <2>7 DEF ExactInv, FlowExact
      <4>2. ASSUME NEW x \in plan PROVE Leaves(Flow', x, rows'[cur][x], RowOf(live[x]))
        <5>1. rows'[cur][x] = IF IsRange(Flow[1], x) THEN Flow[1].status ELSE rows[cur][x]
          BY <3>1, <1>t DEF IsRange, w
        <5>2. Leaves(Tail(Flow), x, IF IsRange(Flow[1], x) THEN Flow[1].status ELSE rows[cur][x],
                     RowOf(live[x]))
          BY <4>1, <2>3, <1>f, LeavesTail
        <5> QED
          BY <5>1, <5>2, <2>3
      <4> QED
        BY <4>1, <4>2, <2>1 DEF NoRecord
    <3>3. CASE w.kind = "range"
      BY <3>1, <3>2, <3>3, <2>1, <2>3, <1>i, <1>q, <1>v DEF ExactInv
    <3>4. CASE w.kind = "run"
      <4>1. 1 \in 1..Len(Flow)
        BY <2>4
      <4>2. Len(Flow) = 1 /\ proc = "closing" /\ blocked = <<>>
        BY <4>1, <3>4, <1>i DEF RunInv, RunWriteLast, w
      <4>3. Flow' = <<>>
        BY <4>2, <2>4, EmptySeq
      <4>4. ASSUME ~shed, cur \notin lost, NEW r \in plan PROVE rows'[cur][r] = live[r]
        <5>1. Leaves(<<>>, r, rows'[cur][r], RowOf(live[r]))
          BY <3>2, <4>2, <4>3, <4>4, <2>1, <2>7 DEF FlowExact
        <5>2. live[r] # "InFlight"
          BY <4>2, <1>i DEF RunInv, Settled
        <5> QED
          BY <5>1, <5>2, LeavesNothing DEF RowOf
      <4>5. TerminalQuiet' /\ TerminalRowsAreExact'
        BY <4>2, <4>3, <4>4, <2>1, <2>7 DEF TerminalQuiet, TerminalRowsAreExact
      <4> QED
        BY <1>i, <3>2, <4>5 DEF ExactInv
    <3> QED
      BY <3>3, <3>4, <2>3, WriteFields
  <2> QED
    BY <2>5, <2>6, <2>7
<1>17. CASE ApplyCheckpoint
  <2>1. PICK r \in Recorded(ckpt) :
           \/ Store(RangeWrite(r, ckpt[r])) /\ UNCHANGED lost
           \/ lost' = lost \cup {cur} /\ UNCHANGED table
    BY <1>17 DEF ApplyCheckpoint
  <2>2. r \in Ranges /\ ckpt[r] \in RangeStatus /\ ckpt[r] # Absent
    BY <1>b DEF Recorded, RowStatus, TypeOK
  <2>3. cur \in Runs /\ proc \in {"running", "closing"}
    BY <1>17, <1>b DEF ApplyCheckpoint, Base, MemoryInv, TypeOK
  <2>4. UNCHANGED <<cur, proc, plan, live, queue, batch, blocked, shed, aborted>>
    BY <1>17 DEF ApplyCheckpoint
  <2>5. shed \/ cur \in lost
    BY <2>2, <2>3 DEF ExactInv, FlowExact, NoRecord
  <2>6. RangeWrite(r, ckpt[r]) \in Writes /\ RangeWrite(r, ckpt[r]).kind = "range"
    BY <2>2, WriteFields
  <2>7. runRow' = runRow /\ (shed' \/ cur \in lost')
    BY <2>1, <2>3, <2>4, <2>5, <2>6, <1>b, <1>t, StoreEffect DEF table
  <2>8. FlowExact' /\ TerminalQuiet' /\ TerminalRowsAreExact'
    BY <2>4, <2>7 DEF ExactInv, FlowExact, TerminalQuiet, TerminalRowsAreExact, Terminal, Flow
  <2> QED
    BY <1>i, <2>8 DEF ExactInv
<1>19. CASE Receive \/ BatchDone \/ Tick \/ CheckpointDone \/ LoopEnds \/ UNCHANGED vars
  <2>1. /\ Flow' = Flow /\ UNCHANGED <<table, cur, proc, plan, live, blocked, history>>
        /\ NoRecord(pending) /\ NoRecord(ckpt) => NoRecord(pending)' /\ NoRecord(ckpt)'
    BY <1>19, <1>b, SameFlow
  <2>2. FlowExact' /\ TerminalQuiet' /\ TerminalRowsAreExact'
    BY <2>1 DEF ExactInv, FlowExact, TerminalQuiet, TerminalRowsAreExact, Terminal, table, history
  <2> QED
    BY <1>i, <2>2 DEF ExactInv
<1>20. CASE Crash
  <2>1. /\ proc' = "none" /\ EmptyMemory /\ lost \subseteq lost'
        /\ UNCHANGED <<table, cur, plan, live, shed, aborted>>
    BY <1>20 DEF Crash
  <2>2. Flow' = <<>> /\ blocked' = <<>>
    BY <2>1, NoFlow DEF EmptyMemory
  <2>3. FlowExact' /\ TerminalQuiet' /\ TerminalRowsAreExact'
    BY <2>1, <2>2 DEF ExactInv, FlowExact, TerminalQuiet, TerminalRowsAreExact, Terminal, table,
                      history
  <2> QED
    BY <1>i, <2>3 DEF ExactInv
<1> QED
  BY <1>2, <1>3, <1>4, <1>5, <1>6, <1>7, <1>8, <1>9, <1>10, <1>11, <1>12, <1>14, <1>17, <1>19,
     <1>20
     DEF Next, WriterStep, Idle

\* The moment a run row turns terminal by the run's own word, the range rows are the true
\* outcomes, unless the queue overflowed or a tracking write failed.
THEOREM TerminalRowsExact == Spec => []TerminalRowsAreExact
<1>1. Spec => []ExactInv
  BY ExactInvInit, ExactInvNext, PTL DEF Spec
<1>2. ExactInv => TerminalRowsAreExact
  BY DEF ExactInv
<1> QED
  BY <1>1, <1>2, PTL

-----------------------------------------------------------------------------
(* No range is forgotten by a chain of runs.                                *)

\* Some run completed the range, or its row makes a resume plan it again.
Kept(r, s) == r \in finished \/ s \in PendingStatus

\* The range list of a run that got as far as STARTED names every range not completed since.
Listed(n) ==
    \/ n <= cur /\ runRow[n].status # Absent /\ runRow[n].status # "NOT_STARTED"
    \/ n = cur /\ proc \in {"running", "closing"}
RowsKept == \A n \in Runs : Listed(n) => \A r \in Ranges : Kept(r, rows[n][r])

\* A run being created plans every range not completed, and says NOT_STARTED until all are listed.
CreateKeeps ==
    proc = "create" =>
        /\ runRow[cur].status = "NOT_STARTED"
        /\ \A r \in Ranges : r \in finished \/ r \in plan

\* No write under way takes a range off the list before it is completed.
WritesKeep ==
    /\ \A i \in 1..Len(Flow) : Flow[i].kind = "range" => Kept(Flow[i].range, Flow[i].status)
    /\ \A r \in Ranges : /\ pending[r] # Absent => Kept(r, pending[r])
                         /\ ckpt[r] # Absent => Kept(r, ckpt[r])

KeepInv == RunInv /\ RowsKept /\ CreateKeeps /\ WritesKeep

\* A non-empty set of naturals up to c has a greatest element.
LEMMA HasGreatest ==
    ASSUME NEW c \in Nat, NEW S, S \subseteq 1..c, S # {}
    PROVE  \E n \in S : \A m \in S : m <= n
<1> DEFINE T == {c - m : m \in S}
<1>1. T \subseteq Nat /\ T # {}
  <2>1. \A m \in S : c - m \in Nat
    OBVIOUS
  <2> QED
    BY <2>1
<1> HIDE DEF T
<1>2. PICK x \in T : \A y \in T : <<y, x>> \notin OpToRel(<, Nat)
  BY <1>1, WFMin, NatLessThanWellFounded, Zenon
<1>3. \A y \in T : ~(y < x)
  BY <1>1, <1>2, Zenon DEF OpToRel
<1>4. PICK n \in S : x = c - n
  BY DEF T
<1>5. \A m \in S : c - m \in T
  BY DEF T
<1>6. \A m \in S : m <= n
  <2> SUFFICES ASSUME NEW m \in S PROVE m <= n
    OBVIOUS
  <2>1. ~(c - m < c - n)
    BY <1>3, <1>4, <1>5
  <2> QED
    BY <2>1
<1> QED
  BY <1>6

\* What an unrestricted resume plans again is what is pending.
LEMMA RerunIsPending ==
    ASSUME NEW b, ~b, NEW s
    PROVE  Disposition(b, s) = "Rerun" <=> s \in PendingStatus
BY DEF Disposition, Rerunnable, PendingStatus

\* No run yet.
LEMMA KeepInvInit == Init => KeepInv
<1> SUFFICES ASSUME Init PROVE KeepInv
  OBVIOUS
<1>1. RunInv
  BY RunInvInit
<1>2. Flow = <<>> /\ Len(<<>>) = 0
  BY <1>1, NoFlow, EmptySeq DEF Init, RunInv
<1> QED
  BY <1>1, <1>2 DEF KeepInv, Init, RowsKept, Listed, CreateKeeps, WritesKeep, Runs

\* Every step keeps every range on the list, as long as nobody cancels a run half created and no
\* counter range is quarantined.
LEMMA KeepInvNext ==
    ASSUME Cancellable = {}, ~CounterRun
    PROVE  KeepInv /\ [Next]_vars => KeepInv'
<1> SUFFICES ASSUME KeepInv, [Next]_vars PROVE KeepInv'
  OBVIOUS
<1>i. RunInv /\ RunInv'
  BY RunInvNext DEF KeepInv
<1>b. Base /\ TypeOK
  BY <1>i DEF RunInv, Base
<1>f. Flow \in Seq(Writes) /\ Len(Flow) \in Nat /\ Len(<<>>) = 0
  BY <1>b, FlowType, EmptySeq
<1>t. /\ cur \in 0..MaxRuns /\ MaxRuns \in Nat /\ plan \subseteq Ranges
      /\ rows \in [Runs -> [Ranges -> RowStatus]] /\ finished \subseteq Ranges
      /\ \A n \in Runs : n \in Nat
  BY <1>b, TrackerSizes DEF TypeOK, RowStatus, Runs
<1>0. RowsKept /\ CreateKeeps /\ WritesKeep
  BY DEF KeepInv
<1>k. ASSUME finished \subseteq finished', UNCHANGED <<runRow, rows, cur>>,
             proc' = proc \/ proc' = "none" \/ (proc' = "closing" /\ proc = "running")
      PROVE  RowsKept'
  BY <1>0, <1>k DEF RowsKept, Kept, Listed
<1>1. ASSUME NEW f \in 0..MaxRuns, NEW S, S \subseteq Ranges, Create(f, S),
             \A r \in Ranges : r \in finished \/ r \in S
      PROVE  KeepInv'
  <2>1. /\ proc = "none" /\ proc' = "create" /\ cur' = cur + 1 /\ cur' \in Runs /\ plan' = S
        /\ runRow'[cur'].status = "NOT_STARTED"
        /\ \A n \in Runs : n # cur' => runRow'[n] = runRow[n]
        /\ UNCHANGED <<rows, memory, finished>>
    BY <1>1, <1>b, CreateEffect
  <2>2. RowsKept'
    <3> SUFFICES ASSUME NEW n \in Runs, Listed(n)', NEW r \in Ranges
                 PROVE  Kept(r, rows[n][r])
      BY <2>1 DEF RowsKept, Kept
    <3>1. n # cur' /\ n <= cur + 1
      BY <2>1 DEF Listed
    <3>2. n <= cur
      BY <3>1, <2>1, <1>t
    <3>3. runRow'[n] = runRow[n] /\ ~(proc' \in {"running", "closing"})
      BY <3>1, <2>1
    <3>4. Listed(n)
      BY <3>2, <3>3 DEF Listed
    <3> QED
      BY <3>4, <1>0 DEF RowsKept
  <2>3. CreateKeeps'
    BY <2>1, <1>1 DEF CreateKeeps
  <2>4. WritesKeep'
    BY <2>1, <1>0 DEF WritesKeep, memory, Flow, Kept
  <2> QED
    BY <1>i, <2>2, <2>3, <2>4 DEF KeepInv
<1>2. CASE StartFirstRun
  BY <1>1, <1>2, RunIsNumber DEF StartFirstRun
<1>3. ASSUME NEW n \in Runs, ResumeRun(n) PROVE KeepInv'
  <2> DEFINE S == Replanned(rows[n], CounterRun)
  <2>1. Create(n, S) /\ ~IsFallback(runRow[n], rows[n]) /\ n \in 1..cur
    BY <1>3 DEF ResumeRun, PreviousRuns
  <2>2. S \subseteq Ranges /\ \A r \in Ranges : r \in S <=>
           rows[n][r] # Absent /\ Disposition(CounterRun, rows[n][r]) = "Rerun"
    BY <1>b, ReplannedRanges
  <2> HIDE DEF S
  <2>3. \A r \in Ranges : Kept(r, rows[n][r])
    BY <2>1, <1>0, <1>t DEF RowsKept, Listed, IsFallback
  <2>4. ASSUME NEW r \in Ranges PROVE r \in finished \/ r \in S
    <3>1. CASE rows[n][r] \in PendingStatus
      <4>1. rows[n][r] # Absent
        BY <3>1 DEF PendingStatus, Absent
      <4>2. Disposition(CounterRun, rows[n][r]) = "Rerun"
        BY <3>1, RerunIsPending
      <4> QED
        BY <4>1, <4>2, <2>2
    <3> QED
      BY <3>1, <2>3 DEF Kept
  <2> QED
    BY <1>1, <2>1, <2>2, <2>4, RunIsNumber
<1>5. CASE InsertRange
  <2>1. PICK r \in Unrecorded : rows' = [rows EXCEPT ![cur][r] = "NOT_STARTED"]
    BY <1>5 DEF InsertRange
  <2>2. cur \in Runs /\ r \in Ranges /\ proc = "create"
    BY <1>5, <1>b, <1>t DEF InsertRange, Base, MemoryInv, Unrecorded
  <2>3. UNCHANGED <<runRow, cur, proc, plan, memory, finished>>
    BY <1>5 DEF InsertRange, history
  <2>4. \A n \in Runs : n # cur => rows'[n] = rows[n]
    BY <1>t, <2>1, <2>2
  <2>5. runRow[cur].status = "NOT_STARTED"
    BY <2>2, <1>0 DEF CreateKeeps
  <2>6. RowsKept'
    BY <2>2, <2>3, <2>4, <2>5, <1>0 DEF RowsKept, Kept, Listed
  <2>7. CreateKeeps' /\ WritesKeep'
    BY <2>3, <1>0 DEF CreateKeeps, WritesKeep, memory, Flow, Kept
  <2> QED
    BY <1>i, <2>6, <2>7 DEF KeepInv
<1>6. CASE MarkStarted
  <2>1. cur \in Runs /\ proc = "create" /\ proc' = "running" /\ EmptyMemory /\ Unrecorded = {}
        /\ UNCHANGED <<rows, cur, plan, live, finished>>
    BY <1>6, <1>b DEF MarkStarted, RowsWritten, Base, MemoryInv, history
  <2>2. \A m \in Runs : m # cur => runRow'[m] = runRow[m]
    BY <1>6, <1>b, <2>1, RowUpdate DEF MarkStarted, RunStatus
  <2>3. Flow' = <<>> /\ NoRecord(pending)' /\ NoRecord(ckpt)'
    BY <2>1, NoFlow, EmptyMemoryEffect
  <2>4. \A r \in plan : rows[cur][r] = "NOT_STARTED"
    BY <2>1, <1>t, <1>i DEF RunInv, Creating, Unrecorded
  <2>5. \A r \in Ranges : Kept(r, rows[cur][r])
    BY <2>1, <2>4, <1>0 DEF CreateKeeps, Kept, PendingStatus
  <2>6. RowsKept'
    BY <2>1, <2>2, <2>5, <1>0 DEF RowsKept, Kept, Listed
  <2>7. CreateKeeps' /\ WritesKeep'
    BY <2>1, <2>3, <1>f DEF CreateKeeps, WritesKeep, NoRecord
  <2> QED
    BY <1>i, <2>6, <2>7 DEF KeepInv
<1>e. ASSUME NEW r \in Ranges, NEW s \in RangeStatus, Enqueue(r, s), proc = "running",
             UNCHANGED <<table, cur, proc, plan, batch, ckpt>>,
             finished \subseteq finished', r \in finished' \/ s \in PendingStatus
      PROVE  KeepInv'
  <2>1. \/ pending' = pending /\ Flow' = Append(Flow, RangeWrite(r, s))
        \/ Flow' = Flow /\ \A x \in Ranges : pending'[x] = IF x = r THEN s ELSE pending[x]
    BY <1>b, <1>e, EnqueueEffect
  <2>2. RangeWrite(r, s) \in Writes
        /\ RangeWrite(r, s).range = r /\ RangeWrite(r, s).status = s
    BY WriteFields
  <2> DEFINE K(x, v) == x \in finished' \/ v \in PendingStatus
  <2>3. K(r, s) /\ \A x, v : Kept(x, v) => K(x, v)
    BY <1>e DEF Kept
  <2> HIDE DEF K
  <2>4. \A i \in 1..Len(Flow') : Flow'[i].kind = "range" => K(Flow'[i].range, Flow'[i].status)
    <3>1. CASE Flow' = Flow
      BY <3>1, <2>3, <1>0 DEF WritesKeep
    <3>2. CASE Flow' = Append(Flow, RangeWrite(r, s))
      <4>1. /\ Len(Flow') = Len(Flow) + 1 /\ Flow'[Len(Flow) + 1] = RangeWrite(r, s)
            /\ \A i \in 1..Len(Flow) : Flow'[i] = Flow[i]
        BY <3>2, <2>2, <1>f, Appended
      <4>2. \A i \in 1..Len(Flow') : i \in 1..Len(Flow) \/ i = Len(Flow) + 1
        BY <4>1, <1>f
      <4> QED
        BY <4>1, <4>2, <2>2, <2>3, <1>0 DEF WritesKeep
    <3> QED
      BY <2>1, <3>1, <3>2
  <2>5. \A x \in Ranges : /\ pending'[x] # Absent => K(x, pending'[x])
                          /\ ckpt'[x] # Absent => K(x, ckpt'[x])
    BY <2>1, <2>3, <1>e, <1>0 DEF WritesKeep
  <2>6. WritesKeep'
    BY <2>4, <2>5 DEF WritesKeep, Kept, K
  <2>7. RowsKept' /\ CreateKeeps'
    BY <1>e, <1>k DEF CreateKeeps, table
  <2> QED
    BY <1>i, <2>6, <2>7 DEF KeepInv
<1>7. ASSUME NEW r \in Ranges, StartRange(r) PROVE KeepInv'
  BY <1>7, <1>e DEF StartRange, RangeStatus, PendingStatus
<1>8. ASSUME NEW r \in Ranges, NEW s \in Verdicts \cup {"STARTED"}, FinishRange(r, s) PROVE KeepInv'
  <2>1. s \in RangeStatus /\ (s \in Clean \/ s \in PendingStatus)
    BY TrackerVerdicts DEF RangeStatus, Clean, PendingStatus
  <2>2. finished \subseteq finished' /\ (r \in finished' \/ s \in PendingStatus)
    BY <2>1, <1>8 DEF FinishRange
  <2> QED
    BY <2>1, <2>2, <1>8, <1>e DEF FinishRange
\* The run write takes no range off the list.
<1>w. ASSUME NEW w \in Writes, w.kind = "run", Flow' = Append(Flow, w),
             UNCHANGED <<table, cur, plan, pending, ckpt, finished>>, proc' = "closing",
             proc \in {"running", "closing"}
      PROVE  RowsKept' /\ CreateKeeps' /\ WritesKeep'
  <2>1. /\ Len(Flow') = Len(Flow) + 1 /\ Flow'[Len(Flow) + 1] = w
        /\ \A i \in 1..Len(Flow) : Flow'[i] = Flow[i]
    BY <1>w, <1>f, Appended
  <2>2. \A i \in 1..Len(Flow') : i \in 1..Len(Flow) \/ i = Len(Flow) + 1
    BY <2>1, <1>f
  <2>3. WritesKeep'
    BY <2>1, <2>2, <1>w, <1>0 DEF WritesKeep, Kept
  <2> QED
    BY <2>3, <1>w, <1>k DEF CreateKeeps, table
<1>h. ASSUME Flow' = Flow, UNCHANGED <<table, cur, plan, finished>>,
             proc' = proc \/ proc' = "none" \/ (proc' = "closing" /\ proc = "running"),
             \A r \in Ranges : {pending'[r], ckpt'[r]} \subseteq {pending[r], ckpt[r], Absent}
      PROVE  RowsKept' /\ CreateKeeps' /\ WritesKeep'
  BY <1>h, <1>k, <1>0 DEF CreateKeeps, WritesKeep, Kept, table
<1>9. ASSUME NEW s \in TerminalStatuses, FinishRun(s) PROVE KeepInv'
  <2>1. PICK w \in Writes :
             /\ w.kind = "run"
             /\ Flow' = Append(Flow, w) \/ Flow' = Flow
    BY <1>9, <1>i, FinishRunEffect
  <2>2. proc = "running" /\ proc' = "closing"
        /\ UNCHANGED <<table, cur, plan, pending, ckpt, finished>>
    BY <1>9 DEF FinishRun, history
  <2> QED
    BY <1>i, <2>1, <2>2, <1>w, <1>h DEF KeepInv
<1>10. CASE AbandonRun
  BY <1>10, <1>i, <1>h DEF KeepInv, AbandonRun, memory, history, Flow
<1>11. CASE SendBlocked
  <2>1. PICK w \in Writes : /\ w.kind = "run" /\ proc = "closing" /\ Flow' = Append(Flow, w)
    BY <1>11, <1>i, SendBlockedEffect
  <2>2. proc' = "closing" /\ UNCHANGED <<table, cur, plan, pending, ckpt, finished>>
    BY <1>11, <2>1 DEF SendBlocked, history
  <2> QED
    BY <1>i, <2>1, <2>2, <1>w DEF KeepInv
<1>12. CASE Close
  BY <1>12, <1>i, <1>h DEF KeepInv, Close, memory, history, Flow
\* A write that keeps its range on the list may be stored, or lost.
<1>s. ASSUME NEW w \in Writes, cur \in Runs, proc \in {"running", "closing"},
             w.kind = "range" => Kept(w.range, w.status),
             Store(w) \/ UNCHANGED table,
             UNCHANGED <<cur, proc, plan, finished>>
      PROVE  RowsKept' /\ CreateKeeps'
  <2>1. CASE UNCHANGED table
    BY <2>1, <1>s, <1>k DEF CreateKeeps, table
  <2>2. CASE Store(w)
    <3>1. /\ \A n \in Runs : n # cur => runRow'[n] = runRow[n] /\ rows'[n] = rows[n]
          /\ w.kind = "range" => runRow' = runRow
          /\ w.kind = "run" => rows' = rows
          /\ \A r \in Ranges : rows'[cur][r] =
                IF w.kind = "range" /\ w.range = r THEN w.status ELSE rows[cur][r]
      BY <2>2, <1>s, <1>b, StoreEffect
    <3>2. \A r \in Ranges : Kept(r, rows[cur][r])
      BY <1>s, <1>0 DEF RowsKept, Listed
    <3>3. \A r \in Ranges : Kept(r, rows'[cur][r])
      BY <3>1, <3>2, <1>s
    <3>4. RowsKept'
      BY <3>1, <3>3, <1>s, <1>0 DEF RowsKept, Kept, Listed
    <3> QED
      BY <3>4, <1>s DEF CreateKeeps
  <2> QED
    BY <1>s, <2>1, <2>2
<1>14. CASE Apply
  <2>1. batch # <<>> /\ batch' = Tail(batch) /\ queue' = queue
        /\ UNCHANGED <<cur, proc, plan, pending, ckpt, finished>> /\ writer = "batch"
    BY <1>14 DEF Apply
  <2>2. cur \in Runs /\ proc \in {"running", "closing"}
    BY <2>1, <1>b DEF Base, MemoryInv, TypeOK
  <2>3. Flow # <<>> /\ Head(batch) = Flow[1] /\ Flow[1] \in Writes /\ Flow' = Tail(Flow)
    BY <2>1, <1>b, ApplyFlow
  <2>4. /\ Len(Flow) \in Nat \ {0} /\ Len(Flow') = Len(Flow) - 1
        /\ \A i \in 1..(Len(Flow) - 1) : Flow'[i] = Flow[i + 1]
    BY <2>3, <1>f, Shifted
  <2>5. Store(Flow[1]) \/ UNCHANGED table
    BY <1>14, <2>3 DEF Apply
  <2>6. 1 \in 1..Len(Flow) /\ \A i \in 1..Len(Flow') : i + 1 \in 1..Len(Flow) /\ Flow'[i] = Flow[i + 1]
    BY <2>4
  <2>7. Flow[1].kind = "range" => Kept(Flow[1].range, Flow[1].status)
    BY <2>6, <1>0 DEF WritesKeep
  <2>8. RowsKept' /\ CreateKeeps'
    BY <2>1, <2>2, <2>3, <2>5, <2>7, <1>s
  <2>9. WritesKeep'
    BY <2>1, <2>6, <1>0 DEF WritesKeep, Kept
  <2> QED
    BY <1>i, <2>8, <2>9 DEF KeepInv
<1>17. CASE ApplyCheckpoint
  <2>1. PICK r \in Recorded(ckpt) :
           /\ ckpt' = [ckpt EXCEPT ![r] = Absent]
           /\ Store(RangeWrite(r, ckpt[r])) \/ UNCHANGED table
    BY <1>17 DEF ApplyCheckpoint
  <2>2. r \in Ranges /\ ckpt[r] \in RangeStatus /\ ckpt[r] # Absent /\ ckpt \in [Ranges -> RowStatus]
    BY <1>b DEF Recorded, RowStatus, TypeOK
  <2>3. cur \in Runs /\ proc \in {"running", "closing"}
    BY <1>17, <1>b DEF ApplyCheckpoint, Base, MemoryInv, TypeOK
  <2>4. UNCHANGED <<cur, proc, plan, queue, batch, pending, finished>>
    BY <1>17 DEF ApplyCheckpoint
  <2>5. RangeWrite(r, ckpt[r]) \in Writes /\ RangeWrite(r, ckpt[r]).range = r
        /\ RangeWrite(r, ckpt[r]).status = ckpt[r]
    BY <2>2, WriteFields
  <2>6. Kept(r, ckpt[r])
    BY <2>2, <1>0 DEF WritesKeep
  <2>7. RowsKept' /\ CreateKeeps'
    BY <2>1, <2>3, <2>4, <2>5, <2>6, <1>s
  <2>8. \A x \in Ranges : ckpt'[x] = ckpt[x] \/ ckpt'[x] = Absent
    BY <2>1, <2>2
  <2>9. WritesKeep'
    BY <2>4, <2>8, <1>0 DEF WritesKeep, Kept, Flow
  <2> QED
    BY <1>i, <2>7, <2>9 DEF KeepInv
<1>19. CASE Receive \/ BatchDone \/ Tick \/ CheckpointDone \/ LoopEnds \/ UNCHANGED vars
  <2>1. /\ Flow' = Flow /\ UNCHANGED <<table, cur, proc, plan, live, blocked, history>>
        /\ \A r \in Ranges : {pending'[r], ckpt'[r]} \subseteq {pending[r], ckpt[r], Absent}
    BY <1>19, <1>b, SameFlow
  <2> QED
    BY <1>i, <1>h, <2>1 DEF KeepInv, history
<1>20. CASE Crash
  <2>1. proc' = "none" /\ EmptyMemory /\ UNCHANGED <<table, cur, plan, finished>>
    BY <1>20 DEF Crash, history
  <2>2. Flow' = <<>> /\ NoRecord(pending)' /\ NoRecord(ckpt)'
    BY <2>1, NoFlow, EmptyMemoryEffect
  <2>3. WritesKeep' /\ CreateKeeps'
    BY <2>1, <2>2, <1>f DEF WritesKeep, CreateKeeps, NoRecord
  <2> QED
    BY <1>i, <1>k, <2>1, <2>3 DEF KeepInv, table
<1> QED
  BY <1>2, <1>3, <1>5, <1>6, <1>7, <1>8, <1>9, <1>10, <1>11, <1>12, <1>14, <1>17, <1>19, <1>20
     DEF Next, WriterStep, Idle, Cancel

\* The newest run whose range list a resume trusts still names every range that no run completed:
\* wherever the process crashed, whatever write overflowed or failed, whichever run was resumed -
\* for a table without counters, and as long as no run is cancelled while create_run lists it.
THEOREM NothingIsForgotten ==
    ASSUME Cancellable = {}, ~CounterRun
    PROVE  Spec => []NothingForgotten
<1>1. Spec => []KeepInv
  BY KeepInvInit, KeepInvNext, PTL DEF Spec
<1>2. KeepInv => NothingForgotten
  <2> SUFFICES ASSUME KeepInv, Trusted # {}, NEW r \in Ranges, r \notin finished
               PROVE  Disposition(FALSE, rows[Newest(Trusted)][r]) = "Rerun"
    BY DEF NothingForgotten
  <2> DEFINE n == Newest(Trusted)
  <2>1. cur \in 0..MaxRuns /\ MaxRuns \in Nat /\ cur \in Nat
    BY TrackerSizes DEF KeepInv, RunInv, Base, TypeOK
  <2>2. \E x \in Trusted : \A m \in Trusted : m <= x
    BY <2>1, HasGreatest DEF Trusted
  <2>3. n \in Trusted
    BY <2>2 DEF Newest
  <2> HIDE DEF n
  <2>4. n \in Runs /\ Listed(n)
    BY <2>1, <2>3 DEF Trusted, Runs, Listed, IsFallback
  <2>5. rows[n][r] \in PendingStatus
    BY <2>4 DEF KeepInv, RowsKept, Kept
  <2> QED
    BY <2>5, RerunIsPending DEF n
<1> QED
  BY <1>1, <1>2, PTL

-----------------------------------------------------------------------------
(* A counter range is begun again only for one of two reasons.              *)

\* A write for the range is queued, shed or being applied.
Carried(r) ==
    \/ \E i \in 1..Len(Flow) : IsRange(Flow[i], r)
    \/ pending[r] # Absent \/ ckpt[r] # Absent

\* Only runs that exist began a range, and the newest has not begun what it lists as not started.
BegunByRuns ==
    \A r \in Ranges : begun[r] \subseteq 1..cur /\ (live[r] = "NOT_STARTED" => cur \notin begun[r])

\* The row of a range that a run began says so, or is about to, or the run lost the write.
BegunIsRecorded ==
    \A r \in Ranges : \A n \in begun[r] :
        rows[n][r] = "NOT_STARTED" => n \in lost \/ (n = cur /\ Carried(r))

\* No write sets a range back to NOT_STARTED.
NoReset ==
    /\ \A i \in 1..Len(Flow) : Flow[i].kind = "range" => Flow[i].status # "NOT_STARTED"
    /\ \A r \in Ranges : pending[r] # "NOT_STARTED" /\ ckpt[r] # "NOT_STARTED"

\* Run m began the range, or it or a resume of it may still begin it.
MayBegin(r, m) == m \in begun[r] \/ rows[m][r] = "NOT_STARTED" \/ (m = cur /\ r \in plan)
Excused(n, m, r) == LeftNoTrace(n, r) \/ PassedOver(n, m)
ReplaysExcused ==
    \A r \in Ranges : \A m \in 1..cur : \A n \in begun[r] :
        n < m /\ MayBegin(r, m) => Excused(n, m, r)

ReplayInv == RunInv /\ BegunByRuns /\ BegunIsRecorded /\ NoReset /\ ReplaysExcused

\* A restricted resume plans only what no run began.
LEMMA RestrictedRerun ==
    ASSUME NEW b, b, NEW s, Disposition(b, s) = "Rerun"
    PROVE  s = "NOT_STARTED"
BY DEF Disposition, Rerunnable, PendingStatus

\* Nothing was begun.
LEMMA ReplayInvInit == Init => ReplayInv
<1> SUFFICES ASSUME Init PROVE ReplayInv
  OBVIOUS
<1>1. RunInv
  BY RunInvInit
<1>2. Flow = <<>> /\ Len(<<>>) = 0
  BY <1>1, NoFlow, EmptySeq DEF Init, RunInv
<1>3. BegunByRuns /\ BegunIsRecorded /\ ReplaysExcused
  BY DEF Init, BegunByRuns, BegunIsRecorded, ReplaysExcused
<1>4. NoReset
  BY <1>2 DEF NoReset, Init, Absent
<1> QED
  BY <1>1, <1>3, <1>4 DEF ReplayInv

\* An excuse stays one: rows of older runs, lost writes and prev_run_ids are permanent.
LEMMA ExcuseStays ==
    ASSUME NEW r \in Ranges, NEW n \in Nat, NEW m \in Nat, Excused(n, m, r),
           rows'[n] = rows[n], lost \subseteq lost',
           \A k \in (n + 1)..m : previous'[k] = previous[k]
    PROVE  Excused(n, m, r)'
BY DEF Excused, LeftNoTrace, PassedOver

\* A step of the newest run begins only what is planned, and keeps the other runs' rows.
LEMMA ReplaysStayExcused ==
    ASSUME ReplaysExcused, Base, UNCHANGED <<cur, plan, previous>>,
           lost \subseteq lost',
           \A n \in Runs : n # cur => rows'[n] = rows[n],
           \A r \in Ranges : cur \in Runs /\ rows'[cur][r] = "NOT_STARTED" =>
                              rows[cur][r] = "NOT_STARTED" \/ r \in plan,
           \A r \in Ranges : begun'[r] = begun[r] \/ (r \in plan /\ begun'[r] = begun[r] \cup {cur})
    PROVE  ReplaysExcused'
<1> SUFFICES ASSUME NEW r \in Ranges, NEW m \in 1..cur, NEW n \in begun'[r], n < m, MayBegin(r, m)'
             PROVE  Excused(n, m, r)'
  BY DEF ReplaysExcused
<1>1. cur \in 0..MaxRuns /\ MaxRuns \in Nat /\ m \in Nat /\ m \in Runs
  BY TrackerSizes DEF Base, TypeOK, Runs
<1>2. begun[r] \subseteq Runs
  BY DEF Base, TypeOK
<1>3. n \in begun[r]
  BY <1>1
<1>4. n \in Runs /\ n \in Nat /\ n # cur
  BY <1>1, <1>2, <1>3 DEF Runs
<1>5. MayBegin(r, m)
  <2>1. CASE m = cur
    BY <2>1, <1>1 DEF MayBegin
  <2>2. CASE m # cur
    BY <2>2, <1>1 DEF MayBegin
  <2> QED
    BY <2>1, <2>2
<1>6. Excused(n, m, r)
  BY <1>3, <1>5 DEF ReplaysExcused
<1> QED
  BY <1>1, <1>4, <1>6, ExcuseStays

\* Every step of a chain of runs over a counter table plans a begun range again for one of the
\* two reasons only.
LEMMA ReplayInvNext ==
    ASSUME CounterRun
    PROVE  ReplayInv /\ [Next]_vars => ReplayInv'
<1> SUFFICES ASSUME ReplayInv, [Next]_vars PROVE ReplayInv'
  OBVIOUS
<1>i. RunInv /\ RunInv'
  BY RunInvNext DEF ReplayInv
<1>b. Base /\ TypeOK
  BY <1>i DEF RunInv, Base
<1>f. Flow \in Seq(Writes) /\ Len(Flow) \in Nat /\ Len(<<>>) = 0
  BY <1>b, FlowType, EmptySeq
<1>t. /\ cur \in 0..MaxRuns /\ MaxRuns \in Nat /\ plan \subseteq Ranges
      /\ rows \in [Runs -> [Ranges -> RowStatus]] /\ begun \in [Ranges -> SUBSET Runs]
      /\ live \in [Ranges -> RangeStatus \cup {Absent, "InFlight"}]
      /\ previous \in [Runs -> 0..MaxRuns]
  BY <1>b, TrackerSizes DEF TypeOK, RowStatus
<1>0. BegunByRuns /\ BegunIsRecorded /\ NoReset /\ ReplaysExcused
  BY DEF ReplayInv
<1>n. ASSUME writer = "ended" PROVE \A r \in Ranges : ~Carried(r)
  <2>1. Flow = <<>> /\ NoRecord(pending) /\ NoRecord(ckpt)
    BY <1>n, <1>b, NoFlow DEF Base, MemoryInv
  <2> QED
    BY <2>1, <1>f DEF Carried, NoRecord
\* A new run has begun nothing, and may begin a range only if its replay is excused.
<1>1. ASSUME NEW f \in 0..MaxRuns, NEW S, S \subseteq Ranges, Create(f, S),
             \A r \in S : \A n \in begun[r] : Excused(n, cur, r)'
      PROVE  ReplayInv'
  <2>1. /\ proc = "none" /\ cur' = cur + 1 /\ cur' \in Runs /\ plan' = S
        /\ \A n \in Runs : n # cur' => previous'[n] = previous[n]
        /\ UNCHANGED <<rows, memory, begun, lost>>
    BY <1>1, <1>b, CreateEffect
  <2>2. NoRecord(rows[cur'])
    BY <2>1, <1>t, <1>i DEF RunInv, Fresh
  <2>3. \A r \in Ranges : begun[r] \subseteq 1..cur'
    BY <2>1, <1>t, <1>0 DEF BegunByRuns
  <2>4. \A r \in Ranges : cur' \notin begun[r]
    BY <2>1, <1>t, <1>0 DEF BegunByRuns
  <2>5. BegunByRuns'
    BY <2>1, <2>3, <2>4 DEF BegunByRuns
  <2>6. \A r \in Ranges : ~Carried(r)
    BY <2>1, <1>b, <1>n DEF Base, MemoryInv
  <2>7. BegunIsRecorded'
    BY <2>1, <2>6, <1>0 DEF BegunIsRecorded
  <2>8. NoReset'
    BY <2>1, <1>0 DEF NoReset, memory, Flow
  <2>9. ReplaysExcused'
    <3> SUFFICES ASSUME NEW r \in Ranges, NEW m \in 1..(cur + 1), NEW n \in begun[r],
                        n < m, MayBegin(r, m)'
                 PROVE  Excused(n, m, r)'
      BY <2>1 DEF ReplaysExcused
    <3>1. CASE m = cur'
      BY <3>1, <2>1, <2>2, <2>4, <1>1 DEF MayBegin, NoRecord, Absent
    <3>2. CASE m # cur'
      <4>1. m \in 1..cur /\ m \in Nat /\ n \in Nat
        BY <3>2, <2>1, <1>t, <1>0 DEF BegunByRuns
      <4>2. MayBegin(r, m)
        BY <3>2, <2>1 DEF MayBegin
      <4>3. Excused(n, m, r)
        BY <4>1, <4>2, <1>0 DEF ReplaysExcused
      <4>4. \A k \in (n + 1)..m : previous'[k] = previous[k]
        <5>1. \A k \in (n + 1)..m : k \in Runs /\ k # cur'
          BY <4>1, <2>1, <1>t DEF Runs
        <5> QED
          BY <5>1, <2>1
      <4> QED
        BY <4>1, <4>3, <4>4, <2>1, ExcuseStays
    <3> QED
      BY <3>1, <3>2
  <2> QED
    BY <1>i, <2>5, <2>7, <2>8, <2>9 DEF ReplayInv
<1>2. CASE StartFirstRun
  <2>1. cur = 0 /\ Create(0, Ranges)
    BY <1>2 DEF StartFirstRun
  <2>2. \A r \in Ranges : begun[r] = {}
    BY <2>1, <1>0 DEF BegunByRuns
  <2> QED
    BY <1>1, <2>1, <2>2, RunIsNumber
\* A resume of f plans what f lists as not started: an earlier run n that began it is f itself,
\* which left no trace, or younger than f and passed over, or was excused when f was planned.
<1>3. ASSUME NEW f \in Runs, ResumeRun(f) PROVE ReplayInv'
  <2> DEFINE S == Replanned(rows[f], CounterRun)
  <2>1. Create(f, S) /\ f \in 1..cur /\ proc = "none"
    BY <1>3 DEF ResumeRun, PreviousRuns, Create
  <2>2. S \subseteq Ranges /\ \A r \in Ranges : r \in S =>
           Disposition(CounterRun, rows[f][r]) = "Rerun"
    BY <1>b, ReplannedRanges
  <2> HIDE DEF S
  <2>3. \A r \in S : rows[f][r] = "NOT_STARTED"
    BY <2>2, RestrictedRerun
  <2>4. \A r \in Ranges : ~Carried(r)
    BY <2>1, <1>b, <1>n DEF Base, MemoryInv
  <2>5. /\ cur' = cur + 1 /\ cur + 1 \in Runs /\ previous'[cur + 1] = f
        /\ \A n \in Runs : n # cur + 1 => previous'[n] = previous[n]
        /\ UNCHANGED <<rows, lost>>
    BY <2>1, <2>2, <1>b, CreateEffect, RunIsNumber
  <2>6. ASSUME NEW r \in S, NEW n \in begun[r] PROVE Excused(n, cur, r)'
    <3>1. r \in Ranges /\ n \in 1..cur /\ n \in Nat /\ n \in Runs /\ f \in Nat /\ cur \in Nat
      BY <2>1, <2>2, <1>t, <1>0 DEF BegunByRuns, Runs
    <3>2. CASE n = f
      <4>1. n \in lost
        BY <3>1, <3>2, <2>3, <2>4, <1>0 DEF BegunIsRecorded
      <4> QED
        BY <4>1, <3>2, <2>3, <2>5 DEF Excused, LeftNoTrace
    <3>3. CASE f < n
      <4>1. cur + 1 \in (n + 1)..(cur + 1)
        BY <3>1
      <4> QED
        BY <4>1, <3>3, <2>5 DEF Excused, PassedOver
    <3>4. CASE n < f
      <4>1. Excused(n, f, r)
        BY <3>1, <3>4, <2>1, <2>3, <1>0 DEF ReplaysExcused, MayBegin
      <4>2. \A k \in (n + 1)..f : k \in (n + 1)..(cur + 1) /\ k \in Runs /\ k # cur + 1
        BY <3>1, <2>1, <1>t DEF Runs
      <4>3. \A k \in (n + 1)..f : previous'[k] = previous[k]
        BY <4>2, <2>5
      <4>4. Excused(n, f, r)'
        BY <4>1, <4>3, <3>1, <2>5, ExcuseStays
      <4> QED
        BY <4>2, <4>4, <2>5 DEF Excused, PassedOver
    <3> QED
      BY <3>1, <3>2, <3>3, <3>4
  <2> QED
    BY <1>1, <2>1, <2>2, <2>6, RunIsNumber
\* Steps that begin nothing, keep the rows and lose no write unless they say so.
<1>h. ASSUME UNCHANGED <<rows, previous, cur, plan, live, begun>>,
             lost \subseteq lost',
             \A r \in Ranges : Carried(r) => Carried(r)' \/ cur \in lost'
      PROVE  BegunByRuns' /\ BegunIsRecorded' /\ ReplaysExcused'
  <2>1. BegunByRuns' /\ BegunIsRecorded'
    BY <1>h, <1>0 DEF BegunByRuns, BegunIsRecorded
  <2>2. ReplaysExcused'
    BY <1>h, <1>0, <1>b, ReplaysStayExcused
  <2> QED
    BY <2>1, <2>2
<1>4. ASSUME NEW n \in Runs, Cancel(n) PROVE ReplayInv'
  <2>1. UNCHANGED <<rows, previous, cur, plan, live, begun, memory, lost>>
    BY <1>4 DEF Cancel
  <2>2. NoReset' /\ \A r \in Ranges : Carried(r) => Carried(r)'
    BY <2>1, <1>0 DEF NoReset, Carried, memory, Flow
  <2> QED
    BY <1>i, <1>h, <2>1, <2>2 DEF ReplayInv
<1>5. CASE InsertRange
  <2>1. PICK r \in Unrecorded : rows' = [rows EXCEPT ![cur][r] = "NOT_STARTED"]
    BY <1>5 DEF InsertRange
  <2>2. cur \in Runs /\ r \in Ranges /\ r \in plan /\ proc = "create"
    BY <1>5, <1>b, <1>t DEF InsertRange, Base, MemoryInv, Unrecorded
  <2>3. UNCHANGED <<previous, cur, plan, live, begun, memory, lost>>
    BY <1>5 DEF InsertRange, history
  <2>4. /\ \A x \in Ranges : x # r => rows'[cur][x] = rows[cur][x]
        /\ \A n \in Runs : n # cur => rows'[n] = rows[n]
    BY <1>t, <2>1, <2>2
  <2>5. cur \notin begun[r]
    BY <2>2, <1>i, <1>0 DEF RunInv, PlanLive, Creating, BegunByRuns
  <2>6. BegunIsRecorded'
    <3> SUFFICES ASSUME NEW x \in Ranges, NEW n \in begun[x], rows'[n][x] = "NOT_STARTED"
                 PROVE  n \in lost \/ (n = cur /\ Carried(x)')
      BY <2>3 DEF BegunIsRecorded
    <3>1. rows[n][x] = "NOT_STARTED"
      BY <2>4, <2>5, <1>t
    <3> QED
      BY <3>1, <2>3, <1>0 DEF BegunIsRecorded, Carried, memory, Flow
  <2>7. BegunByRuns' /\ NoReset'
    BY <2>3, <1>0 DEF BegunByRuns, NoReset, memory, Flow
  <2>8. ReplaysExcused'
    BY <2>2, <2>3, <2>4, <1>0, <1>b, ReplaysStayExcused
  <2> QED
    BY <1>i, <2>6, <2>7, <2>8 DEF ReplayInv
<1>z. ASSUME EmptyMemory PROVE NoReset'
  <2>1. Flow' = <<>> /\ NoRecord(pending)' /\ NoRecord(ckpt)'
    BY <1>z, NoFlow, EmptyMemoryEffect
  <2> QED
    BY <2>1, <1>f DEF NoReset, NoRecord, Absent
<1>6. CASE MarkStarted
  <2>1. /\ proc = "create" /\ EmptyMemory
        /\ UNCHANGED <<rows, previous, cur, plan, live, begun, lost>>
    BY <1>6 DEF MarkStarted, RowsWritten, history
  <2>2. \A r \in Ranges : ~Carried(r)
    BY <2>1, <1>b, <1>n DEF Base, MemoryInv
  <2> QED
    BY <1>i, <1>h, <1>z, <2>1, <2>2 DEF ReplayInv
<1>e. ASSUME NEW r \in Ranges, NEW s \in RangeStatus, s # "NOT_STARTED", Enqueue(r, s),
             UNCHANGED <<batch, ckpt>>
      PROVE  NoReset' /\ Carried(r)' /\ \A x \in Ranges : Carried(x) => Carried(x)'
  <2>1. \/ pending' = pending /\ Flow' = Append(Flow, RangeWrite(r, s))
        \/ Flow' = Flow /\ \A x \in Ranges : pending'[x] = IF x = r THEN s ELSE pending[x]
    BY <1>b, <1>e, EnqueueEffect
  <2>2. RangeWrite(r, s) \in Writes /\ IsRange(RangeWrite(r, s), r)
        /\ RangeWrite(r, s).status = s
    BY WriteFields DEF IsRange
  <2>3. s # Absent
    BY TrackerVerdicts DEF RangeStatus, Absent
  <2>4. CASE Flow' = Flow /\ \A x \in Ranges : pending'[x] = IF x = r THEN s ELSE pending[x]
    BY <2>3, <2>4, <1>e, <1>0 DEF NoReset, Carried
  <2>5. CASE pending' = pending /\ Flow' = Append(Flow, RangeWrite(r, s))
    <3>1. /\ Len(Flow') = Len(Flow) + 1 /\ Flow'[Len(Flow) + 1] = RangeWrite(r, s)
          /\ \A i \in 1..Len(Flow) : Flow'[i] = Flow[i]
      BY <2>5, <2>2, <1>f, Appended
    <3>2. /\ \A i \in 1..Len(Flow') : i \in 1..Len(Flow) \/ i = Len(Flow) + 1
          /\ Len(Flow) + 1 \in 1..Len(Flow') /\ \A i \in 1..Len(Flow) : i \in 1..Len(Flow')
      BY <3>1, <1>f
    <3>3. NoReset'
      BY <3>1, <3>2, <2>2, <2>5, <1>e, <1>0 DEF NoReset
    <3>4. Carried(r)' /\ \A x \in Ranges : Carried(x) => Carried(x)'
      BY <3>1, <3>2, <2>2, <2>5, <1>e DEF Carried
    <3> QED
      BY <3>3, <3>4
  <2> QED
    BY <2>1, <2>4, <2>5
<1>7. ASSUME NEW r \in Ranges, StartRange(r) PROVE ReplayInv'
  <2>1. /\ live[r] = "NOT_STARTED" /\ proc = "running" /\ Enqueue(r, "STARTED") /\ r \in plan
        /\ live' = [live EXCEPT ![r] = "InFlight"] /\ begun' = [begun EXCEPT ![r] = @ \cup {cur}]
        /\ UNCHANGED <<rows, previous, cur, plan, batch, ckpt, lost>>
    BY <1>7 DEF StartRange, table
  <2>2. NoReset' /\ Carried(r)' /\ \A x \in Ranges : Carried(x) => Carried(x)'
    BY <2>1, <1>e DEF RangeStatus
  <2>3. begun'[r] = begun[r] \cup {cur} /\ live'[r] = "InFlight"
        /\ \A x \in Ranges : x # r => begun'[x] = begun[x] /\ live'[x] = live[x]
    BY <2>1, <1>t
  <2>4. cur \in 1..cur
    BY <2>1, <1>b, TrackerSizes DEF Base, MemoryInv, Runs
  <2>5. BegunByRuns'
    BY <2>1, <2>3, <2>4, <1>0 DEF BegunByRuns
  <2>6. BegunIsRecorded'
    BY <2>1, <2>2, <2>3, <1>0 DEF BegunIsRecorded
  <2>7. ReplaysExcused'
    BY <2>1, <2>3, <1>0, <1>b, ReplaysStayExcused
  <2> QED
    BY <1>i, <2>2, <2>5, <2>6, <2>7 DEF ReplayInv
<1>8. ASSUME NEW r \in Ranges, NEW s \in Verdicts \cup {"STARTED"}, FinishRange(r, s)
      PROVE  ReplayInv'
  <2>1. /\ Enqueue(r, s) /\ live' = [live EXCEPT ![r] = s]
        /\ UNCHANGED <<rows, previous, cur, plan, batch, ckpt, begun, lost>>
    BY <1>8 DEF FinishRange, table
  <2>2. s \in RangeStatus /\ s # "NOT_STARTED"
    BY TrackerVerdicts DEF RangeStatus
  <2>3. NoReset' /\ \A x \in Ranges : Carried(x) => Carried(x)'
    BY <2>1, <2>2, <1>e
  <2>4. \A x \in Ranges : live'[x] = "NOT_STARTED" => live[x] = "NOT_STARTED"
    BY <2>1, <2>2, <1>t
  <2>5. BegunByRuns' /\ BegunIsRecorded'
    BY <2>1, <2>3, <2>4, <1>0 DEF BegunByRuns, BegunIsRecorded
  <2>6. ReplaysExcused'
    BY <2>1, <1>0, <1>b, ReplaysStayExcused
  <2> QED
    BY <1>i, <2>3, <2>5, <2>6 DEF ReplayInv
\* A run write joins the queue.
<1>w. ASSUME NEW w \in Writes, w.kind = "run", Flow' = Append(Flow, w), UNCHANGED <<pending, ckpt>>
      PROVE  NoReset' /\ \A x \in Ranges : Carried(x) => Carried(x)'
  <2>1. /\ Len(Flow') = Len(Flow) + 1 /\ Flow'[Len(Flow) + 1] = w
        /\ \A i \in 1..Len(Flow) : Flow'[i] = Flow[i]
    BY <1>w, <1>f, Appended
  <2>2. /\ \A i \in 1..Len(Flow') : i \in 1..Len(Flow) \/ i = Len(Flow) + 1
        /\ \A i \in 1..Len(Flow) : i \in 1..Len(Flow')
    BY <2>1, <1>f
  <2> QED
    BY <2>1, <2>2, <1>w, <1>0 DEF NoReset, Carried
<1>g. ASSUME Flow' = Flow, UNCHANGED <<pending, ckpt>>
      PROVE  NoReset' /\ \A x \in Ranges : Carried(x) => Carried(x)'
  BY <1>g, <1>0 DEF NoReset, Carried
<1>9. ASSUME NEW s \in TerminalStatuses, FinishRun(s) PROVE ReplayInv'
  <2>1. PICK w \in Writes :
             /\ w.kind = "run"
             /\ Flow' = Append(Flow, w) \/ Flow' = Flow
    BY <1>9, <1>i, FinishRunEffect
  <2>2. UNCHANGED <<rows, previous, cur, plan, live, begun, pending, ckpt, lost>>
    BY <1>9 DEF FinishRun, table, history
  <2>3. NoReset' /\ \A x \in Ranges : Carried(x) => Carried(x)'
    BY <2>1, <2>2, <1>w, <1>g
  <2> QED
    BY <1>i, <1>h, <2>2, <2>3 DEF ReplayInv
<1>10. CASE AbandonRun \/ Close
  <2>1. UNCHANGED <<rows, previous, cur, plan, live, begun, queue, batch, pending, ckpt, lost>>
    BY <1>10 DEF AbandonRun, Close, table, history, memory
  <2>2. NoReset' /\ \A x \in Ranges : Carried(x) => Carried(x)'
    BY <2>1, <1>g DEF Flow
  <2> QED
    BY <1>i, <1>h, <2>1, <2>2 DEF ReplayInv
<1>11. CASE SendBlocked
  <2>1. PICK w \in Writes : /\ w.kind = "run" /\ Flow' = Append(Flow, w)
    BY <1>11, <1>i, SendBlockedEffect
  <2>2. UNCHANGED <<rows, previous, cur, plan, live, begun, pending, ckpt, lost>>
    BY <1>11 DEF SendBlocked, table, history
  <2>3. NoReset' /\ \A x \in Ranges : Carried(x) => Carried(x)'
    BY <2>1, <2>2, <1>w
  <2> QED
    BY <1>i, <1>h, <2>2, <2>3 DEF ReplayInv
<1>14. CASE Apply
  <2>1. batch # <<>> /\ batch' = Tail(batch) /\ queue' = queue /\ writer = "batch"
        /\ UNCHANGED <<previous, cur, plan, live, pending, ckpt, begun>>
    BY <1>14 DEF Apply
  <2>2. cur \in Runs
    BY <2>1, <1>b DEF Base, MemoryInv, TypeOK
  <2>3. Flow # <<>> /\ Head(batch) = Flow[1] /\ Flow[1] \in Writes /\ Flow' = Tail(Flow)
    BY <2>1, <1>b, ApplyFlow
  <2>4. /\ Len(Flow) \in Nat \ {0} /\ Len(Flow') = Len(Flow) - 1
        /\ \A i \in 1..(Len(Flow) - 1) : Flow'[i] = Flow[i + 1]
    BY <2>3, <1>f, Shifted
  <2>5. /\ 1 \in 1..Len(Flow)
        /\ \A i \in 1..Len(Flow') : i + 1 \in 1..Len(Flow) /\ Flow'[i] = Flow[i + 1]
        /\ \A i \in 1..Len(Flow) : i = 1 \/ (i - 1 \in 1..Len(Flow') /\ Flow'[i - 1] = Flow[i])
    BY <2>4
  <2>6. NoReset'
    BY <2>1, <2>5, <1>0 DEF NoReset
  <2>7. CASE lost' = lost \cup {cur} /\ UNCHANGED table
    BY <2>1, <2>6, <2>7, <1>h, <1>i DEF ReplayInv, table
  <2>8. CASE Store(Head(batch)) /\ lost' = lost
    <3>1. /\ \A r \in Ranges : rows'[cur][r] =
                IF IsRange(Flow[1], r) THEN Flow[1].status ELSE rows[cur][r]
          /\ \A n \in Runs : n # cur => rows'[n] = rows[n]
      BY <2>8, <2>2, <2>3, <1>b, StoreEffect DEF IsRange
    <3>2. \A r \in Ranges : rows'[cur][r] = "NOT_STARTED" =>
            ~IsRange(Flow[1], r) /\ rows[cur][r] = "NOT_STARTED"
      BY <3>1, <2>5, <1>0 DEF NoReset, IsRange
    <3>3. \A r \in Ranges : Carried(r) /\ ~IsRange(Flow[1], r) => Carried(r)'
      BY <2>1, <2>5 DEF Carried
    <3>4. BegunIsRecorded'
      <4> SUFFICES ASSUME NEW r \in Ranges, NEW n \in begun[r], rows'[n][r] = "NOT_STARTED"
                   PROVE  n \in lost \/ (n = cur /\ Carried(r)')
        BY <2>1, <2>8 DEF BegunIsRecorded
      <4>1. rows[n][r] = "NOT_STARTED" /\ (n = cur => ~IsRange(Flow[1], r))
        BY <3>1, <3>2, <1>t
      <4> QED
        BY <4>1, <3>3, <1>0 DEF BegunIsRecorded
    <3>5. BegunByRuns'
      BY <2>1, <1>0 DEF BegunByRuns
    <3>6. ReplaysExcused'
      BY <2>1, <2>8, <3>1, <3>2, <1>0, <1>b, ReplaysStayExcused
    <3> QED
      BY <1>i, <2>6, <3>4, <3>5, <3>6 DEF ReplayInv
  <2> QED
    BY <1>14, <2>7, <2>8 DEF Apply
<1>17. CASE ApplyCheckpoint
  <2>1. PICK r \in Recorded(ckpt) :
           /\ ckpt' = [ckpt EXCEPT ![r] = Absent]
           /\ \/ Store(RangeWrite(r, ckpt[r])) /\ lost' = lost
              \/ lost' = lost \cup {cur} /\ UNCHANGED table
    BY <1>17 DEF ApplyCheckpoint
  <2>2. r \in Ranges /\ ckpt[r] \in RangeStatus /\ ckpt \in [Ranges -> RowStatus]
    BY <1>b DEF Recorded, RowStatus, TypeOK
  <2>3. cur \in Runs
    BY <1>17, <1>b DEF ApplyCheckpoint, Base, MemoryInv, TypeOK
  <2>4. UNCHANGED <<previous, cur, plan, live, queue, batch, pending, begun>>
    BY <1>17 DEF ApplyCheckpoint
  <2>5. RangeWrite(r, ckpt[r]) \in Writes /\ RangeWrite(r, ckpt[r]).kind = "range"
        /\ RangeWrite(r, ckpt[r]).range = r /\ RangeWrite(r, ckpt[r]).status = ckpt[r]
    BY <2>2, WriteFields
  <2>6. \A x \in Ranges : ckpt'[x] = IF x = r THEN Absent ELSE ckpt[x]
    BY <2>1, <2>2
  <2>7. NoReset'
    BY <2>4, <2>6, <1>0 DEF NoReset, Flow, Absent
  <2>8. CASE lost' = lost \cup {cur} /\ UNCHANGED table
    BY <2>4, <2>7, <2>8, <1>h, <1>i DEF ReplayInv, table
  <2>9. CASE Store(RangeWrite(r, ckpt[r])) /\ lost' = lost
    <3>1. /\ \A x \in Ranges : rows'[cur][x] = IF x = r THEN ckpt[r] ELSE rows[cur][x]
          /\ \A n \in Runs : n # cur => rows'[n] = rows[n]
      BY <2>9, <2>3, <2>5, <1>b, StoreEffect
    <3>2. \A x \in Ranges : rows'[cur][x] = "NOT_STARTED" =>
            x # r /\ rows[cur][x] = "NOT_STARTED"
      BY <3>1, <2>2, <1>0 DEF NoReset
    <3>3. \A x \in Ranges : Carried(x) /\ x # r => Carried(x)'
      BY <2>4, <2>6 DEF Carried, Flow
    <3>4. BegunIsRecorded'
      <4> SUFFICES ASSUME NEW x \in Ranges, NEW n \in begun[x], rows'[n][x] = "NOT_STARTED"
                   PROVE  n \in lost \/ (n = cur /\ Carried(x)')
        BY <2>4, <2>9 DEF BegunIsRecorded
      <4>1. rows[n][x] = "NOT_STARTED" /\ (n = cur => x # r)
        BY <3>1, <3>2, <1>t
      <4> QED
        BY <4>1, <3>3, <1>0 DEF BegunIsRecorded
    <3>5. BegunByRuns'
      BY <2>4, <1>0 DEF BegunByRuns
    <3>6. ReplaysExcused'
      BY <2>4, <2>9, <3>1, <3>2, <1>0, <1>b, ReplaysStayExcused
    <3> QED
      BY <1>i, <2>7, <3>4, <3>5, <3>6 DEF ReplayInv
  <2> QED
    BY <2>1, <2>8, <2>9
<1>19. CASE Receive \/ BatchDone \/ Tick \/ CheckpointDone \/ LoopEnds \/ UNCHANGED vars
  <2>1. /\ Flow' = Flow /\ UNCHANGED <<rows, cur, plan, live, begun, lost>>
        /\ \A r \in Ranges : {pending'[r], ckpt'[r]} \subseteq {pending[r], ckpt[r], Absent}
        /\ \A r \in Ranges : pending[r] # Absent \/ ckpt[r] # Absent =>
                             pending'[r] # Absent \/ ckpt'[r] # Absent
    BY <1>19, <1>b, SameFlow DEF table, history
  <2>2. previous' = previous
    BY <1>19 DEF Receive, BatchDone, Tick, CheckpointDone, LoopEnds, vars
  <2>3. NoReset' /\ \A x \in Ranges : Carried(x) => Carried(x)'
    BY <2>1, <1>0 DEF NoReset, Carried, Absent
  <2> QED
    BY <1>i, <1>h, <2>1, <2>2, <2>3 DEF ReplayInv
<1>20. CASE Crash
  <2>1. /\ EmptyMemory /\ lost' = IF Unwritten THEN lost \cup {cur} ELSE lost
        /\ UNCHANGED <<rows, previous, cur, plan, live, begun>>
    BY <1>20 DEF Crash, table
  <2>2. ASSUME NEW r \in Ranges, Carried(r) PROVE Unwritten
    <3>1. CASE pending[r] # Absent \/ ckpt[r] # Absent
      BY <3>1, <1>b DEF Unwritten, Recorded, TypeOK
    <3>2. CASE queue # <<>> \/ batch # <<>>
      BY <3>2 DEF Unwritten
    <3>3. queue = <<>> /\ batch = <<>> => Len(Flow) = 0
      BY DEF Flow
    <3> QED
      BY <2>2, <3>1, <3>2, <3>3 DEF Carried
  <2>3. lost \subseteq lost' /\ \A r \in Ranges : Carried(r) => Carried(r)' \/ cur \in lost'
    BY <2>1, <2>2
  <2> QED
    BY <1>i, <1>h, <1>z, <2>1, <2>3 DEF ReplayInv
<1> QED
  BY <1>2, <1>3, <1>4, <1>5, <1>6, <1>7, <1>8, <1>9, <1>10, <1>11, <1>14, <1>17, <1>19, <1>20
     DEF Next, WriterStep, Idle

\* DST-015, through crashes, lost writes, full queues, cancellations and resumes of any run: a
\* range of a counter table that run n began is begun by a later run only when n lost a
\* tracking write, at the store or with its process, and left the row at NOT_STARTED, or when a resume named a run older than n.
THEOREM CounterRangesNeverReplayed == Spec => []NeverReplayed
<1>1. CASE CounterRun
  <2>1. Spec => []ReplayInv
    BY <1>1, ReplayInvInit, ReplayInvNext, PTL DEF Spec
  <2>2. ReplayInv => NeverReplayed
    BY DEF ReplayInv, BegunByRuns, ReplaysExcused, MayBegin, Excused, NeverReplayed
  <2> QED
    BY <2>1, <2>2, PTL
<1>2. CASE ~CounterRun
  <2>1. NeverReplayed
    BY <1>2 DEF NeverReplayed
  <2> QED
    BY <2>1, PTL
<1> QED
  BY <1>1, <1>2
=============================================================================
