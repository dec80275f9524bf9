------------------------- MODULE GuardrailJobProofs --------------------------
(***************************************************************************)
(* Proofs about the guardrail job, for every set of ranges, every table     *)
(* behind them, every number of read slots and every retry limit.  Three    *)
(* invariants: what was handed over lies behind the paging state (PageInv), *)
(* the slots add up, and every page behind the scan is counted, at hand or  *)
(* known to be lost (TruthInv).                                             *)
(***************************************************************************)
EXTENDS GuardrailJob, FiniteSetTheorems, TLAPS

-----------------------------------------------------------------------------
\* While a scan may still ask for a page, the page it asks for and those behind it have not been
\* handed over.  A finished scan asks only when its last page could not be decoded.
Ahead(t, pages) == (t.finished => t.attempts > 0) => \A p \in pages : p < t.paging
Unserved == \A r \in Ranges : Ahead(task[r], served[r])

\* Only the last page finishes a scan.
FinishedAtTheEnd == \A r \in Ranges : task[r].finished => task[r].paging = NumPages(r)

PageInv == TypeOK /\ FinishedAtTheEnd /\ Unserved /\ NoPageTwice

\* The pages of a range are those of one of the tables.
LEMMA PagesOfTables ==
    ASSUME table \in Tables, NEW r \in Ranges
    PROVE  /\ NumPages(r) \in Nat \ {0}
           /\ \A p \in 1..NumPages(r) : table[r][p] \in Seq(Nat)
BY GuardrailTables, NoEmptyScan DEF NumPages

\* No page was asked for yet.
LEMMA PageInvInit == Init => PageInv
<1> SUFFICES ASSUME Init PROVE PageInv
  OBVIOUS
<1>1. \A r \in Ranges : NumPages(r) \in Nat \ {0}
  BY PagesOfTables DEF Init
<1>2. NewTask \in Tasks
  BY GuardrailSizes DEF NewTask, Tasks
<1>3. \A r \in Ranges : task[r] = NewTask /\ served[r] = {} /\ repeated[r] = {}
  BY DEF Init
<1>4. TypeOK
  <2>1. task \in [Ranges -> Tasks] /\ \A r \in Ranges : task[r].paging <= NumPages(r)
    BY <1>1, <1>2, <1>3 DEF Init, NewTask
  <2>2. {served, repeated, undecoded} \subseteq [Ranges -> SUBSET Nat]
    BY DEF Init
  <2> QED
    BY <2>1, <2>2, GuardrailSizes DEF Init, TypeOK
<1> QED
  BY <1>3, <1>4 DEF PageInv, NewTask, FinishedAtTheEnd, Unserved, Ahead, NoPageTwice

\* The scan after its response came in.
LEMMA MovedTask ==
    ASSUME PageInv, NEW r \in Ranges
    PROVE  LET t == Moved(r) IN
           /\ t \in Tasks
           /\ t.attempts = task[r].attempts
           /\ t.paging <= NumPages(r) /\ (t.finished => t.paging = NumPages(r))
           /\ t.paging >= task[r].paging /\ (~t.finished => t.paging > task[r].paging)
<1>1. NumPages(r) \in Nat \ {0} /\ task[r] \in Tasks /\ task[r].paging <= NumPages(r)
  BY PagesOfTables DEF PageInv, TypeOK
<1>2. task[r].paging \in Nat \ {0} /\ task[r].finished \in BOOLEAN
  BY <1>1 DEF Tasks
<1>3. task[r].finished => task[r].paging = NumPages(r)
  BY DEF PageInv, FinishedAtTheEnd
<1>4. CASE task[r].paging = NumPages(r)
  <2> DEFINE t == [task[r] EXCEPT !.finished = TRUE]
  <2>1. t \in Tasks
    BY <1>1 DEF Tasks
  <2>2. t.attempts = task[r].attempts /\ t.paging = task[r].paging /\ t.finished
    BY <1>1 DEF Tasks
  <2>3. Moved(r) = t
    BY <1>4 DEF Moved
  <2> QED
    BY <1>2, <1>4, <2>1, <2>2, <2>3
<1>5. CASE task[r].paging # NumPages(r)
  <2> DEFINE t == [task[r] EXCEPT !.paging = task[r].paging + 1]
  <2>1. t \in Tasks
    BY <1>1, <1>2, SMTT(30) DEF Tasks
  <2>2. t.attempts = task[r].attempts /\ t.paging = task[r].paging + 1 /\ t.finished = task[r].finished
    BY <1>1 DEF Tasks
  <2>3. Moved(r) = t
    BY <1>5 DEF Moved
  <2>4. ~task[r].finished
    BY <1>3, <1>5
  <2> QED
    BY <1>1, <1>2, <1>5, <2>1, <2>2, <2>3, <2>4
<1> QED
  BY <1>4, <1>5

\* What a step of a scan does to the range's task and pages.
LEMMA ScanMoves ==
    ASSUME PageInv, NEW r \in Ranges, Scan(r)
    PROVE  \E t \in Tasks, pages \in SUBSET Nat :
             /\ task' = [task EXCEPT ![r] = t]
             /\ served' = [served EXCEPT ![r] = pages]
             /\ repeated' = repeated
             /\ t.paging <= NumPages(r)
             /\ t.finished => t.paging = NumPages(r)
             /\ Ahead(t, pages)
<1>1. /\ NumPages(r) \in Nat \ {0}
      /\ \A p \in 1..NumPages(r) : table[r][p] \in Seq(Nat)
  BY PagesOfTables DEF PageInv, TypeOK
<1>2. /\ task[r] \in Tasks /\ task[r].paging <= NumPages(r) /\ served[r] \in SUBSET Nat
      /\ task[r].finished => task[r].paging = NumPages(r)
      /\ Ahead(task[r], served[r])
      /\ repeated[r] = {}
      /\ task \in [Ranges -> Tasks] /\ served \in [Ranges -> SUBSET Nat]
      /\ repeated \in [Ranges -> SUBSET Nat]
  BY DEF PageInv, TypeOK, FinishedAtTheEnd, Unserved, NoPageTwice
<1>3. served = [served EXCEPT ![r] = served[r]]
  BY <1>2
<1>0. task[r].attempts \in 0..(MaxAttempts - 1) /\ task[r].paging \in Nat \ {0}
      /\ task[r].finished \in BOOLEAN /\ task[r].buffer \in Seq(Nat)
  BY <1>2 DEF Tasks
<1>4. CASE Open(r)
  <2> DEFINE t == [task[r] EXCEPT !.pc = "page"]
  <2>1. t \in Tasks
    BY <1>2 DEF Tasks
  <2>2. t.paging = task[r].paging /\ t.finished = task[r].finished /\ t.attempts = task[r].attempts
    BY <1>2 DEF Tasks
  <2>3. task' = [task EXCEPT ![r] = t]
    BY <1>4 DEF Open
  <2>9. Ahead(t, served[r])
    BY <1>2, <2>2 DEF Ahead
  <2>10. served' = [served EXCEPT ![r] = served[r]] /\ repeated' = repeated
    BY <1>3, <1>4 DEF Open
  <2> HIDE DEF t
  <2> QED
    BY <1>2, <2>9, <2>10, <2>1, <2>2, <2>3
<1>5. CASE NextPage(r)
  <2> DEFINE page == task[r].paging
             t == [Moved(r) EXCEPT !.buffer = table[r][page], !.attempts = 0]
  <2>1. task[r].finished => task[r].attempts > 0
    BY <1>5 DEF NextPage, Requesting
  <2>2. page \notin served[r] /\ \A p \in served[r] : p < page
    BY <1>0, <1>2, <2>1 DEF Ahead
  <2>3. Moved(r) \in Tasks /\ page \in 1..NumPages(r) /\ 0 \in 0..(MaxAttempts - 1)
    BY <1>0, <1>1, <1>2, MovedTask, GuardrailSizes
  <2>4. t \in Tasks
    BY <1>1, <2>3 DEF Tasks
  <2>5. t.paging = Moved(r).paging /\ t.finished = Moved(r).finished /\ t.attempts = 0
    BY <2>3 DEF Tasks
  <2>6. Ahead(t, served[r] \cup {page})
    <3>1. CASE t.finished
      BY <3>1, <2>5 DEF Ahead
    <3>2. CASE ~t.finished
      <4>1. t.paging > page /\ t.paging \in Nat
        BY <3>2, <2>3, <2>4, <2>5, MovedTask DEF Tasks
      <4> QED
        BY <4>1, <2>2, <1>0, <1>2 DEF Ahead
    <3> QED
      BY <3>1, <3>2
  <2>7. repeated' = repeated
    BY <1>2, <1>5, <2>2 DEF NextPage
  <2>8. task' = [task EXCEPT ![r] = t] /\ served' = [served EXCEPT ![r] = served[r] \cup {page}]
    BY <1>5 DEF NextPage
  <2>9. t.paging <= NumPages(r) /\ (t.finished => t.paging = NumPages(r))
    BY <2>5, MovedTask
  <2>10. served[r] \cup {page} \in SUBSET Nat
    BY <1>0, <1>2
  <2> QED
    BY <2>4, <2>6, <2>7, <2>8, <2>9, <2>10
<1>6. CASE RequestRetried(r)
  <2> DEFINE t == [task[r] EXCEPT !.attempts = task[r].attempts + 1]
  <2>1. task[r].attempts + 1 \in 0..(MaxAttempts - 1)
    BY <1>0, <1>6, GuardrailSizes DEF RequestRetried, MayRetry
  <2>2. t \in Tasks
    BY <1>2, <2>1 DEF Tasks
  <2>3. t.paging = task[r].paging /\ t.finished = task[r].finished
    BY <1>2 DEF Tasks
  <2>4. task' = [task EXCEPT ![r] = t]
    BY <1>6 DEF RequestRetried, Retry
  <2>5. task[r].finished => task[r].attempts > 0
    BY <1>6 DEF RequestRetried, Requesting
  <2>6. Ahead(t, served[r])
    BY <1>2, <2>3, <2>5 DEF Ahead
  <2> QED
    BY <1>2, <1>3, <1>6, <2>2, <2>3, <2>4, <2>6 DEF RequestRetried
<1>7. CASE DecodeRetried(r)
  <2> DEFINE t == [Moved(r) EXCEPT !.attempts = Moved(r).attempts + 1]
  <2>1. Moved(r) \in Tasks /\ Moved(r).attempts + 1 \in 0..(MaxAttempts - 1)
    BY <1>0, <1>7, MovedTask, GuardrailSizes DEF DecodeRetried, MayRetry
  <2>2. t \in Tasks
    BY <2>1 DEF Tasks
  <2>3. t.paging = Moved(r).paging /\ t.finished = Moved(r).finished
    BY <2>1 DEF Tasks
  <2>4. task' = [task EXCEPT ![r] = t]
    BY <1>7 DEF DecodeRetried, Retry
  <2>5. \A p \in served[r] : p < task[r].paging
    BY <1>2, <1>7 DEF DecodeRetried, Requesting, Ahead
  <2>6. t.paging \in Nat /\ t.paging >= task[r].paging
    BY <2>2, <2>3, MovedTask DEF Tasks
  <2>7. Ahead(t, served[r])
    BY <1>0, <1>2, <2>5, <2>6 DEF Ahead
  <2>8. t.paging <= NumPages(r) /\ (t.finished => t.paging = NumPages(r))
    BY <2>3, MovedTask
  <2> QED
    BY <1>2, <1>3, <1>7, <2>2, <2>4, <2>7, <2>8 DEF DecodeRetried
<1>8. CASE ScanFails(r) \/ ScanDone(r) \/ Cancel(r)
  <2>1. PICK s \in {"PASS", "FAIL"} : End(r, s)
    BY <1>8 DEF ScanFails, ScanDone, Cancel
  <2> DEFINE t == [task[r] EXCEPT !.pc = "ended", !.status = s, !.buffer = <<>>]
  <2>2. t \in Tasks
    <3>1. <<>> \in Seq(Nat) /\ s \in {"STARTED", "PASS", "FAIL"}
      OBVIOUS
    <3> QED
      BY <1>2, <3>1 DEF Tasks
  <2>3. t.paging = task[r].paging /\ t.finished = task[r].finished /\ t.attempts = task[r].attempts
    BY <1>2 DEF Tasks
  <2>4. task' = [task EXCEPT ![r] = t]
    BY <2>1 DEF End
  <2>9. Ahead(t, served[r])
    BY <1>2, <2>3 DEF Ahead
  <2>10. served' = [served EXCEPT ![r] = served[r]] /\ repeated' = repeated
    BY <1>3, <1>8 DEF ScanFails, ScanDone, Cancel
  <2> HIDE DEF t
  <2> QED
    BY <1>2, <2>9, <2>10, <2>2, <2>3, <2>4
<1>9. CASE MeasureRow(r)
  <2> DEFINE t == [task[r] EXCEPT !.buffer = Tail(task[r].buffer)]
  <2>1. Tail(task[r].buffer) \in Seq(Nat)
    BY <1>0, <1>9 DEF MeasureRow
  <2>2. t \in Tasks
    BY <1>2, <2>1 DEF Tasks
  <2>3. t.paging = task[r].paging /\ t.finished = task[r].finished /\ t.attempts = task[r].attempts
    BY <1>2 DEF Tasks
  <2>4. task' = [task EXCEPT ![r] = t]
    BY <1>9 DEF MeasureRow
  <2>9. Ahead(t, served[r])
    BY <1>2, <2>3 DEF Ahead
  <2>10. served' = [served EXCEPT ![r] = served[r]] /\ repeated' = repeated
    BY <1>3, <1>9 DEF MeasureRow
  <2> HIDE DEF t
  <2> QED
    BY <1>2, <2>9, <2>10, <2>2, <2>3, <2>4
<1>10. CASE Abandon(r)
  <2> DEFINE t == [task[r] EXCEPT !.pc = "ended", !.buffer = <<>>]
  <2>1. t \in Tasks
    <3>1. <<>> \in Seq(Nat)
      OBVIOUS
    <3> QED
      BY <1>2, <3>1 DEF Tasks
  <2>2. t.paging = task[r].paging /\ t.finished = task[r].finished /\ t.attempts = task[r].attempts
    BY <1>2 DEF Tasks
  <2>3. task' = [task EXCEPT ![r] = t]
    BY <1>10 DEF Abandon
  <2>9. Ahead(t, served[r])
    BY <1>2, <2>2 DEF Ahead
  <2>10. served' = [served EXCEPT ![r] = served[r]] /\ repeated' = repeated
    BY <1>3, <1>10 DEF Abandon
  <2> HIDE DEF t
  <2> QED
    BY <1>2, <2>9, <2>10, <2>1, <2>2, <2>3
<1> QED
  BY <1>4, <1>5, <1>6, <1>7, <1>8, <1>9, <1>10 DEF Scan

\* The other variables of a scan's step.
LEMMA ScanKeepsTypes ==
    ASSUME TypeOK, NEW r \in Ranges, Scan(r)
    PROVE  /\ table' = table /\ killed' = killed
           /\ counters' \in [Ranges -> [read: Nat, valid: Nat, large: Nat]]
           /\ slots' \in Nat
           /\ undecoded' \in [Ranges -> SUBSET Nat]
<1>1. table' = table /\ killed' = killed
  BY DEF Scan, Open, NextPage, RequestRetried, DecodeRetried, ScanFails, ScanDone, Cancel,
         MeasureRow, Abandon
<1>2. counters' \in [Ranges -> [read: Nat, valid: Nat, large: Nat]]
  <2>1. CASE MeasureRow(r)
    <3>1. PICK found \in {"large", "valid"} :
            counters' = [counters EXCEPT ![r].read = @ + 1, ![r][found] = @ + 1]
      BY <2>1 DEF MeasureRow
    <3> QED
      BY <3>1 DEF TypeOK
  <2>2. CASE UNCHANGED counters
    BY <2>2 DEF TypeOK
  <2> QED
    BY <2>1, <2>2 DEF Scan, Open, NextPage, RequestRetried, DecodeRetried, ScanFails, ScanDone,
       Cancel, Abandon
<1>3. slots' \in {slots, slots + 1} \/ (slots > 0 /\ slots' = slots - 1)
  BY DEF Scan, Open, NextPage, RequestRetried, DecodeRetried, ScanFails, ScanDone, Cancel,
         MeasureRow, Abandon, End, DropSlot
<1>4. undecoded' \in [Ranges -> SUBSET Nat]
  <2>1. task[r].paging \in Nat
    BY DEF TypeOK, Tasks
  <2> QED
    BY <2>1 DEF Scan, Open, NextPage, RequestRetried, DecodeRetried, ScanFails, ScanDone, Cancel,
                MeasureRow, Abandon, TypeOK
<1> QED
  BY <1>1, <1>2, <1>3, <1>4 DEF TypeOK

\* A step of a scan keeps the invariant.
LEMMA ScanKeepsPageInv ==
    ASSUME PageInv, NEW r \in Ranges, Scan(r)
    PROVE  PageInv'
<1>1. PICK t \in Tasks, pages \in SUBSET Nat :
        /\ task' = [task EXCEPT ![r] = t]
        /\ served' = [served EXCEPT ![r] = pages]
        /\ repeated' = repeated
        /\ t.paging <= NumPages(r)
        /\ t.finished => t.paging = NumPages(r)
        /\ Ahead(t, pages)
  BY ScanMoves
<1>2. \A q \in Ranges : NumPages(q)' = NumPages(q)
  BY ScanKeepsTypes DEF NumPages, PageInv
<1>3. \A q \in Ranges : /\ task'[q] = IF q = r THEN t ELSE task[q]
                        /\ served'[q] = IF q = r THEN pages ELSE served[q]
  BY <1>1 DEF PageInv, TypeOK
<1>4. TypeOK'
  <2>1. task' \in [Ranges -> Tasks] /\ {served, repeated}' \subseteq [Ranges -> SUBSET Nat]
    BY <1>1 DEF PageInv, TypeOK
  <2>2. \A q \in Ranges : task'[q].paging <= NumPages(q)'
    BY <1>1, <1>2, <1>3 DEF PageInv, TypeOK
  <2> QED
    BY <2>1, <2>2, ScanKeepsTypes DEF PageInv, TypeOK
<1>5. FinishedAtTheEnd'
  BY <1>1, <1>2, <1>3 DEF PageInv, FinishedAtTheEnd
<1>7. Unserved'
  <2> SUFFICES ASSUME NEW q \in Ranges PROVE Ahead(task'[q], served'[q])
    BY DEF Unserved, Ahead
  <2>1. Ahead(task[q], served[q])
    BY DEF PageInv, Unserved
  <2> QED
    BY <1>1, <1>3, <2>1
<1>6. NoPageTwice'
  BY <1>1 DEF PageInv, NoPageTwice
<1> QED
  BY <1>4, <1>5, <1>6, <1>7 DEF PageInv

\* So does every step of the job.
LEMMA PageInvStep == PageInv /\ [Next]_vars => PageInv'
<1> SUFFICES ASSUME PageInv, [Next]_vars PROVE PageInv'
  OBVIOUS
<1>1. CASE \E r \in Ranges : Scan(r)
  BY <1>1, ScanKeepsPageInv
<1>2. CASE Kill
  BY <1>2 DEF Kill, PageInv, TypeOK, FinishedAtTheEnd, Unserved, Ahead, NoPageTwice, NumPages
<1>3. CASE UNCHANGED vars
  BY <1>3 DEF vars, PageInv, TypeOK, FinishedAtTheEnd, Unserved, Ahead, NoPageTwice, NumPages
<1> QED
  BY <1>1, <1>2, <1>3 DEF Next, Ended

\* The page invariant of `ScanState` holds for any table: the pages still to be asked for lie
\* ahead of the ones whose rows were handed over.
THEOREM PageInvariance == Spec => []PageInv
<1> QED
  BY PageInvInit, PageInvStep, PTL DEF Spec

\* Retries never make a page count twice, whatever the retry limit and the table.
THEOREM PagesCountOnce == Spec => []NoPageTwice
<1>1. PageInv => NoPageTwice
  BY DEF PageInv
<1> QED
  BY <1>1, PageInvariance, PTL

-----------------------------------------------------------------------------
(* The read slots.                                                          *)

\* Slots can be counted.
LEMMA ScanningFinite == IsFiniteSet(Scanning)
<1>1. Scanning \in SUBSET Ranges
  BY DEF Scanning
<1> QED
  BY <1>1, RangesFinite, FS_Subset

\* No slot is taken at first.
LEMMA SlotsInit == Init => SlotsConserved
<1> SUFFICES ASSUME Init PROVE SlotsConserved
  OBVIOUS
<1>1. Scanning = {}
  BY DEF Init, NewTask, Scanning, At
<1> QED
  BY <1>1, FS_EmptySet, GuardrailSizes DEF Init, SlotsConserved

\* A range that ends gives back the slot it holds.
LEMMA EndKeepsSlots ==
    ASSUME TypeOK, SlotsConserved, NEW r \in Ranges, At(r, "page"),
           slots' = slots + 1, Scanning' = Scanning \ {r}
    PROVE  SlotsConserved'
<1>1. r \in Scanning
  BY DEF Scanning
<1>2. Cardinality(Scanning \ {r}) = Cardinality(Scanning) - 1 /\ Cardinality(Scanning) \in Nat
  BY <1>1, ScanningFinite, FS_RemoveElement, FS_CardinalityType
<1> QED
  BY <1>2, GuardrailSizes DEF SlotsConserved, TypeOK

\* Every step of a scan keeps the balance of slots.
LEMMA ScanKeepsSlots ==
    ASSUME TypeOK, SlotsConserved, NEW r \in Ranges, Scan(r)
    PROVE  SlotsConserved'
<1>1. CASE Open(r)
  <2>1. Scanning' = Scanning \cup {r} /\ r \notin Scanning
    BY <1>1 DEF Open, Scanning, At, TypeOK
  <2>2. Cardinality(Scanning \cup {r}) = Cardinality(Scanning) + 1 /\ Cardinality(Scanning) \in Nat
    BY <2>1, ScanningFinite, FS_AddElement, FS_CardinalityType
  <2> QED
    BY <1>1, <2>1, <2>2, GuardrailSizes DEF Open, SlotsConserved, TypeOK
<1>2. CASE NextPage(r) \/ RequestRetried(r) \/ DecodeRetried(r) \/ MeasureRow(r)
  <2>1. At(r, "page")
    BY <1>2 DEF NextPage, RequestRetried, DecodeRetried, MeasureRow, Requesting, Asking
  <2>2. \A q \in Ranges : task'[q].pc = task[q].pc
    <3>1. task[r] \in Tasks /\ task \in [Ranges -> Tasks]
      BY DEF TypeOK
    <3>2. Moved(r).pc = task[r].pc /\ DOMAIN Moved(r) = DOMAIN task[r]
      BY <3>1 DEF Moved, Tasks
    <3>3. CASE NextPage(r)
      BY <3>1, <3>2, <3>3 DEF NextPage, Tasks
    <3>4. CASE RequestRetried(r)
      BY <3>1, <3>4 DEF RequestRetried, Retry, Tasks
    <3>5. CASE DecodeRetried(r)
      BY <3>1, <3>2, <3>5 DEF DecodeRetried, Retry, Tasks
    <3>6. CASE MeasureRow(r)
      BY <3>1, <3>6 DEF MeasureRow, Tasks
    <3> QED
      BY <1>2, <3>3, <3>4, <3>5, <3>6
  <2>3. Scanning' = Scanning
    BY <2>2 DEF Scanning, At
  <2> QED
    BY <1>2, <2>3 DEF NextPage, RequestRetried, DecodeRetried, MeasureRow, SlotsConserved
<1>3. CASE ScanFails(r) \/ ScanDone(r) \/ Cancel(r)
  <2>1. At(r, "page") /\ slots' = slots + 1
    BY <1>3 DEF ScanFails, ScanDone, Cancel, Requesting, Asking, End, DropSlot
  <2>2. Scanning' = Scanning \ {r}
    <3>1. PICK s \in {"PASS", "FAIL"} : End(r, s)
      BY <1>3 DEF ScanFails, ScanDone, Cancel
    <3>2. \A q \in Ranges : task'[q].pc = IF q = r THEN "ended" ELSE task[q].pc
      BY <3>1 DEF End, TypeOK, Tasks
    <3> QED
      BY <3>2 DEF Scanning, At
  <2> QED
    BY <2>1, <2>2, EndKeepsSlots
<1>4. CASE Abandon(r)
  <2>1. CASE At(r, "open")
    <3>1. Scanning' = Scanning
      BY <1>4, <2>1 DEF Abandon, Scanning, At, TypeOK
    <3> QED
      BY <1>4, <2>1, <3>1 DEF Abandon, SlotsConserved
  <2>2. CASE ~At(r, "open")
    <3>1. At(r, "page") /\ slots' = slots + 1
      <4>1. task[r].pc \in {"open", "page", "ended"}
        BY DEF TypeOK, Tasks
      <4> QED
        BY <1>4, <2>2, <4>1 DEF Abandon, DropSlot, At
    <3>2. Scanning' = Scanning \ {r}
      BY <1>4 DEF Abandon, Scanning, At, TypeOK
    <3> QED
      BY <3>1, <3>2, EndKeepsSlots
  <2> QED
    BY <2>1, <2>2
<1> QED
  BY <1>1, <1>2, <1>3, <1>4 DEF Scan

\* Every range gives its read slot back, on every path out of it, for any number of slots.
THEOREM SlotsComeBack == Spec => []SlotsConserved
<1>1. TypeOK /\ SlotsConserved /\ [Next]_vars => SlotsConserved'
  <2> SUFFICES ASSUME TypeOK, SlotsConserved, [Next]_vars PROVE SlotsConserved'
    OBVIOUS
  <2>1. CASE \E r \in Ranges : Scan(r)
    BY <2>1, ScanKeepsSlots
  <2>2. CASE Kill \/ UNCHANGED vars
    BY <2>2 DEF Kill, vars, SlotsConserved, Scanning, At
  <2> QED
    BY <2>1, <2>2 DEF Next, Ended
<1>2. PageInv => TypeOK
  BY DEF PageInv
<1> QED
  BY SlotsInit, <1>1, <1>2, PageInvariance, PTL DEF Spec

-----------------------------------------------------------------------------
(* The run's status.                                                        *)

\* The rows at hand, and the row a LARGE was counted for, are rows of the range.
InTable(rows, pages) ==
    \A k \in DOMAIN rows : \E p \in DOMAIN pages : \E j \in DOMAIN pages[p] : pages[p][j] = rows[k]
Found(large, pages) ==
    large > 0 => \E p \in DOMAIN pages : \E j \in DOMAIN pages[p] : pages[p][j] > Threshold

\* Every page the scan has moved past was handed over or given up, the last one too when the scan
\* is finished and nothing of it has to be asked for again.
Behind(t, done, lost) ==
    /\ \A p \in Nat \ {0} : p < t.paging => p \in done \cup lost
    /\ t.finished /\ t.attempts = 0 => t.paging \in done

\* A row of a page that was handed over is counted LARGE when it is, or still at hand.
Seen(rows, large, done, pages) ==
    \A p \in done : \A j \in DOMAIN pages[p] :
        pages[p][j] > Threshold => large > 0 \/ \E k \in DOMAIN rows : rows[k] = pages[p][j]

\* A range that passes in a run nobody killed has finished its scan.
Ends(t, dead) ==
    /\ t.pc = "ended" => t.buffer = <<>>
    /\ t.pc # "ended" => t.status = "STARTED"
    /\ ~dead /\ t.status = "PASS" => t.finished /\ t.attempts = 0

Honest(t, large, done, lost, pages, dead) ==
    /\ InTable(t.buffer, pages)
    /\ Found(large, pages)
    /\ Behind(t, done, lost)
    /\ Ends(t, dead)
    /\ dead \/ Seen(t.buffer, large, done, pages)

TruthInv ==
    \A r \in Ranges : Honest(task[r], counters[r].large, served[r], undecoded[r], table[r], killed)

\* Nothing was read or counted yet.
LEMMA TruthInit == Init => TruthInv
<1> SUFFICES ASSUME Init, NEW r \in Ranges
             PROVE  Honest(task[r], counters[r].large, served[r], undecoded[r], table[r], killed)
  BY DEF TruthInv
<1>1. task[r] = NewTask /\ counters[r].large = 0 /\ served[r] = {}
  BY DEF Init
<1> QED
  BY <1>1 DEF NewTask, Honest, InTable, Found, Behind, Ends, Seen

\* A scan touches its own range alone.
LEMMA ScanAlone ==
    ASSUME TypeOK, NEW r \in Ranges, Scan(r), NEW q \in Ranges \ {r}
    PROVE  /\ task'[q] = task[q] /\ counters'[q] = counters[q]
           /\ served'[q] = served[q] /\ undecoded'[q] = undecoded[q]
<1>1. task'[q] = task[q]
  BY DEF TypeOK, Scan, Open, NextPage, RequestRetried, DecodeRetried, Retry, ScanFails, ScanDone,
         Cancel, End, MeasureRow, Abandon
<1>2. counters'[q] = counters[q]
  BY DEF TypeOK, Scan, Open, NextPage, RequestRetried, DecodeRetried, ScanFails, ScanDone, Cancel,
         MeasureRow, Abandon
<1>3. served'[q] = served[q] /\ undecoded'[q] = undecoded[q]
  BY DEF TypeOK, Scan, Open, NextPage, RequestRetried, DecodeRetried, ScanFails, ScanDone, Cancel,
         MeasureRow, Abandon
<1> QED
  BY <1>1, <1>2, <1>3

\* What the scan's own step needs to know of the range before it.
LEMMA ScanFacts ==
    ASSUME PageInv, TruthInv, NEW r \in Ranges
    PROVE  /\ task \in [Ranges -> Tasks] /\ task[r] \in Tasks
           /\ task[r].paging \in 1..NumPages(r) /\ NumPages(r) \in Nat
           /\ task[r].finished \in BOOLEAN /\ task[r].attempts \in Nat
           /\ task[r].buffer \in Seq(Nat)
           /\ task[r].finished => task[r].paging = NumPages(r)
           /\ Honest(task[r], counters[r].large, served[r], undecoded[r], table[r], killed)
<1>1. task[r] \in Tasks /\ NumPages(r) \in Nat /\ task[r].paging <= NumPages(r)
      /\ task \in [Ranges -> Tasks]
  BY PagesOfTables DEF PageInv, TypeOK
<1>2. task[r].paging \in Nat \ {0} /\ task[r].finished \in BOOLEAN /\ task[r].attempts \in Nat
      /\ task[r].buffer \in Seq(Nat)
  BY <1>1, GuardrailSizes DEF Tasks
<1> QED
  BY <1>1, <1>2 DEF PageInv, FinishedAtTheEnd, TruthInv

\* The rows of a page come in: an empty buffer is replaced by the page the scan asked for.
LEMMA PageIsHonest ==
    ASSUME PageInv, TruthInv, NEW r \in Ranges, NextPage(r)
    PROVE  Honest(task'[r], counters'[r].large, served'[r], undecoded'[r], table[r], killed)
<1> DEFINE t == task[r]
           page == task[r].paging
           u == [Moved(r) EXCEPT !.buffer = table[r][page], !.attempts = 0]
<1>1. /\ Requesting(r) /\ task' = [task EXCEPT ![r] = u]
      /\ served' = [served EXCEPT ![r] = @ \cup {page}] /\ UNCHANGED <<counters, undecoded>>
  BY DEF NextPage
<1>2. /\ t.pc = "page" /\ t.buffer = <<>>
      /\ Honest(t, counters[r].large, served[r], undecoded[r], table[r], killed)
      /\ page \in 1..NumPages(r) /\ NumPages(r) \in Nat /\ t \in Tasks /\ t.finished \in BOOLEAN
      /\ task \in [Ranges -> Tasks]
  BY <1>1, ScanFacts DEF Requesting, Asking, At
<1>3. task'[r] = u /\ served'[r] = served[r] \cup {page}
  BY <1>1, <1>2 DEF PageInv, TypeOK
<1>4. /\ u.buffer = table[r][page] /\ u.attempts = 0 /\ u.pc = "page" /\ u.status = t.status
      /\ IF page = NumPages(r) THEN u.paging = page /\ u.finished
                               ELSE u.paging = page + 1 /\ u.finished = t.finished
  BY <1>2 DEF Moved, Tasks
<1>5. page # NumPages(r) => ~t.finished
  BY ScanFacts
<1>6. page \in DOMAIN table[r]
  <2>1. table[r] \in Seq(Seq(Nat))
    BY GuardrailTables DEF PageInv, TypeOK
  <2> QED
    BY <1>2, <2>1 DEF NumPages
<1> HIDE DEF u
<1>7. InTable(u.buffer, table[r]) /\ Found(counters[r].large, table[r])
  BY <1>2, <1>4, <1>6 DEF Honest, InTable
<1>8. Behind(u, served[r] \cup {page}, undecoded[r])
  <2>1. \A p \in Nat \ {0} : p < page => p \in served[r] \cup undecoded[r]
    BY <1>2 DEF Honest, Behind
  <2> QED
    BY <1>2, <1>4, <1>5, <2>1 DEF Behind
<1>9. Ends(u, killed)
  BY <1>2, <1>4 DEF Honest, Ends
<1>10. killed \/ Seen(u.buffer, counters[r].large, served[r] \cup {page}, table[r])
  <2> SUFFICES ASSUME ~killed, NEW p \in served[r] \cup {page}, NEW j \in DOMAIN table[r][p],
                      table[r][p][j] > Threshold
               PROVE  counters[r].large > 0 \/ \E k \in DOMAIN u.buffer : u.buffer[k] = table[r][p][j]
    BY DEF Seen
  <2>1. CASE p = page
    BY <1>4, <2>1
  <2>2. CASE p \in served[r]
    <3>1. Seen(<<>>, counters[r].large, served[r], table[r])
      BY <1>2 DEF Honest
    <3> QED
      BY <2>2, <3>1 DEF Seen
  <2> QED
    BY <2>1, <2>2
<1> QED
  BY <1>1, <1>3, <1>7, <1>8, <1>9, <1>10 DEF Honest

\* A retry keeps the range honest: the page it gives up is recorded as lost, and the last page is
\* asked for again (should_retry).
LEMMA RetryIsHonest ==
    ASSUME PageInv, TruthInv, NEW r \in Ranges, RequestRetried(r) \/ DecodeRetried(r)
    PROVE  Honest(task'[r], counters'[r].large, served'[r], undecoded'[r], table[r], killed)
<1> DEFINE t == task[r]
           u == task'[r]
<1>1. Requesting(r) /\ UNCHANGED <<counters, served>>
  BY DEF RequestRetried, DecodeRetried
<1>2. /\ t.pc = "page" /\ t.buffer = <<>>
      /\ Honest(t, counters[r].large, served[r], undecoded[r], table[r], killed)
      /\ t.paging \in 1..NumPages(r) /\ NumPages(r) \in Nat /\ t \in Tasks /\ t.attempts \in Nat
      /\ task \in [Ranges -> Tasks]
  BY <1>1, ScanFacts DEF Requesting, Asking, At
<1>3. /\ u.attempts = t.attempts + 1 /\ u.pc = "page" /\ u.status = t.status /\ u.buffer = t.buffer
      /\ \/ u.paging = t.paging /\ undecoded'[r] = undecoded[r]
         \/ u.paging = t.paging + 1 /\ undecoded'[r] = undecoded[r] \cup {t.paging}
  <2>1. CASE RequestRetried(r)
    BY <1>2, <2>1 DEF RequestRetried, Retry, Tasks
  <2>2. CASE DecodeRetried(r)
    <3>1. undecoded'[r] = IF t.paging = NumPages(r) THEN undecoded[r] ELSE undecoded[r] \cup {t.paging}
      BY <2>2 DEF DecodeRetried, PageInv, TypeOK
    <3>2. task' = [task EXCEPT ![r] = [Moved(r) EXCEPT !.attempts = @ + 1]]
      BY <2>2 DEF DecodeRetried, Retry
    <3>3. /\ u.attempts = t.attempts + 1 /\ u.pc = "page" /\ u.status = t.status /\ u.buffer = t.buffer
          /\ u.paging = IF t.paging = NumPages(r) THEN t.paging ELSE t.paging + 1
      BY <1>2, <3>2 DEF Moved, Tasks
    <3> QED
      BY <3>1, <3>3
  <2> QED
    BY <2>1, <2>2
<1> HIDE DEF u
<1>4. Behind(u, served[r], undecoded'[r])
  <2>1. \A p \in Nat \ {0} : p < t.paging => p \in served[r] \cup undecoded[r]
    BY <1>2 DEF Honest, Behind
  <2>2. u.attempts # 0
    BY <1>2, <1>3
  <2>3. \A p \in Nat \ {0} : p < u.paging => p \in served[r] \cup undecoded'[r]
    BY <1>2, <1>3, <2>1
  <2> QED
    BY <2>2, <2>3 DEF Behind
<1>5. Ends(u, killed)
  BY <1>2, <1>3 DEF Honest, Ends
<1> QED
  BY <1>1, <1>2, <1>3, <1>4, <1>5 DEF Honest, u

\* A measured row leaves the buffer for the counters.
LEMMA RowIsHonest ==
    ASSUME PageInv, TruthInv, NEW r \in Ranges, MeasureRow(r)
    PROVE  Honest(task'[r], counters'[r].large, served'[r], undecoded'[r], table[r], killed)
<1> DEFINE t == task[r]
           rows == task[r].buffer
           n == counters[r].large
           m == counters'[r].large
           u == [task[r] EXCEPT !.buffer = Tail(task[r].buffer)]
<1>1. /\ t.pc = "page" /\ rows # <<>> /\ ~killed /\ UNCHANGED <<served, undecoded>>
      /\ task' = [task EXCEPT ![r] = u]
  BY DEF MeasureRow, At
<1>2. /\ Honest(t, n, served[r], undecoded[r], table[r], killed)
      /\ t \in Tasks /\ task \in [Ranges -> Tasks] /\ rows \in Seq(Nat)
  BY ScanFacts
<1>3. task'[r] = u
  BY <1>1, <1>2
<1>4. /\ u.buffer = Tail(rows) /\ u.pc = t.pc /\ u.status = t.status /\ u.paging = t.paging
      /\ u.finished = t.finished /\ u.attempts = t.attempts
  BY <1>2 DEF Tasks
<1>5. n \in Nat /\ m = IF Head(rows) > Threshold THEN n + 1 ELSE n
  <2>0. n \in Nat /\ counters \in [Ranges -> [read: Nat, valid: Nat, large: Nat]]
    BY DEF PageInv, TypeOK
  <2>1. CASE Head(rows) > Threshold
    <3>1. counters' = [counters EXCEPT ![r].read = @ + 1, ![r]["large"] = @ + 1]
      BY <2>1 DEF MeasureRow, TooLarge
    <3> QED
      BY <2>0, <2>1, <3>1
  <2>2. CASE ~(Head(rows) > Threshold)
    <3>1. counters' = [counters EXCEPT ![r].read = @ + 1, ![r]["valid"] = @ + 1]
      BY <2>2 DEF MeasureRow, TooLarge
    <3> QED
      BY <2>0, <2>2, <3>1
  <2> QED
    BY <2>1, <2>2
<1>6. /\ Head(rows) = rows[1] /\ 1 \in DOMAIN rows
      /\ \A k \in DOMAIN Tail(rows) : k + 1 \in DOMAIN rows /\ Tail(rows)[k] = rows[k + 1]
      /\ \A k \in DOMAIN rows : k = 1 \/ (k - 1 \in DOMAIN Tail(rows) /\ Tail(rows)[k - 1] = rows[k])
  BY <1>1, <1>2
<1> HIDE DEF u, m, n, rows
<1>7. InTable(Tail(rows), table[r])
  BY <1>2, <1>6 DEF Honest, InTable, rows
<1>8. Found(m, table[r])
  <2>1. InTable(rows, table[r]) /\ Found(n, table[r])
    BY <1>2 DEF Honest, rows
  <2>2. PICK p \in DOMAIN table[r] : \E j \in DOMAIN table[r][p] : table[r][p][j] = rows[1]
    BY <1>6, <2>1 DEF InTable
  <2>3. CASE Head(rows) > Threshold
    BY <1>6, <2>2, <2>3 DEF Found
  <2>4. CASE ~(Head(rows) > Threshold)
    BY <1>5, <2>1, <2>4
  <2> QED
    BY <2>3, <2>4
<1>9. Behind(u, served[r], undecoded[r]) /\ Ends(u, killed)
  BY <1>1, <1>2, <1>4 DEF Honest, Behind, Ends
<1>10. Seen(Tail(rows), m, served[r], table[r])
  <2> SUFFICES ASSUME NEW p \in served[r], NEW j \in DOMAIN table[r][p], table[r][p][j] > Threshold
               PROVE  m > 0 \/ \E k \in DOMAIN Tail(rows) : Tail(rows)[k] = table[r][p][j]
    BY DEF Seen
  <2>1. n > 0 \/ \E k \in DOMAIN rows : rows[k] = table[r][p][j]
    BY <1>1, <1>2 DEF Honest, Seen, rows
  <2>2. CASE n > 0
    BY <1>5, <2>2
  <2>3. ASSUME NEW k \in DOMAIN rows, rows[k] = table[r][p][j]
        PROVE  m > 0 \/ \E i \in DOMAIN Tail(rows) : Tail(rows)[i] = table[r][p][j]
    <3>1. CASE k = 1
      BY <1>5, <1>6, <2>3, <3>1
    <3>2. CASE k # 1
      <4>1. k - 1 \in DOMAIN Tail(rows) /\ Tail(rows)[k - 1] = rows[k]
        BY <1>6, <2>3, <3>2
      <4> QED
        BY <2>3, <4>1, Zenon
    <3> QED
      BY <3>1, <3>2
  <2> QED
    BY <2>1, <2>2, <2>3
<1> QED
  BY <1>1, <1>3, <1>4, <1>7, <1>8, <1>9, <1>10 DEF Honest, m

\* Opening a scan reads nothing, and a range that ends has nothing at hand: it fails, or its scan is
\* finished, or the run was killed.
LEMMA EndIsHonest ==
    ASSUME PageInv, TruthInv, NEW r \in Ranges,
           Open(r) \/ ScanFails(r) \/ ScanDone(r) \/ Cancel(r) \/ Abandon(r)
    PROVE  Honest(task'[r], counters'[r].large, served'[r], undecoded'[r], table[r], killed)
<1> DEFINE t == task[r]
           u == task'[r]
<1>1. UNCHANGED <<counters, served, undecoded>>
  BY DEF Open, ScanFails, ScanDone, Cancel, Abandon
<1>2. /\ Honest(t, counters[r].large, served[r], undecoded[r], table[r], killed)
      /\ t \in Tasks /\ task \in [Ranges -> Tasks] /\ t.attempts \in Nat
  BY ScanFacts
<1>3. u.paging = t.paging /\ u.finished = t.finished /\ u.attempts = t.attempts
  BY <1>2 DEF Open, ScanFails, ScanDone, Cancel, Abandon, End, Tasks
<1>4. CASE Open(r)
  <2>1. u.pc = "page" /\ t.pc = "open" /\ u.buffer = t.buffer /\ u.status = t.status
    BY <1>2, <1>4 DEF Open, At, Tasks
  <2> HIDE DEF u
  <2>2. Behind(u, served[r], undecoded[r]) /\ Ends(u, killed)
    BY <1>2, <1>3, <2>1 DEF Honest, Behind, Ends
  <2> QED
    BY <1>1, <1>2, <2>1, <2>2 DEF Honest, u
<1>5. CASE ~Open(r)
  <2>1. u.pc = "ended" /\ u.buffer = <<>>
    BY <1>2, <1>5 DEF ScanFails, ScanDone, Cancel, Abandon, End, Tasks
  <2>2. killed \/ t.buffer = <<>>
    BY <1>5 DEF ScanFails, ScanDone, Cancel, Abandon, Requesting, Asking
  <2>3. ~killed /\ u.status = "PASS" => t.finished /\ t.attempts = 0
    <3>1. CASE ScanFails(r)
      BY <1>2, <3>1 DEF ScanFails, End, Tasks
    <3>2. CASE ScanDone(r)
      BY <1>2, <3>2 DEF ScanDone, Requesting
    <3>3. CASE Cancel(r) \/ Abandon(r)
      BY <3>3 DEF Cancel, Abandon
    <3> QED
      BY <1>5, <3>1, <3>2, <3>3
  <2> HIDE DEF u
  <2>4. Behind(u, served[r], undecoded[r]) /\ Ends(u, killed)
    BY <1>2, <1>3, <2>1, <2>3 DEF Honest, Behind, Ends
  <2>5. InTable(<<>>, table[r])
    BY DEF InTable
  <2> QED
    BY <1>1, <1>2, <2>1, <2>2, <2>4, <2>5 DEF Honest, u
<1> QED
  BY <1>4, <1>5

\* Every step keeps all ranges honest.
LEMMA TruthStep == PageInv /\ TruthInv /\ [Next]_vars => TruthInv'
<1> SUFFICES ASSUME PageInv, TruthInv, [Next]_vars PROVE TruthInv'
  OBVIOUS
<1>1. ASSUME NEW r \in Ranges, Scan(r), NEW q \in Ranges
      PROVE  Honest(task[q], counters[q].large, served[q], undecoded[q], table[q], killed)'
  <2>1. table' = table /\ killed' = killed
    BY <1>1, ScanKeepsTypes DEF PageInv
  <2>2. CASE q = r
    <3>1. Honest(task'[r], counters'[r].large, served'[r], undecoded'[r], table[r], killed)
      BY <1>1, PageIsHonest, RetryIsHonest, RowIsHonest, EndIsHonest DEF Scan
    <3> QED
      BY <2>1, <2>2, <3>1
  <2>3. CASE q # r
    <3>1. /\ task'[q] = task[q] /\ counters'[q] = counters[q]
          /\ served'[q] = served[q] /\ undecoded'[q] = undecoded[q]
      BY <1>1, <2>3, ScanAlone DEF PageInv
    <3>2. Honest(task[q], counters[q].large, served[q], undecoded[q], table[q], killed)
      BY DEF TruthInv
    <3> QED
      BY <2>1, <3>1, <3>2
  <2> QED
    BY <2>2, <2>3
<1>2. CASE Kill
  BY <1>2 DEF Kill, TruthInv, Honest, Ends
<1>3. CASE UNCHANGED vars
  BY <1>3 DEF vars, TruthInv
<1> QED
  BY <1>1, <1>2, <1>3 DEF Next, Ended, TruthInv

\* The exit status of a finished run tells the truth about the table, whatever the table, the
\* retries and the read slots: DIFF means that a row is over the threshold, and ENDED that none is
\* unless a range failed or a page could not be decoded (run_status).
THEOREM StatusIsTrue == Spec => []StatusTellsTheTruth
<1>1. PageInv /\ TruthInv => StatusTellsTheTruth
  <2> SUFFICES ASSUME PageInv, TruthInv, AllEnded
               PROVE  LET tooLarge == \E r \in Ranges : \E size \in Sizes(r) : size > Threshold
                          whole == \A r \in Ranges : task[r].status = "PASS" /\ undecoded[r] = {}
                      IN  /\ RunStatus = "DIFF" => tooLarge
                          /\ RunStatus = "ENDED" /\ whole => ~tooLarge
    BY DEF StatusTellsTheTruth
  <2>1. ASSUME RunStatus = "DIFF"
        PROVE  \E r \in Ranges : \E size \in Sizes(r) : size > Threshold
    <3>1. PICK r \in Ranges : counters[r].large > 0
      BY <2>1 DEF RunStatus, AnyLarge
    <3>2. PICK p \in DOMAIN table[r] : \E j \in DOMAIN table[r][p] : table[r][p][j] > Threshold
      BY <3>1 DEF TruthInv, Honest, Found
    <3>3. PICK j \in DOMAIN table[r][p] : table[r][p][j] > Threshold
      BY <3>2
    <3>4. table[r][p][j] \in Sizes(r)
      BY DEF Sizes
    <3> QED
      BY <3>3, <3>4
  <2>2. ASSUME RunStatus = "ENDED",
               \A r \in Ranges : task[r].status = "PASS" /\ undecoded[r] = {},
               NEW r \in Ranges, NEW size \in Sizes(r), size > Threshold
        PROVE  FALSE
    <3>1. ~killed /\ ~AnyLarge
      BY <2>2 DEF RunStatus
    <3>2. PICK p \in DOMAIN table[r] : size \in {table[r][p][k] : k \in DOMAIN table[r][p]}
      BY DEF Sizes
    <3>3. PICK j \in DOMAIN table[r][p] : size = table[r][p][j]
      BY <3>2
    <3>4. Honest(task[r], counters[r].large, served[r], undecoded[r], table[r], killed)
      BY DEF TruthInv
    <3>5. task[r].buffer = <<>> /\ task[r].finished /\ task[r].attempts = 0
      BY <2>2, <3>1, <3>4 DEF Honest, Ends, AllEnded, At
    <3>6. p \in served[r]
      <4>1. table[r] \in Seq(Seq(Nat))
        BY GuardrailTables DEF PageInv, TypeOK
      <4>2. p \in Nat \ {0} /\ p <= NumPages(r) /\ NumPages(r) \in Nat
        BY <4>1 DEF NumPages
      <4>3. task[r].paging = NumPages(r)
        BY <3>5, ScanFacts
      <4>4. task[r].paging \in served[r] /\ (p < task[r].paging => p \in served[r])
        BY <2>2, <3>4, <3>5, <4>2 DEF Honest, Behind
      <4> QED
        BY <4>2, <4>3, <4>4
    <3>7. counters[r].large > 0
      <4>1. Seen(<<>>, counters[r].large, served[r], table[r])
        BY <3>1, <3>4, <3>5 DEF Honest
      <4> QED
        BY <2>2, <3>3, <3>6, <4>1 DEF Seen
    <3> QED
      BY <3>1, <3>7 DEF AnyLarge
  <2> QED
    BY <2>1, <2>2
<1> QED
  BY <1>1, TruthInit, TruthStep, PageInvariance, PTL DEF Spec
=============================================================================
