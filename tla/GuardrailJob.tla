---------------------------- MODULE GuardrailJob -----------------------------
(***************************************************************************)
(* The guardrail job: measure every row of the origin and report whether    *)
(* any is too large (crates/cdm-engine/src/jobs/guardrail.rs and            *)
(* guardrail/origin.rs), over the paged scan with retries of                *)
(* crates/cdm-cql/src/exec/scan.rs, which the migrate job reads with too.   *)
(*                                                                          *)
(* A range holds a permit of the read semaphore from before its first page  *)
(* until it ends.  Pages may be empty before the last one.  A page request  *)
(* is retried in place; a page whose answer cannot be decoded is NOT asked  *)
(* for again, for the paging state has moved on by then, unless it was the  *)
(* last.  Rows are measured by the size of their largest column.            *)
(***************************************************************************)
EXTENDS Integers, Sequences, FiniteSets

CONSTANTS
    Ranges,        \* the ranges being scanned, each by its own worker
    MaxReads,      \* perfops.max_inflight_reads
    MaxAttempts,   \* the attempts a page request gets
    Threshold,     \* the size above which a column is too large
    Tables         \* bound: what the ranges may hold, [Ranges -> Seq(page)]

ASSUME GuardrailSizes == MaxReads \in Nat \ {0} /\ MaxAttempts \in Nat \ {0} /\ Threshold \in Nat
ASSUME GuardrailTables == Tables \subseteq [Ranges -> Seq(Seq(Nat))]
ASSUME NoEmptyScan == \A t \in Tables : \A r \in Ranges : t[r] # <<>>
ASSUME RangesFinite == IsFiniteSet(Ranges)

VARIABLES
    table,     \* the pages of each range, as the server would serve them
    task,      \* where each range has got to, its ScanState included
    counters,  \* each range's READ, VALID and LARGE
    slots,     \* available permits of the read semaphore
    killed,    \* the run's cancellation token
    served,    \* history: the pages whose rows were handed over
    repeated,  \* history: the pages handed over again
    undecoded  \* history: the pages given up because they could not be decoded

vars == <<table, task, counters, slots, killed, served, repeated, undecoded>>

NewTask == [pc |-> "open", paging |-> 1, finished |-> FALSE, attempts |-> 0,
            buffer |-> <<>>, status |-> "STARTED"]

Init ==
    /\ table \in Tables
    /\ task = [r \in Ranges |-> NewTask]
    /\ counters = [r \in Ranges |-> [read |-> 0, valid |-> 0, large |-> 0]]
    /\ slots = MaxReads
    /\ killed = FALSE
    /\ served = [r \in Ranges |-> {}] /\ repeated = [r \in Ranges |-> {}]
    /\ undecoded = [r \in Ranges |-> {}]

At(r, pc) == task[r].pc = pc
NumPages(r) == Len(table[r])

-----------------------------------------------------------------------------
\* read_slot(): held for the whole scan.
Open(r) ==
    /\ At(r, "open") /\ slots > 0
    /\ slots' = slots - 1
    /\ task' = [task EXCEPT ![r].pc = "page"]
    /\ UNCHANGED <<table, counters, killed, served, repeated, undecoded>>

\* process() returns and its slot is dropped.
KeepSlot == UNCHANGED slots
DropSlot == slots' = slots + 1
End(r, status) ==
    /\ task' = [task EXCEPT ![r].pc = "ended", ![r].status = status, ![r].buffer = <<>>]
    /\ DropSlot

\* ScanState::attempt moves the paging state as soon as the response is in, before it is decoded.
MovedUnfinished(r) ==
    IF task[r].paging = NumPages(r) THEN task[r] ELSE [task[r] EXCEPT !.paging = @ + 1]
Moved(r) ==
    IF task[r].paging = NumPages(r) THEN [task[r] EXCEPT !.finished = TRUE]
                                    ELSE [task[r] EXCEPT !.paging = @ + 1]

\* next_page(): the scan is asked for another page.
Asking(r) == At(r, "page") /\ task[r].buffer = <<>>
Requesting(r) == Asking(r) /\ (task[r].finished => task[r].attempts > 0)

\* The page arrives and its rows are measured into the buffer; an empty page leads to the next.
NextPage(r) ==
    LET page == task[r].paging
    IN  /\ Requesting(r)
        /\ task' = [task EXCEPT ![r] = [Moved(r) EXCEPT !.buffer = table[r][page],
                                                        !.attempts = 0]]
        /\ served' = [served EXCEPT ![r] = @ \cup {page}]
        /\ repeated' = [repeated EXCEPT ![r] = @ \cup (served[r] \cap {page})]
        /\ UNCHANGED <<table, counters, slots, killed, undecoded>>

\* CON-011: should_retry().  The request is sent again from the state the scan is in.
MayRetry(r) == task[r].attempts + 1 < MaxAttempts
Retry(r, state) == task' = [task EXCEPT ![r] = [state EXCEPT !.attempts = @ + 1]]

RequestRetried(r) ==
    /\ Requesting(r) /\ MayRetry(r)
    /\ Retry(r, task[r])
    /\ UNCHANGED <<table, counters, slots, killed, served, repeated, undecoded>>

\* The response carries no rows section: the scan has moved on when it retries.
DecodeRetried(r) ==
    /\ Requesting(r) /\ MayRetry(r)
    /\ Retry(r, Moved(r))
    /\ undecoded' = [undecoded EXCEPT ![r] =
                       IF task[r].paging = NumPages(r) THEN @ ELSE @ \cup {task[r].paging}]
    /\ UNCHANGED <<table, counters, slots, killed, served, repeated>>

\* The attempts are used up, the error is not retryable, or a row of the page cannot be read.
ScanFails(r) ==
    /\ Requesting(r)
    /\ End(r, "FAIL")
    /\ UNCHANGED <<table, counters, killed, served, repeated, undecoded>>

\* The scan is finished: the range passes, whatever sizes it found.
ScanDone(r) ==
    /\ Asking(r) /\ ~Requesting(r)
    /\ End(r, "PASS")
    /\ UNCHANGED <<table, counters, killed, served, repeated, undecoded>>

\* ENG-010: a row is at hand when the cancellation is seen: the range stops there, and passes.
Cancel(r) ==
    /\ At(r, "page") /\ task[r].buffer # <<>> /\ killed
    /\ End(r, "PASS")
    /\ UNCHANGED <<table, counters, killed, served, repeated, undecoded>>

\* ColumnSizeGuardrail::check
TooLarge(size) == size > Threshold

MeasureRow(r) ==
    /\ At(r, "page") /\ task[r].buffer # <<>> /\ ~killed
    /\ LET found == IF TooLarge(Head(task[r].buffer)) THEN "large" ELSE "valid"
       IN  counters' = [counters EXCEPT ![r].read = @ + 1, ![r][found] = @ + 1]
    /\ task' = [task EXCEPT ![r].buffer = Tail(@)]
    /\ UNCHANGED <<table, slots, killed, served, repeated, undecoded>>

\* The scheduler drops a range that did not notice; it stays STARTED and is no scan any more.
Abandon(r) ==
    /\ killed /\ ~At(r, "ended")
    /\ task' = [task EXCEPT ![r].pc = "ended", ![r].buffer = <<>>]
    /\ IF At(r, "open") THEN UNCHANGED slots ELSE DropSlot
    /\ UNCHANGED <<table, counters, killed, served, repeated, undecoded>>

Kill ==
    /\ ~killed
    /\ killed' = TRUE
    /\ UNCHANGED <<table, task, counters, slots, served, repeated, undecoded>>

-----------------------------------------------------------------------------
AllEnded == \A r \in Ranges : At(r, "ended")
AnyLarge == \E r \in Ranges : counters[r].large > 0

\* run_status(): a run stopped early keeps the scheduler's status, else LARGE decides.
RunStatusOfCounters == IF AnyLarge THEN "DIFF" ELSE "ENDED"
RunStatus ==
    CASE killed -> "INTERRUPTED"
      [] ~killed /\ AnyLarge -> "DIFF"
      [] OTHER -> "ENDED"

Scan(r) ==
    \/ Open(r) \/ NextPage(r) \/ RequestRetried(r) \/ DecodeRetried(r) \/ ScanFails(r)
    \/ ScanDone(r) \/ Cancel(r) \/ MeasureRow(r) \/ Abandon(r)
Ended == AllEnded /\ UNCHANGED vars
Next == Kill \/ Ended \/ \E r \in Ranges : Scan(r)

Spec == Init /\ [][Next]_vars

-----------------------------------------------------------------------------
Tasks == [pc: {"open", "page", "ended"}, paging: Nat \ {0}, finished: BOOLEAN,
          attempts: 0..(MaxAttempts - 1), buffer: Seq(Nat), status: {"STARTED", "PASS", "FAIL"}]

\* Every variable keeps its type; no page is asked for past the last.
TypeOK ==
    /\ table \in Tables
    /\ task \in [Ranges -> Tasks]
    /\ counters \in [Ranges -> [read: Nat, valid: Nat, large: Nat]]
    /\ slots \in Nat
    /\ killed \in BOOLEAN
    /\ {served, repeated, undecoded} \subseteq [Ranges -> SUBSET Nat]
    /\ \A r \in Ranges : task[r].paging <= NumPages(r)

\* ENG-007: the slots and the ranges that are scanning add up to perfops.max_inflight_reads, so a
\* range gives its slot back on every path out of it.
Scanning == {r \in Ranges : At(r, "page")}
SlotsConserved == slots + Cardinality(Scanning) = MaxReads

\* Retries never make a page count twice: its rows are handed over at most once, also when the
\* last page had to be asked for again after it could not be decoded.
NoPageTwice == \A r \in Ranges : repeated[r] = {}

Sizes(r) == UNION {{table[r][p][k] : k \in DOMAIN table[r][p]} : p \in DOMAIN table[r]}

\* GRD-003, CLI-004: what the exit status of a finished run tells a pipeline.  DIFF is reported only
\* for a table that has a row over the threshold; ENDED means that there is none, unless a range
\* failed or a page could not be decoded.
StatusTellsTheTruth ==
    AllEnded =>
      LET tooLarge == \E r \in Ranges : \E size \in Sizes(r) : size > Threshold
          whole == \A r \in Ranges : task[r].status = "PASS" /\ undecoded[r] = {}
      IN  /\ RunStatus = "DIFF" => tooLarge
          /\ RunStatus = "ENDED" /\ whole => ~tooLarge
=============================================================================
