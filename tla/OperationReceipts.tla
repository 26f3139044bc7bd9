------------------------- MODULE OperationReceipts -------------------------
(***************************************************************************)
(* Receipts of background operations: src/mcp/fallbackExecutions with the  *)
(* admission of mcp/transportFallback and the row of the task that         *)
(* taskHistoryStore keeps.                                                 *)
(*                                                                         *)
(* An operation of a task has up to four copies: the record in memory, its *)
(* entry in the task's row of the database, the same entry in a snapshot   *)
(* of the row that waits to be written, and a file, which is a pointer to  *)
(* the row or a journal of a result the row could not take.  The database  *)
(* may be busy or broken and the file may not be writable, at every write; *)
(* a crash leaves the row, the files and the processes the operation owns. *)
(***************************************************************************)
EXTENDS Naturals, FiniteSets

CONSTANTS
    Ops,            \* operation ids
    Requests,       \* what may be asked: tool and arguments, by signature
    Asks,           \* Asks[o]: the request operation o is made for
    None,           \* no copy
    Pointer,        \* the file of an operation that only names its row
    Owning,         \* operations that may start a process
    Stoppable,      \* operations that may be cancelled or shut down
    Ending,         \* operations that end, and are answered, before the instance does
    Fragile,        \* operations whose writes may fail
    Refusals,       \* how a write of the row may fail: busy, broken, unread
    MaxFaults,      \* bound of the instance: crashes, failed writes, records dropped
    MaxDefers,      \* bound of the instance: events recorded for a later write
    MaxReplies      \* bound of the instance: responses on their way

ASSUME Assumptions ==
    /\ Asks \in [Ops -> Requests]
    /\ Owning \subseteq Ops /\ Stoppable \subseteq Ops /\ Ending \subseteq Ops
    /\ Fragile \subseteq Ops
    /\ Refusals \subseteq {"busy", "broken", "unread"}
    /\ MaxFaults \in Nat /\ MaxDefers \in Nat /\ MaxReplies \in Nat

VARIABLES
    mem,        \* the record in memory: executionsByOperationId
    row,        \* the entries in the committed row of the task
    pend,       \* the snapshot of the row that is waiting or being written
    file,       \* the file of each operation
    owner,      \* whether a process of the operation is on record
    replies,    \* responses on their way, with what they say
    started,    \* ghost: operations whose handler was started
    received,   \* ghost: operations whose result a client received
    faults,     \* crashes, failed writes and dropped records so far
    defers      \* events recorded for a later write so far

vars  == <<mem, row, pend, file, owner, replies, started, received, faults, defers>>
store == <<row, pend, file, faults>>
ghost == <<started, received, defers>>

Statuses == {"running", "completed", "cancelled", "interrupted"}

(* What is stored of an operation: status, revision, whether its delivery  *)
(* was acknowledged, whether it was told to stop, and who stated the       *)
(* result (the run, a recovery, a reconciliation), for its text and time.  *)
Entry == [st : Statuses, rev : Nat, ack : BOOLEAN, stop : BOOLEAN,
          by : {"run", "recovery", "reconciliation"}]

(* In memory also: where its promise is, why it was aborted, how durable   *)
(* it is, the last error, whether its pointer needs repair, and whether a  *)
(* retry is scheduled.                                                     *)
Record == [st : Statuses, rev : Nat, ack : BOOLEAN, stop : BOOLEAN,
           by : {"run", "recovery", "reconciliation"},
           run : {"queued", "running", "returned", "none"},
           abort : {"no", "cancel", "shutdown"},
           dur : {"persisted", "journaled", "memory_only"},
           err : {"none", "transient", "hard"},
           repair : BOOLEAN, retry : BOOLEAN]

(* A deferred write of the row: what the row will hold, what is written    *)
(* now, and whether anything joined meanwhile.                             *)
Snapshot == [ops : [Ops -> Entry \union {None}], snap : [Ops -> Entry \union {None}],
             writing : BOOLEAN, dirty : BOOLEAN]

ASSUME NoCopyAssumption ==
    /\ None \notin Entry /\ None \notin Record /\ None \notin Snapshot
    /\ Pointer \notin Entry /\ Pointer # None

Running(x) == x.st = "running"

EntryOf(m) == [st |-> m.st, rev |-> m.rev, ack |-> m.ack, stop |-> m.stop, by |-> m.by]

Hydrated(c) ==
    [st |-> c.st, rev |-> c.rev, ack |-> c.ack, stop |-> c.stop, by |-> c.by,
     run |-> "none", abort |-> "no", dur |-> "persisted", err |-> "none",
     repair |-> FALSE, retry |-> FALSE]

-----------------------------------------------------------------------------
(* Which copy counts. *)

(* selectPersistedFallback: the journal x is newer than the entry c. *)
Ahead(x, c) == x.rev > c.rev \/ (x.rev = c.rev /\ x.ack /\ ~ c.ack)

(* Two results at one revision. *)
Disagree(x, c) == x.rev = c.rev /\ (x.st # c.st \/ x.by # c.by)

IsJournal(f) == f # None /\ f # Pointer

(* What a read takes for entry c and file f; that they disagree makes it   *)
(* fail.  At equal revision and acknowledgement the journal is taken.      *)
Selected(c, f) ==
    IF ~ IsJournal(f) THEN [entry |-> c, from |-> "row"]
    ELSE IF c = None THEN [entry |-> f, from |-> "journal"]
    ELSE IF Disagree(f, c) THEN [entry |-> None, from |-> "conflict"]
    ELSE IF Ahead(f, c) \/ (f.rev = c.rev /\ f.ack = c.ack)
         THEN [entry |-> f, from |-> "journal"]
    ELSE [entry |-> c, from |-> "stale journal"]

(* readWorkingSession: the waiting snapshot, or else the row. *)
Working == IF pend = None THEN row ELSE pend.ops

(* What a new process would find. *)
Stored(o) == Selected(row[o], file[o])

-----------------------------------------------------------------------------
(* Writing a record: persistFallbackRecord, persistFallbackSnapshot. *)

(* A write of the row succeeds, is refused because the database is busy or *)
(* broken, or is done but cannot be read back.                             *)
DbOutcomes == {"ok"} \union Refusals

Writing == pend # None /\ pend.writing

(* The writes that fail are counted. *)
Faults(o, db, fileOk) ==
    /\ faults' = faults + (IF db = "ok" THEN 0 ELSE 1) + (IF fileOk THEN 0 ELSE 1)
    /\ faults' <= MaxFaults
    /\ faults' > faults => o \in Fragile

(* Mutant: the waiting snapshot is dropped by a write that then fails, and *)
(* the caller takes that for a success.                                    *)
RowWriteBlind(o, c, db) ==
    [row |-> IF db = "ok" /\ ~ Writing THEN [Working EXCEPT ![o] = c] ELSE row,
     pend |-> IF Writing THEN [pend EXCEPT !.ops = [Working EXCEPT ![o] = c], !.dirty = TRUE]
              ELSE None,
     err |-> IF db \in {"ok", "unread"} THEN "none" ELSE "transient"]

(* Mutant: the row is written at once though an older snapshot of it is on *)
(* its way to the worker.                                                  *)
RowWriteAtOnce(o, c, db) ==
    LET next == [Working EXCEPT ![o] = c]
        written == IF db \in {"ok", "unread"} THEN next ELSE row
    IN [row |-> written,
        pend |-> IF Writing THEN [pend EXCEPT !.ops = next] ELSE None,
        err |-> CASE db = "ok" -> "none" [] db = "broken" -> "hard" [] OTHER -> "transient"]

(* recordTaskBackgroundOperation and persistSession: while a snapshot is   *)
(* being written the change only joins it; otherwise the snapshot is       *)
(* dropped and the row written at once.  Then the row is read back.        *)
RowWrite(o, c, db) ==
    LET next == [Working EXCEPT ![o] = c]
        written == IF ~ Writing /\ db \in {"ok", "unread"} THEN next ELSE row
        there == written[o] # None
                 /\ <<written[o].rev, written[o].st, written[o].ack>> = <<c.rev, c.st, c.ack>>
    IN [row |-> written,
        pend |-> IF Writing THEN [pend EXCEPT !.ops = next, !.dirty = TRUE] ELSE None,
        err |-> IF db = "unread" THEN "transient"
                ELSE IF ~ Writing /\ db = "broken" THEN "hard"
                ELSE IF ~ Writing /\ db = "busy" THEN "transient"
                ELSE IF there THEN "none" ELSE "transient"]

(* Mutant: a journal counts as good enough, and nothing is retried. *)
NotedForGood(m, dur, err, repair) ==
    [m EXCEPT !.dur = dur, !.err = err, !.repair = repair,
              !.retry = (err = "transient" /\ dur # "journaled")]

(* The record after a write: a transient error schedules a retry, another  *)
(* one ends them (scheduleFallbackPersistenceRetry).                       *)
Noted(m, dur, err, repair) ==
    [m EXCEPT !.dur = dur, !.err = err, !.repair = repair, !.retry = (err = "transient")]

(* Write record m of o.  A result the row cannot take goes to the journal. *)
Persist(o, m) ==
    \E db \in DbOutcomes, fileOk \in BOOLEAN :
        LET w == RowWrite(o, EntryOf(m), db) IN
        /\ Faults(o, db, fileOk)
        /\ row' = w.row
        /\ pend' = w.pend
        /\ \/ /\ w.err = "none" /\ fileOk
              /\ file' = [file EXCEPT ![o] = Pointer]
              /\ mem' = [mem EXCEPT ![o] = Noted(m, "persisted", "none", FALSE)]
           \/ /\ w.err = "none" /\ ~ fileOk
              /\ UNCHANGED file
              /\ mem' = [mem EXCEPT ![o] = Noted(m, "persisted", "hard", TRUE)]
           \/ /\ w.err # "none" /\ ~ Running(m) /\ fileOk
              /\ file' = [file EXCEPT ![o] = EntryOf(m)]
              /\ mem' = [mem EXCEPT ![o] = Noted(m, "journaled", w.err, FALSE)]
           \/ /\ w.err # "none" /\ (Running(m) \/ ~ fileOk)
              /\ UNCHANGED file
              /\ mem' = [mem EXCEPT ![o] =
                            Noted(m, "memory_only", IF Running(m) THEN w.err ELSE "hard", FALSE)]

(* Why the file of o may not become a pointer yet: the row must hold what  *)
(* the journal holds and what the memory holds.                            *)
Refusal(x, c) ==
    IF Ahead(x, c) THEN "transient" ELSE IF Disagree(x, c) THEN "hard" ELSE "none"

RepairRefusal(o, m) ==
    LET c == row[o] IN
    IF c = None THEN "transient"
    ELSE IF Running(c) THEN "transient"
    ELSE IF IsJournal(file[o]) /\ Refusal(file[o], c) # "none" THEN Refusal(file[o], c)
    ELSE Refusal(EntryOf(m), c)

(* repairFallbackPointer; reading the row may fail too. *)
Repair(o, m) ==
    /\ UNCHANGED <<row, pend>>
    /\ \/ \E db \in DbOutcomes :
             LET refusal == CASE db = "ok" -> RepairRefusal(o, m)
                              [] db = "broken" -> "hard"
                              [] OTHER -> "transient" IN
             /\ refusal # "none"
             /\ Faults(o, db, TRUE)
             /\ mem' = [mem EXCEPT ![o] = Noted(m, m.dur, refusal, TRUE)]
             /\ UNCHANGED file
       \/ /\ RepairRefusal(o, m) = "none"
          /\ LET n == IF row[o].rev > m.rev THEN Hydrated(row[o])
                      ELSE [m EXCEPT !.ack = @ \/ row[o].ack]
             IN \/ /\ file' = [file EXCEPT ![o] = Pointer]
                   /\ mem' = [mem EXCEPT ![o] = Noted(n, "persisted", "none", FALSE)]
                   /\ UNCHANGED faults
                \/ /\ Faults(o, "ok", FALSE)
                   /\ UNCHANGED file
                   /\ mem' = [mem EXCEPT ![o] = Noted(n, "persisted", "hard", TRUE)]

Reattempt(o, m) == IF m.repair THEN Repair(o, m) ELSE Persist(o, m)

-----------------------------------------------------------------------------
(* Requests: startFallbackExecution behind the history barrier. *)

(* Operations of the task that this process does not know yet. *)
Lost == {o \in Ops : mem[o] = None /\ Working[o] # None}

(* The record that answers a repeated request. *)
Reusable(r) ==
    {o \in Ops : Asks[o] = r /\ mem[o] # None /\ (Running(mem[o]) \/ ~ mem[o].ack)}

Accepted ==
    [st |-> "running", rev |-> 1, ack |-> FALSE, stop |-> FALSE, by |-> "run",
     run |-> "queued", abort |-> "no", dur |-> "persisted", err |-> "none",
     repair |-> FALSE, retry |-> FALSE]

(* Nothing waits to be written for the task, every operation of it is      *)
(* known, and none answers the request: it is accepted once row and        *)
(* pointer are written, and refused if one of them is not.  What a refused *)
(* admission has written stays.                                            *)
Admit(o) ==
    /\ pend = None
    /\ mem[o] = None /\ row[o] = None
    /\ Lost = {}
    /\ Reusable(Asks[o]) = {}
    /\ row' = [row EXCEPT ![o] = EntryOf(Accepted)]
    /\ \/ /\ file' = [file EXCEPT ![o] = Pointer]
          /\ mem' = [mem EXCEPT ![o] = Accepted]
          /\ UNCHANGED faults
       \/ Faults(o, "ok", FALSE) /\ UNCHANGED <<file, mem>>
    /\ UNCHANGED <<pend, owner, replies, ghost>>

(* recoverExecutionRecords for one of them, as a request or a status read  *)
(* does: a running one that no process belongs to was interrupted, and     *)
(* that is written with no journal to fall back on.                        *)
Interrupted(c) ==
    [Hydrated(c) EXCEPT !.st = "interrupted", !.rev = @ + 1, !.by = "recovery"]

RecoverInterrupted(o, c) ==
    \E db \in DbOutcomes, fileOk \in BOOLEAN :
        LET w == RowWrite(o, EntryOf(Interrupted(c)), db) IN
        /\ Faults(o, db, fileOk)
        /\ row' = w.row
        /\ pend' = w.pend
        /\ file' = IF w.err = "none" /\ fileOk THEN [file EXCEPT ![o] = Pointer] ELSE file
        /\ mem' = [mem EXCEPT ![o] =
                      IF w.err = "none" THEN Interrupted(c)
                      ELSE Noted(Interrupted(c), "memory_only", w.err, FALSE)]

RecoverResult(o, read) ==
    CASE read.from = "stale journal" ->
            Repair(o, [Hydrated(read.entry) EXCEPT !.dur = "memory_only", !.repair = TRUE])
      [] read.from = "journal" ->
            /\ mem' = [mem EXCEPT ![o] =
                          [Hydrated(read.entry) EXCEPT !.dur = "journaled", !.retry = TRUE]]
            /\ UNCHANGED store
      [] OTHER ->
            /\ mem' = [mem EXCEPT ![o] = Hydrated(read.entry)]
            /\ UNCHANGED store

Recover(o) ==
    /\ o \in Lost
    /\ LET read == Selected(Working[o], file[o]) IN
       /\ read.entry # None
       /\ IF Running(read.entry) /\ ~ owner[o] THEN RecoverInterrupted(o, read.entry)
          ELSE RecoverResult(o, read)
    /\ UNCHANGED <<owner, replies, ghost>>

(* reconcileLiveFallback, for a status read of a known operation: a record *)
(* with no promise follows the row, and what is not stored is tried again. *)
Follows(o) ==
    /\ mem[o].run = "none" /\ Running(mem[o])
    /\ Working[o] # None
    /\ \/ Working[o].rev > mem[o].rev
       \/ (Working[o].by = "reconciliation") # (mem[o].by = "reconciliation")

StatusRead(o) ==
    /\ mem[o] # None
    /\ \/ /\ Follows(o)
          /\ mem' = [mem EXCEPT ![o] = Hydrated(Working[o])]
          /\ UNCHANGED store
       \/ /\ ~ Follows(o)
          /\ mem[o].repair \/ mem[o].err # "none" \/ mem[o].dur # "persisted"
          /\ Reattempt(o, mem[o])
    /\ UNCHANGED <<owner, replies, ghost>>

RetryFires(o) ==
    /\ mem[o] # None
    /\ mem[o].retry
    /\ Reattempt(o, mem[o])
    /\ UNCHANGED <<owner, replies, ghost>>

(* pruneFallbackExecutions drops an old record with its retry: one that is *)
(* stored somewhere, in the row or a journal.                              *)
Prune(o) ==
    /\ mem[o] # None
    /\ ~ Running(mem[o]) /\ mem[o].dur # "memory_only"
    /\ faults < MaxFaults
    /\ faults' = faults + 1
    /\ mem' = [mem EXCEPT ![o] = None]
    /\ UNCHANGED <<row, pend, file, owner, replies, ghost>>

-----------------------------------------------------------------------------
(* The run of an accepted operation. *)

Live(o) == mem[o] # None /\ mem[o].run # "none"

(* The microtask after the admission; the handler may start a process.     *)
StartHandler(o) ==
    /\ Live(o) /\ mem[o].run = "queued"
    /\ mem[o].abort # "shutdown"
    /\ mem' = [mem EXCEPT ![o].run = "running"]
    /\ started' = started \union {o}
    /\ \E process \in {b \in BOOLEAN : b => o \in Owning} : owner' = [owner EXCEPT ![o] = process]
    /\ UNCHANGED <<store, replies, received, defers>>

(* Its process is gone from the records, unless its end is in doubt.       *)
ProcessSettles(o) == \E doubt \in BOOLEAN : owner' = [owner EXCEPT ![o] = @ /\ doubt]

(* The handler returns: phase "persisting", as any change of phase.        *)
HandlerReturns(o) ==
    /\ o \in Ending
    /\ Live(o) /\ mem[o].run = "running"
    /\ Persist(o, [mem[o] EXCEPT !.run = "returned", !.rev = @ + 1])
    /\ ProcessSettles(o)
    /\ UNCHANGED <<replies, ghost>>

(* Mutant: the reason of the abort is taken for a status. *)
OutcomeOfReason(m) == IF m.abort = "no" THEN "completed" ELSE m.abort

Outcome(m) ==
    CASE m.abort = "no" -> "completed" [] m.abort = "cancel" -> "cancelled" [] OTHER -> "interrupted"

(* The result, after its output is retained, or the error the handler ends *)
(* with, or that of a shutdown before it started.                          *)
Settle(o) ==
    /\ o \in Ending
    /\ Live(o)
    /\ mem[o].run = "queued" => mem[o].abort = "shutdown"
    /\ Persist(o, [mem[o] EXCEPT !.st = Outcome(mem[o]), !.run = "none", !.rev = @ + 1])
    /\ IF mem[o].run = "running" THEN ProcessSettles(o) ELSE UNCHANGED owner
    /\ UNCHANGED <<replies, ghost>>

(* cancelFallbackExecution.  A record that was read back has no controller *)
(* to abort: the call throws after it has changed the record.              *)
Cancel(o) ==
    /\ o \in Stoppable
    /\ mem[o] # None
    /\ Running(mem[o]) /\ ~ mem[o].stop
    /\ LET m == [mem[o] EXCEPT !.stop = TRUE, !.rev = @ + 1] IN
       IF Live(o) THEN Persist(o, [m EXCEPT !.abort = IF @ = "no" THEN "cancel" ELSE @])
       ELSE mem' = [mem EXCEPT ![o] = m] /\ UNCHANGED store
    /\ UNCHANGED <<owner, replies, ghost>>

(* One iteration of stopFallbackExecutionsForShutdown. *)
Shutdown(o) ==
    /\ o \in Stoppable
    /\ Live(o) /\ mem[o].abort = "no"
    /\ Persist(o, [mem[o] EXCEPT !.abort = "shutdown", !.rev = @ + 1])
    /\ UNCHANGED <<owner, replies, ghost>>

(* mutationAutoRecovery finds that the process of an operation no handler  *)
(* is waiting for has stopped: reconcileTaskExecutionHistory behind the    *)
(* barrier, and then its record is archived.                               *)
OwnerStops(o) ==
    /\ owner[o] /\ ~ Live(o)
    /\ pend = None
    /\ owner' = [owner EXCEPT ![o] = FALSE]
    /\ row' = IF row[o].st \in {"running", "interrupted"} /\ row[o].by # "reconciliation"
              THEN [row EXCEPT ![o].st = "interrupted", ![o].rev = @ + 1,
                               ![o].by = "reconciliation"]
              ELSE row
    /\ UNCHANGED <<mem, pend, file, replies, faults, ghost>>

-----------------------------------------------------------------------------
(* Responses. *)

(* deliveryCallback: what a response says is fixed when it is made.  The   *)
(* revision of an operation that still runs is never compared.             *)
Reply(o) ==
    /\ o \in Ending
    /\ mem[o] # None
    /\ Cardinality(replies) < MaxReplies
    /\ replies' = replies \union
                    {[op |-> o, st |-> mem[o].st, rev |-> IF Running(mem[o]) THEN 0 ELSE mem[o].rev]}
    /\ UNCHANGED <<mem, store, owner, ghost>>

(* Mutant: any delivery acknowledges the present result. *)
AcknowledgesAnything(m, r) == ~ Running(m)

(* acknowledgeFallbackDelivery: only of the result the response carried. *)
Acknowledges(m, r) == r.st # "running" /\ m.st = r.st /\ m.rev = r.rev

Delivered(r) ==
    /\ r \in replies
    /\ replies' = replies \ {r}
    /\ received' = IF r.st = "running" THEN received ELSE received \union {r.op}
    /\ IF mem[r.op] # None /\ Acknowledges(mem[r.op], r)
       THEN Persist(r.op, [mem[r.op] EXCEPT !.ack = TRUE])
       ELSE UNCHANGED <<mem, store>>
    /\ UNCHANGED <<owner, started, defers>>

ReplyLost(r) ==
    /\ r \in replies
    /\ replies' = replies \ {r}
    /\ UNCHANGED <<mem, store, owner, ghost>>

-----------------------------------------------------------------------------
(* The row and the world. *)

(* An event of the task is recorded for a later write: persistSession with *)
(* defer.                                                                  *)
Defer ==
    /\ defers < MaxDefers
    /\ defers' = defers + 1
    /\ pend' = IF pend = None THEN [ops |-> row, snap |-> row, writing |-> FALSE, dirty |-> FALSE]
               ELSE [pend EXCEPT !.dirty = pend.writing]
    /\ UNCHANGED <<mem, row, file, owner, replies, started, received, faults>>

(* flushPendingSession, to its worker and back. *)
StartFlush ==
    /\ pend # None /\ ~ pend.writing
    /\ pend' = [pend EXCEPT !.writing = TRUE, !.snap = pend.ops, !.dirty = FALSE]
    /\ UNCHANGED <<mem, row, file, owner, replies, faults, ghost>>

EndFlush ==
    /\ Writing
    /\ \/ /\ row' = pend.snap
          /\ UNCHANGED faults
          /\ pend' = IF pend.dirty THEN [pend EXCEPT !.writing = FALSE, !.dirty = FALSE, !.snap = pend.ops]
                     ELSE None
       \/ /\ faults < MaxFaults
          /\ faults' = faults + 1
          /\ UNCHANGED row
          /\ pend' = [pend EXCEPT !.writing = FALSE, !.dirty = FALSE, !.snap = pend.ops]
    /\ UNCHANGED <<mem, file, owner, replies, ghost>>

Crash ==
    /\ faults < MaxFaults
    /\ faults' = faults + 1
    /\ mem' = [o \in Ops |-> None]
    /\ pend' = None
    /\ replies' = {}
    /\ UNCHANGED <<row, file, owner, started, received, defers>>

Init ==
    /\ mem = [o \in Ops |-> None]
    /\ row = [o \in Ops |-> None]
    /\ file = [o \in Ops |-> None]
    /\ pend = None
    /\ owner = [o \in Ops |-> FALSE]
    /\ replies = {} /\ started = {} /\ received = {} /\ faults = 0 /\ defers = 0

Next ==
    \/ \E o \in Ops :
          \/ Admit(o) \/ Recover(o) \/ StatusRead(o) \/ RetryFires(o) \/ Prune(o)
          \/ StartHandler(o) \/ HandlerReturns(o) \/ Settle(o)
          \/ Cancel(o) \/ Shutdown(o) \/ OwnerStops(o) \/ Reply(o)
    \/ \E r \in replies : Delivered(r) \/ ReplyLost(r)
    \/ Defer \/ StartFlush \/ EndFlush
    \/ Crash

(* Retry timers fire and the worker answers.  That a retry gets through in *)
(* the end rests on the bounds: failures and deferred events are finitely  *)
(* many.                                                                   *)
Fairness == WF_vars(EndFlush) /\ \A o \in Ops : WF_vars(RetryFires(o))

Spec == Init /\ [][Next]_vars /\ Fairness

-----------------------------------------------------------------------------
(* Properties. *)

(* What the variables hold. *)
TypeOK ==
    /\ mem \in [Ops -> Record \union {None}]
    /\ row \in [Ops -> Entry \union {None}]
    /\ file \in [Ops -> Entry \union {None, Pointer}]
    /\ pend \in Snapshot \union {None}
    /\ owner \in [Ops -> BOOLEAN]
    /\ replies \subseteq [op : Ops, st : Statuses, rev : Nat]
    /\ started \subseteq Ops /\ received \subseteq Ops
    /\ faults \in 0 .. MaxFaults /\ defers \in 0 .. MaxDefers

(* A client that repeats a request until it has an answer does not have it *)
(* done twice: a handler starts only when the client has received how each *)
(* earlier operation of the same request ended, whatever was lost since:   *)
(* responses, memory, writes.                                              *)
RunsOnce ==
    [][\A o \in started' \ started : \A p \in started :
          Asks[p] = Asks[o] => p \in received]_vars

(* The process of o was reconciled with the row, which then holds a newer  *)
(* statement than the run's, or one that disagrees with its journal.       *)
Reconciled(s) == s.from = "conflict" \/ (s.entry # None /\ s.entry.by = "reconciliation")

(* What a record says of its durability is true of the copies that survive *)
(* a crash: they hold its result, and that it was acknowledged.            *)
DurabilityIsTruthful ==
    \A o \in Ops :
        mem[o] # None /\ ~ Running(mem[o]) /\ mem[o].dur # "memory_only" =>
            \/ Reconciled(Stored(o))
            \/ Stored(o).entry # None /\ Stored(o).entry.st = mem[o].st
               /\ (mem[o].ack => Stored(o).entry.ack)

(* Once a result of a run could be read from disk, what can be read there  *)
(* is never another result, and it stays acknowledged: no write of an      *)
(* older copy, repair or recovery undoes it.                               *)
ResultsAreFinal ==
    [][\A o \in Ops :
          LET c == Stored(o).entry
              d == Stored(o)'.entry
          IN c # None /\ ~ Running(c) /\ c.by = "run" /\ ~ Reconciled(Stored(o)') =>
                d # None /\ d.st = c.st /\ (c.ack => d.ack)]_vars

(* A result that could not be written because the database was busy is     *)
(* written in the end: a retry is always left to do it.                    *)
Unwritten(o) ==
    /\ mem[o] # None /\ ~ Running(mem[o])
    /\ mem[o].dur # "persisted" \/ mem[o].repair
    /\ mem[o].err # "hard"

ResultsReachTheRow == \A o \in Ops : Unwritten(o) ~> ~ Unwritten(o)
=============================================================================
