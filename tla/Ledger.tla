------------------------------- MODULE Ledger -------------------------------
(***************************************************************************)
(* The general ledger of one company: journal entries, their document      *)
(* numbers, the accounting periods and the running balances of             *)
(* gl_account_balances, as the request handlers of AccountingEngineService,*)
(* JournalEntriesService, NumberingService and FiscalPeriodsService change *)
(* them.                                                                   *)
(*                                                                         *)
(* Every handler is one PostgreSQL transaction at READ COMMITTED           *)
(* (TenantPrismaService.run), so its reads see whatever is committed when  *)
(* they run and its writes appear together when it commits.  A handler is  *)
(* therefore a few actions of one session: its reads, each of which keeps  *)
(* what the code keeps, the SELECT ... FOR UPDATE on the number sequence,  *)
(* which waits for the row's holder, and one commit.  The update of a      *)
(* journal entry locks its row and runs the immutability trigger on the    *)
(* row's latest version, so the trigger belongs to the commit.  A session  *)
(* may roll back before its commit at any point (crash, the transaction's  *)
(* 5 s timeout, a deadlock victim).                                        *)
(***************************************************************************)
EXTENDS DoubleEntry

CONSTANTS
  Sessions,    \* request handlers that may run at the same time
  Periods,     \* accounting_periods of the company
  NoPeriod,    \* the period of a row or a request that has none
  MaxEntries,  \* bound: journal entries that can ever be created
  Requests     \* the rows the users and the posting rules come up with

ASSUME LedgerAssumption ==
  /\ IsFiniteSet(Periods) /\ NoPeriod \notin Periods
  /\ MaxEntries \in Nat
  /\ Requests \subseteq Seq(Row)

EntryIds == 1..MaxEntries
Postable == {Stored(q) : q \in {q \in Requests : Accepts(q)}}
Statuses == {"absent", "draft", "submitted", "approved", "posted", "reversed"}
PeriodStatuses == {"open", "closed", "locked"}
Ops == {"none", "create", "submit", "approve", "post", "reverse", "event"}

VARIABLES
  periodStatus,  \* accounting_periods.status
  entries,       \* journal_entries with their lines, in the order of commit
  gl,            \* gl_account_balances: debit_total and credit_total
  nextNumber,    \* document_number_sequences.next_number, 0 before the row
  sess           \* the transaction each session is running, and its locals

vars == <<periodStatus, entries, gl, nextNumber, sess>>

Entry == [status : Statuses, period : Periods \cup {NoPeriod}, lines : Lines,
          number : Nat, reversalOf : EntryIds \cup {0}]
Absent == [status |-> "absent", period |-> NoPeriod, lines |-> NoLines,
           number |-> 0, reversalOf |-> 0]

Session == [op : Ops, pc : {"idle", "period", "number", "write"},
            entry : EntryIds \cup {0}, period : Periods \cup {NoPeriod},
            lines : Lines, number : Nat, locked : BOOLEAN]
Idle == [op |-> "none", pc |-> "idle", entry |-> 0, period |-> NoPeriod,
         lines |-> NoLines, number |-> 0, locked |-> FALSE]

-----------------------------------------------------------------------------
(***************************************************************************)
(* Pure parts of the code.                                                 *)
(***************************************************************************)

\* Mutants of TriggerAllows: no trigger, and the trigger before its last
\* migration, which let a reversed entry be written again.
MutantNoTrigger(old, new) == TRUE
MutantOldTrigger(old, new) == old # "posted" \/ new = "reversed"

\* reject_edit_of_posted_journal_entry, on the row's current version.
TriggerAllows(old, new) ==
  \/ old = "posted" /\ new = "reversed"
  \/ old \notin {"posted", "reversed"}

\* The status a workflow step requires, and the one it writes.
From == [submit |-> "draft", approve |-> "submitted", post |-> "approved",
         reverse |-> "posted"]
To == [submit |-> "submitted", approve |-> "approved", post |-> "posted",
       reverse |-> "reversed"]

Updating == {"submit", "approve", "post", "reverse"}
Numbering == {"create", "event", "reverse"}

\* Mutant of NumberUnused: there is no unique index.
MutantNoIndex(n) == TRUE

\* unique(company_id, entry_number)
NumberUnused(n) == \A e \in EntryIds : entries[e].number # n

\* The row-level lock of the sequence row is held by nobody.
LockFree == \A s \in Sessions : ~sess[s].locked

\* The id a new row gets: ids are given in the order of commit.
Fresh(e) == /\ entries[e].status = "absent"
            /\ \A d \in 1..(e - 1) : entries[d].status # "absent"

\* Bound: every request that will insert an entry finds an id.
Room ==
  Cardinality({e \in EntryIds : entries[e].status = "absent"})
    > Cardinality({s \in Sessions : sess[s].op \in Numbering})

-----------------------------------------------------------------------------
Init ==
  /\ periodStatus = [p \in Periods |-> "open"]
  /\ entries = [e \in EntryIds |-> Absent]
  /\ gl = [p \in Periods |-> NoTotals]
  /\ nextNumber = 0
  /\ sess = [s \in Sessions |-> Idle]

Become(s, r) == /\ sess' = [sess EXCEPT ![s] = r]
                /\ UNCHANGED <<periodStatus, entries, gl, nextNumber>>

(***************************************************************************)
(* First reads.  A request that its first check refuses changes nothing    *)
(* and is not modelled.                                                    *)
(***************************************************************************)

\* JournalEntriesService.create: the period only has to exist, and no amount
\* a user enters is negative.
BeginCreate(s, q, p) ==
  /\ sess[s].pc = "idle" /\ Room
  /\ \A i \in 1..Len(q) : q[i].amount >= 0
  /\ Accepts(q)
  /\ Become(s, [Idle EXCEPT !.op = "create", !.pc = "number",
                            !.period = p, !.lines = Stored(q)])

\* AccountingEngineService.postEvent, called by a module's handler.
BeginEvent(s, q, p) ==
  /\ sess[s].pc = "idle" /\ Room
  /\ periodStatus[p] = "open"
  /\ Accepts(q)
  /\ Become(s, [Idle EXCEPT !.op = "event", !.pc = "number",
                            !.period = p, !.lines = Stored(q)])

\* JournalEntriesService.submit and approve.
BeginTransition(s, op, e) ==
  /\ sess[s].pc = "idle"
  /\ entries[e].status = From[op]
  /\ Become(s, [Idle EXCEPT !.op = op, !.pc = "write", !.entry = e])

\* JournalEntriesService.post: reads the entry and, next, its period.
BeginPost(s, e) ==
  /\ sess[s].pc = "idle"
  /\ entries[e].status = From["post"]
  /\ Become(s, [Idle EXCEPT !.op = "post", !.pc = "period", !.entry = e,
                            !.period = entries[e].period])

\* JournalEntriesService.reverse: the date picks any period.
BeginReverse(s, e, p) ==
  /\ sess[s].pc = "idle" /\ Room
  /\ entries[e].status = From["reverse"]
  /\ Become(s, [Idle EXCEPT !.op = "reverse", !.pc = "period", !.entry = e,
                            !.period = p, !.lines = Mirror(entries[e].lines)])

-----------------------------------------------------------------------------
(***************************************************************************)
(* Later steps of a session.                                               *)
(***************************************************************************)

\* Mutant of ReadPeriod: the period's status is not looked at.
MutantAnyPeriod(s) ==
  /\ sess[s].pc = "period"
  /\ Become(s, [sess[s] EXCEPT
       !.pc = IF sess[s].op \in Numbering THEN "number" ELSE "write"])

\* The period is read after the entry; a period that is not open ends it.
ReadPeriod(s) ==
  /\ sess[s].pc = "period"
  /\ IF periodStatus[sess[s].period] = "open"
     THEN Become(s, [sess[s] EXCEPT
            !.pc = IF sess[s].op \in Numbering THEN "number" ELSE "write"])
     ELSE Become(s, Idle)

\* NumberingService.next: the lock waits for its holder and then reads the
\* row's latest version; before the first document there is no row to lock.
TakeNumber(s) ==
  /\ sess[s].pc = "number"
  /\ LockFree
  /\ \/ /\ nextNumber = 0
        /\ Become(s, [sess[s] EXCEPT !.pc = "write", !.number = 1])
     \/ /\ nextNumber # 0
        /\ Become(s, [sess[s] EXCEPT !.pc = "write", !.number = nextNumber,
                                     !.locked = TRUE])

\* What a commit requires: the trigger lets the update through and the
\* entry number is not taken.
WriteAllowed(s) ==
  /\ sess[s].op \in Updating =>
       TriggerAllows(entries[sess[s].entry].status, To[sess[s].op])
  /\ sess[s].op \in Numbering => NumberUnused(sess[s].number)

Writing(s, ops) ==
  /\ sess[s].op \in ops /\ sess[s].pc = "write"
  /\ WriteAllowed(s)
  /\ sess' = [sess EXCEPT ![s] = Idle]
  /\ UNCHANGED periodStatus

\* Mutant of NewEntry: a reversal that does not name its original.
MutantUnlinked(s, status, original) ==
  [status |-> status, period |-> sess[s].period, lines |-> sess[s].lines,
   number |-> sess[s].number, reversalOf |-> 0]

\* The row a session inserts.
NewEntry(s, status, original) ==
  [status |-> status, period |-> sess[s].period, lines |-> sess[s].lines,
   number |-> sess[s].number, reversalOf |-> original]

CommitTransition(s) ==
  /\ Writing(s, {"submit", "approve"})
  /\ entries' = [entries EXCEPT ![sess[s].entry].status = To[sess[s].op]]
  /\ UNCHANGED <<gl, nextNumber>>

CommitCreate(s) ==
  /\ Writing(s, {"create"})
  /\ \E e \in EntryIds :
       /\ Fresh(e)
       /\ entries' = [entries EXCEPT ![e] = NewEntry(s, "draft", 0)]
  /\ nextNumber' = sess[s].number + 1
  /\ UNCHANGED gl

CommitPost(s) ==
  LET e == sess[s].entry IN
  /\ Writing(s, {"post"})
  /\ entries' = [entries EXCEPT ![e].status = "posted"]
  /\ gl' = [gl EXCEPT ![entries[e].period] = Increment(@, entries[e].lines)]
  /\ UNCHANGED nextNumber

CommitEvent(s) ==
  /\ Writing(s, {"event"})
  /\ \E e \in EntryIds :
       /\ Fresh(e)
       /\ entries' = [entries EXCEPT ![e] = NewEntry(s, "posted", 0)]
  /\ gl' = [gl EXCEPT ![sess[s].period] = Increment(@, sess[s].lines)]
  /\ nextNumber' = sess[s].number + 1

CommitReverse(s) ==
  LET original == sess[s].entry IN
  /\ Writing(s, {"reverse"})
  /\ \E e \in EntryIds :
       /\ Fresh(e)
       /\ entries' = [entries EXCEPT
                        ![e] = NewEntry(s, "posted", original),
                        ![original].status = "reversed"]
  /\ gl' = [gl EXCEPT ![sess[s].period] = Increment(@, sess[s].lines)]
  /\ nextNumber' = sess[s].number + 1

\* The trigger or the unique index raises: the transaction rolls back.
Reject(s) ==
  /\ sess[s].pc = "write"
  /\ ~WriteAllowed(s)
  /\ Become(s, Idle)

\* Any other rollback before the commit.
Abort(s) ==
  /\ sess[s].pc # "idle"
  /\ Become(s, Idle)

\* FiscalPeriodsService.setPeriodStatus: any status to any other, at once.
SetPeriodStatus(p, status) ==
  /\ periodStatus[p] # status
  /\ periodStatus' = [periodStatus EXCEPT ![p] = status]
  /\ UNCHANGED <<entries, gl, nextNumber, sess>>

-----------------------------------------------------------------------------
Begin(s) ==
  \/ \E q \in Requests, p \in Periods : BeginCreate(s, q, p)
  \/ \E q \in Requests, p \in Periods : BeginEvent(s, q, p)
  \/ \E op \in {"submit", "approve"}, e \in EntryIds : BeginTransition(s, op, e)
  \/ \E e \in EntryIds : BeginPost(s, e)
  \/ \E e \in EntryIds, p \in Periods : BeginReverse(s, e, p)

\* A session's next statement, when it does not wait for the lock.
Advance(s) ==
  \/ ReadPeriod(s)
  \/ CommitTransition(s)
  \/ CommitCreate(s)
  \/ CommitPost(s)
  \/ CommitEvent(s)
  \/ CommitReverse(s)
  \/ Reject(s)

Next ==
  \/ \E s \in Sessions : Begin(s) \/ TakeNumber(s) \/ Advance(s) \/ Abort(s)
  \/ \E p \in Periods, status \in PeriodStatuses : SetPeriodStatus(p, status)

Spec == Init /\ [][Next]_vars

-----------------------------------------------------------------------------
(***************************************************************************)
(* Properties.                                                             *)
(***************************************************************************)
Booked == {"posted", "reversed"}
IsBooked(e) == entries[e].status \in Booked

\* The sessions hold and the tables contain what their columns allow, at most
\* one session holds the sequence row's lock.
TypeOK ==
  /\ periodStatus \in [Periods -> PeriodStatuses]
  /\ entries \in [EntryIds -> Entry]
  /\ gl \in [Periods -> Totals]
  /\ nextNumber \in Nat
  /\ sess \in [Sessions -> Session]

\* What entry e puts into column c of period p's balances.
Contribution(e, p, c) ==
  IF IsBooked(e) /\ entries[e].period = p THEN entries[e].lines.total[c] ELSE 0

\* gl_account_balances, which every report reads instead of the entries, always
\* equals the sum of the lines of the booked entries (reversed ones included:
\* their reversal cancels them): no double posting, no lost increment, however
\* the posts, reversals and period changes interleave.
GLMatchesLedger ==
  \A p \in Periods, c \in Columns :
    gl[p][c] = SumFunctionOnSet([e \in EntryIds |-> Contribution(e, p, c)], EntryIds)

\* An entry is reversed exactly when one booked entry is its reversal, which
\* mirrors its lines: two racing reversals never both go through.
ReversalExact ==
  \A e \in EntryIds :
    /\ entries[e].status = "reversed" <=>
         \E r \in EntryIds : entries[r].reversalOf = e
    /\ \A r \in EntryIds : entries[r].reversalOf = e =>
         /\ IsBooked(r) /\ r # e
         /\ entries[r].lines = Mirror(entries[e].lines)
         /\ \A q \in EntryIds : entries[q].reversalOf = e => q = r

\* Entry numbers are gapless and follow the order of commit, even though the
\* first two documents of a company may race for the missing sequence row.
NumbersInCommitOrder ==
  /\ \A e \in EntryIds : entries[e].status # "absent" => entries[e].number = e
  /\ \A e \in EntryIds : entries[e].status # "absent" <=> e < nextNumber

NetBalance == SumFunctionOnSet([p \in Periods |-> Imbalance(gl[p])], Periods)

\* Twice what an entry may be off, in units: the tolerance of the balance check
\* and, for every row, the half cent its rounding after the check may take.
Slack(l) == 2 * Tolerance + Unit * l.rows

\* The trial balance is off by at most the tolerance and half a cent a row for
\* each entry that is still posted: a reversal takes its original's imbalance,
\* the one its stored rows have, out with it.
TrialBalanceDrift ==
  LET slack == SumFunctionOnSet([e \in EntryIds |->
                 IF entries[e].status = "posted" THEN Slack(entries[e].lines) ELSE 0], EntryIds)
  IN  -slack <= 2 * Unit * NetBalance /\ 2 * Unit * NetBalance <= slack

\* A booked entry never changes again, except from posted to reversed.
LedgerImmutable ==
  [][\A e \in EntryIds : IsBooked(e) =>
       \/ entries'[e] = entries[e]
       \/ /\ entries[e].status = "posted"
          /\ entries'[e] = [entries[e] EXCEPT !.status = "reversed"]]_vars

\* A session that has seen period p open and may still post into it.
Posting(s, p) ==
  /\ sess[s].period = p
  /\ sess[s].op \in {"event", "post", "reverse"}
  /\ sess[s].pc \in {"number", "write"}

Posters(p) == {s \in Sessions : Posting(s, p)}

\* While a period is closed nobody new gets to post into it, and once the
\* transactions that had already seen it open are over its balances are sealed.
ClosedPeriodSealed ==
  [][\A p \in Periods : periodStatus[p] # "open" =>
       /\ Posters(p)' \subseteq Posters(p)
       /\ Posters(p) = {} => gl'[p] = gl[p]]_vars

\* The book of AbstractLedger is the booked entries.
Book == INSTANCE AbstractLedger WITH
  Ids <- EntryIds,
  balances <- gl,
  book <- [e \in EntryIds |->
             IF ~IsBooked(e) THEN [state |-> "none"]
             ELSE [state |-> IF entries[e].status = "posted" THEN "live" ELSE "reversed",
                   lines |-> entries[e].lines, period |-> entries[e].period,
                   reverses |-> entries[e].reversalOf]]

\* Whatever the sessions do, the booked entries and the balances behave as the
\* append-only book the other modules rely on.
ImplementsBook == Book!ABSpec

(***************************************************************************)
(* The inductive invariant behind the proofs of LedgerProofs.              *)
(***************************************************************************)

\* What a session carries still fits the tables it will write to: entries keep
\* their lines and period, booked ones stay booked, and the number it took is
\* the next one as long as it holds the lock.
SessionConsistent(s) ==
  LET r == sess[s] IN
  /\ r.op = "none" => r = Idle
  /\ r.pc = "idle" => r.op = "none"
  /\ r.pc = "period" => r.op \in {"post", "reverse"}
  /\ r.pc = "number" => r.op \in Numbering
  /\ r.op \in Updating =>
       r.entry \in EntryIds /\ entries[r.entry].status # "absent"
  /\ r.op \in Numbering => r.period \in Periods
  /\ r.op \in {"create", "event"} => r.lines \in Postable
  /\ r.op = "post" => r.period = entries[r.entry].period
  /\ r.op = "reverse" =>
       IsBooked(r.entry) /\ r.lines = Mirror(entries[r.entry].lines)
  /\ r.op \in Numbering /\ r.pc = "write" =>
       IF r.locked THEN nextNumber # 0 /\ r.number = nextNumber ELSE r.number = 1
  /\ r.locked => /\ r.op \in Numbering /\ r.pc = "write"
                 /\ \A t \in Sessions : sess[t].locked => t = s

\* Rows fill the table in order, numbered by their position; a row that is no
\* reversal stores what passed the balance check.
RowConsistent(e) ==
  LET row == entries[e] IN
  IF e < nextNumber
  THEN /\ row.status # "absent" /\ row.number = e /\ row.period \in Periods
       /\ IF row.reversalOf = 0
          THEN row.lines \in Postable
          ELSE row.status \in Booked
  ELSE row = Absent

LedgerInv ==
  /\ TypeOK
  /\ nextNumber # 1
  /\ \A s \in Sessions : SessionConsistent(s)
  /\ \A e \in EntryIds : RowConsistent(e)

\* The stored rows are off by no more than the check and the rounding allow.
Within(l) ==
  -Slack(l) <= 2 * Unit * Imbalance(l.total) /\ 2 * Unit * Imbalance(l.total) <= Slack(l)

\* What each posted entry leaves in the trial balance: its own imbalance or, if it
\* is a reversal that takes its original's out, nothing; and the other way round
\* again when a reversal is reversed.
Leaves(off, e) ==
  IF entries[e].status = "posted"
  THEN Within(entries[e].lines) /\ off[e] \in {0, Imbalance(entries[e].lines.total)}
  ELSE off[e] = 0

DriftInv ==
  \E off \in [EntryIds -> Int] :
    /\ NetBalance = SumFunctionOnSet(off, EntryIds)
    /\ \A e \in EntryIds : Leaves(off, e)
=============================================================================
