--------------------------- MODULE Consolidation ----------------------------
(***************************************************************************)
(* Group consolidation: intercompany transactions between two companies of *)
(* a group, and consolidation runs that add up the companies' trial        *)
(* balances with the matched transactions eliminated.                      *)
(*                                                                         *)
(* Creating a run reads the matched transactions once and then, company by *)
(* company, a trial balance, each through a transaction of its own         *)
(* (ReportsService.trialBalance), so the companies are read at different   *)
(* moments while they go on posting.  Finalizing reads the run, then the   *)
(* unmatched transactions, then writes the status; nothing locks either.   *)
(* match, too, checks the status it has read and writes it later.  What a  *)
(* transaction says of its entries and its amount nothing checks: it may be*)
(* recorded and matched before or without anything being booked.           *)
(* A company's books are its intercompany account and the rest, both as    *)
(* debit - credit, in its own currency; on the first are the entries of    *)
(* the trades, and what takes them back.                                   *)
(***************************************************************************)
EXTENDS Integers, Sequences, FiniteSets, FiniteSetsExt

CONSTANTS
  Sessions,   \* consolidation requests that may run at the same time
  Companies,  \* the companies of the group
  Home,       \* those whose currency is the presentation currency
  Rates,      \* the exchange rates of the others that are entered one after the
              \* other, each with a later date (all before the date of the runs)
  Trades,     \* intercompany transactions the users may record
  Trade,      \* their seller, buyer and amount
  Runs        \* consolidation runs the users may create

ASSUME ConsolidationAssumption ==
  /\ IsFiniteSet(Companies) /\ IsFiniteSet(Trades)
  /\ Home \subseteq Companies /\ Rates \in [Companies \ Home -> Seq(Nat \ {0})]
  /\ Trade \in [Trades -> [a : Companies, b : Companies, amount : Nat]]
  /\ \A t \in Trades : Trade[t].a # Trade[t].b

Accounts == {"intercompany", "other"}

VARIABLES
  books,   \* the balances of each company, as the trial balance reports them
  rated,   \* the number of exchange rates entered for each company
  posted,  \* the sides of the trades whose entry is in the books
  trade,   \* intercompany_transactions.status
  run,     \* consolidation_runs with their lines
  sess,    \* the run or the trade each request works on
  late,    \* the trades that each run cannot have seen: matched after its read of the
           \* matched ones, or recorded after its finalization looked (history)
  bare     \* the trades that have been matched while their seller's books did not hold
           \* them (history)

vars == <<books, rated, posted, trade, run, sess, late, bare>>

\* A line of a run: the translated balance and its elimination.
Line == [translated : Int, elimination : Int]
NoLine == [translated |-> 0, elimination |-> 0]
NoLines == [c \in Companies |-> [a \in Accounts |-> NoLine]]
NoRun == [status |-> "absent", lines |-> NoLines]
Idle == [op |-> "none", on |-> "none", matched |-> {}, todo |-> {}, lines |-> NoLines]
Become(s, t) == sess' = [sess EXCEPT ![s] = t]

-----------------------------------------------------------------------------
(***************************************************************************)
(* The lines of a company, from its trial balance and the transactions the *)
(* run found matched.                                                      *)
(***************************************************************************)
Touching(c, ts) == {t \in ts : c \in {Trade[t].a, Trade[t].b}}
EliminationTotal(c, ts) ==
  SumFunctionOnSet([t \in Touching(c, ts) |-> -Trade[t].amount], Touching(c, ts))

\* resolveRate: the latest rate, which there must be unless the currency is the same
HasRate(c) == c \notin Home => rated[c] > 0
Rate(c) == IF c \in Home THEN 1 ELSE Rates[c][rated[c]]

LinesOf(c, ts) ==
  [a \in Accounts |->
    [translated |-> books[c][a] * Rate(c),
     elimination |-> IF a = "intercompany" THEN EliminationTotal(c, ts) * Rate(c) ELSE 0]]

\* consolidatedSummary adds the lines of an account over the companies.
Summary(r, a) ==
  SumFunctionOnSet([c \in Companies |-> run[r].lines[c][a].translated
                                        + run[r].lines[c][a].elimination], Companies)

-----------------------------------------------------------------------------
Init ==
  /\ books = [c \in Companies |-> [a \in Accounts |-> 0]]
  /\ rated = [c \in Companies \ Home |-> 0]
  /\ posted = {}
  /\ trade = [t \in Trades |-> "absent"]
  /\ run = [r \in Runs |-> NoRun]
  /\ sess = [s \in Sessions |-> Idle]
  /\ late = [r \in Runs |-> {}]
  /\ bare = {}

\* What the entry of a company puts on its intercompany account: the seller has a
\* receivable, the buyer a payable.
Due(t, c) == IF c = Trade[t].a THEN Trade[t].amount ELSE -Trade[t].amount
AddTo(c, amount) ==
  books' = [books EXCEPT ![c].intercompany = @ + amount, ![c].other = @ - amount]

\* One side's journal entry, posted in its own company.
PostSide(t, c) ==
  /\ c \in {Trade[t].a, Trade[t].b}
  /\ <<t, c>> \notin posted
  /\ posted' = posted \cup {<<t, c>>}
  /\ AddTo(c, Due(t, c))
  /\ UNCHANGED <<rated, trade, run, sess, late, bare>>

\* The entry is reversed, or a journal settles what it left due.
TakeBack(t, c) ==
  /\ c \in {Trade[t].a, Trade[t].b}
  /\ <<t, c>> \in posted
  /\ posted' = posted \ {<<t, c>>}
  /\ AddTo(c, -Due(t, c))
  /\ bare' = IF c = Trade[t].a /\ trade[t] = "matched" THEN bare \cup {t} ELSE bare
  /\ UNCHANGED <<rated, trade, run, sess, late>>

\* ExchangeRatesService.create: the next rate
EnterRate(c) ==
  /\ rated[c] < Len(Rates[c])
  /\ rated' = [rated EXCEPT ![c] = @ + 1]
  /\ UNCHANGED <<books, posted, trade, run, sess, late, bare>>

\* The runs past the look of their finalization; those past the read of their creation.
Looked == {r \in Runs : \/ run[r].status = "final"
                        \/ \E s \in Sessions : sess[s].op = "finalize" /\ sess[s].on = r}
HaveRead == {r \in Runs : \/ run[r].status # "absent"
                          \/ \E s \in Sessions : sess[s].op = "create" /\ sess[s].on = r}
Missed(t, runs) == [r \in Runs |-> IF r \in runs THEN late[r] \cup {t} ELSE late[r]]

\* IntercompanyTransactionsService.create
RecordTrade(t) ==
  /\ trade[t] = "absent"
  /\ trade' = [trade EXCEPT ![t] = "unmatched"]
  /\ late' = Missed(t, Looked)
  /\ UNCHANGED <<books, rated, posted, run, sess, bare>>

\* match: the check, and later the write
BeginMatch(s, t) ==
  /\ sess[s] = Idle
  /\ trade[t] = "unmatched"
  /\ Become(s, [Idle EXCEPT !.op = "match", !.on = t])
  /\ UNCHANGED <<books, rated, posted, trade, run, late, bare>>

CommitMatch(s) ==
  LET t == sess[s].on IN
  /\ sess[s].op = "match"
  /\ trade' = [trade EXCEPT ![t] = "matched"]
  /\ late' = IF trade[t] = "matched" THEN late ELSE Missed(t, HaveRead)
  /\ bare' = IF <<t, Trade[t].a>> \in posted THEN bare ELSE bare \cup {t}
  /\ Become(s, Idle)
  /\ UNCHANGED <<books, rated, posted, run>>

\* Mutant of Matched: every recorded transaction is eliminated, matched or not.
MutantRecorded == {t \in Trades : trade[t] # "absent"}

Matched == {t \in Trades : trade[t] = "matched"}

\* ConsolidationRunsService.create: the companies and the matched transactions
BeginCreate(s, r) ==
  /\ sess[s] = Idle
  /\ run[r].status = "absent" /\ \A t \in Sessions : sess[t].on # r
  /\ Become(s, [Idle EXCEPT !.op = "create", !.on = r,
                  !.matched = Matched, !.todo = Companies])
  /\ late' = [late EXCEPT ![r] = {}]
  /\ UNCHANGED <<books, rated, posted, trade, run, bare>>

\* The next company's trial balance and rate, as of now, and its lines.
ReadCompany(s) ==
  /\ sess[s].op = "create"
  /\ \E c \in sess[s].todo :
       /\ HasRate(c)
       /\ sess' = [sess EXCEPT ![s].todo = @ \ {c},
                               ![s].lines[c] = LinesOf(c, sess[s].matched)]
  /\ UNCHANGED <<books, rated, posted, trade, run, late, bare>>

CommitCreate(s) ==
  /\ sess[s].op = "create" /\ sess[s].todo = {}
  /\ run' = [run EXCEPT ![sess[s].on] = [status |-> "draft", lines |-> sess[s].lines]]
  /\ Become(s, Idle)
  /\ UNCHANGED <<books, rated, posted, trade, late, bare>>

\* Mutant of NoneUnmatched: a run is finalized in spite of unmatched transactions.
MutantAnyMatch == TRUE

NoneUnmatched == \A t \in Trades : trade[t] # "unmatched"

\* finalize: the checks, and later the write of the status
BeginFinalize(s, r) ==
  /\ sess[s] = Idle
  /\ run[r].status = "draft"
  /\ NoneUnmatched
  /\ Become(s, [Idle EXCEPT !.op = "finalize", !.on = r])
  /\ UNCHANGED <<books, rated, posted, trade, run, late, bare>>

CommitFinalize(s) ==
  /\ sess[s].op = "finalize"
  /\ run' = [run EXCEPT ![sess[s].on].status = "final"]
  /\ Become(s, Idle)
  /\ UNCHANGED <<books, rated, posted, trade, late, bare>>

\* A check (no rate, a status) or a statement fails: all is rolled back.
Abort(s) ==
  /\ sess[s] # Idle
  /\ Become(s, Idle)
  /\ UNCHANGED <<books, rated, posted, trade, run, late, bare>>

Next ==
  \/ \E t \in Trades :
       \/ \E c \in Companies : PostSide(t, c) \/ TakeBack(t, c)
       \/ RecordTrade(t)
  \/ \E c \in Companies \ Home : EnterRate(c)
  \/ \E s \in Sessions :
       \/ \E t \in Trades : BeginMatch(s, t)
       \/ CommitMatch(s)
       \/ \E r \in Runs : BeginCreate(s, r) \/ BeginFinalize(s, r)
       \/ ReadCompany(s)
       \/ CommitCreate(s)
       \/ CommitFinalize(s)
       \/ Abort(s)

Spec == Init /\ [][Next]_vars

-----------------------------------------------------------------------------
(***************************************************************************)
(* Properties.                                                             *)
(***************************************************************************)
\* The rates a company has had.
RatesOf(c) == IF c \in Home THEN {1} ELSE {Rates[c][i] : i \in 1..rated[c]}

\* The companies that only ever sell to the others.
Sells(c) == \A t \in Touching(c, Trades) : Trade[t].a = c

\* A line eliminates no more than it holds and the given total at a rate.
Covered(line, total, rates) ==
  \E rate \in {0} \cup rates : line.translated + line.elimination >= total * rate

\* What a run eliminates of a seller is in the seller's books as the run reads them,
\* although it takes the matched trades before it reads any company: all but the
\* trades that have been matched while the books did not hold them, because they were
\* never booked, not yet, or not any more.
EliminationsAreBooked ==
  \A r \in Runs, c \in Companies : Sells(c) =>
    Covered(run[r].lines[c]["intercompany"], EliminationTotal(c, bare), RatesOf(c))

\* Lines in which a company's share of some trades is eliminated, at a rate it has had.
Eliminated(lines, c, ts) ==
  \E rate \in RatesOf(c) :
    lines[c]["intercompany"].elimination = EliminationTotal(c, ts) * rate

\* finalize looks for unmatched transactions only, and a transaction that is matched
\* after a run was made is missing from it for good.  Nothing else is: in the lines of
\* a final run the eliminations of a company are those of every transaction recorded
\* so far, at one rate, but for these and for those recorded after the look.
OnlyLateMatchesMissed ==
  \A r \in Runs : run[r].status = "final" =>
    \A c \in Companies :
      Eliminated(run[r].lines, c, {t \in Trades : trade[t] # "absent"} \ late[r])

\* Architecture, J, phase 11: intercompany eliminations "reconcile to zero".
\* With every trade booked on both sides and matched, and one currency, a run
\* made from the present books shows no intercompany balance of the group.
Current(r) == \A c \in Companies : run[r].lines[c] = LinesOf(c, Trades)
EliminatesToZero ==
  (\A t \in Trades : trade[t] = "matched" /\ {<<t, Trade[t].a>>, <<t, Trade[t].b>>} \subseteq posted) =>
    \A r \in Runs : run[r].status # "absent" /\ Current(r) => Summary(r, "intercompany") = 0

-----------------------------------------------------------------------------
(***************************************************************************)
(* The inductive invariant behind OnlyLateMatchesMissed.                   *)
(***************************************************************************)
Shapes ==
  /\ trade \in [Trades -> {"absent", "unmatched", "matched"}]
  /\ rated \in [Companies \ Home -> Nat]
  /\ late \in [Runs -> SUBSET Trades]
  /\ run = [r \in Runs |-> [status |-> run[r].status, lines |-> run[r].lines]]
  /\ sess = [s \in Sessions |->
               [op |-> sess[s].op, on |-> sess[s].on, matched |-> sess[s].matched,
                todo |-> sess[s].todo, lines |-> [c \in Companies |-> sess[s].lines[c]]]]

\* What a run has been able to see: the trades matched when its creation read them.
Seen(r) == {t \in Trades : trade[t] = "matched"} \ late[r]

RunOK(r) ==
  /\ run[r].status # "absent" => \A c \in Companies : Eliminated(run[r].lines, c, Seen(r))
  /\ r \in Looked => \A t \in Trades : trade[t] = "unmatched" => t \in late[r]

RequestOK(s) ==
  LET r == sess[s].on IN
  /\ sess[s].op = "match" => sess[s].on \in Trades
  /\ sess[s].op = "finalize" => r \in Runs /\ run[r].status # "absent"
  /\ sess[s].op = "create" =>
       /\ r \in Runs /\ run[r].status = "absent" /\ sess[s].matched = Seen(r)
       /\ \A c \in Companies \ sess[s].todo : Eliminated(sess[s].lines, c, Seen(r))
       /\ \A u \in Sessions : sess[u].op = "create" /\ sess[u].on = r => u = s

ConsolidationInv ==
  /\ Shapes
  /\ \A r \in Runs : RunOK(r)
  /\ \A s \in Sessions : RequestOK(s)

(***************************************************************************)
(* And the one behind EliminationsAreBooked.                               *)
(***************************************************************************)
\* The books of a company that sells hold the trades it has posted, and a trade that is
\* matched is among them or bare.
PostedBy(c) == {t \in Trades : <<t, c>> \in posted}
SeenIn(lines, c) ==
  LET line == lines[c]["intercompany"] IN
  /\ line.translated \in Int /\ line.elimination \in Int
  /\ Covered(line, EliminationTotal(c, bare), RatesOf(c))
BookedInv ==
  /\ books \in [Companies -> [Accounts -> Int]]
  /\ bare \subseteq Trades
  /\ \A c \in Companies \ Home : rated[c] <= Len(Rates[c])
  /\ \A t \in Trades : trade[t] = "matched" => t \in bare \/ <<t, Trade[t].a>> \in posted
  /\ \A c \in Companies : Sells(c) =>
       /\ books[c]["intercompany"] = -EliminationTotal(c, PostedBy(c))
       /\ \A r \in Runs : SeenIn(run[r].lines, c)
       /\ \A s \in Sessions : SeenIn(sess[s].lines, c)
=============================================================================
