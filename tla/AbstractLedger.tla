--------------------------- MODULE AbstractLedger ---------------------------
(***************************************************************************)
(* What the accounting engine promises to every other module and to the    *)
(* reports: an append-only book.  A posting enters it once, complete, with *)
(* its effect on the balances; nothing is edited or removed; a mistake is  *)
(* taken out by one mirror posting, at most once.  Sessions, workflow      *)
(* states, numbering and period control are below this level.              *)
(***************************************************************************)
EXTENDS DoubleEntry

CONSTANTS
  Ids,       \* ids a posting may have
  Periods,   \* accounting periods
  Postable   \* the lines that may enter the book

VARIABLES
  book,      \* the posting under each id, or Blank
  balances   \* the balances per period

Blank == [state |-> "none"]
Posting(l, p, original) ==
  [state |-> "live", lines |-> l, period |-> p, reverses |-> original]

ABInit ==
  /\ book = [i \in Ids |-> Blank]
  /\ balances = [p \in Periods |-> NoTotals]

\* A new posting, with its balances, in one step.
Record(i, l, p) ==
  /\ book[i] = Blank
  /\ book' = [book EXCEPT ![i] = Posting(l, p, 0)]
  /\ balances' = [balances EXCEPT ![p] = Increment(@, l)]

\* The reversal of a live posting, which is live no longer.
TakeBack(o, i, p) ==
  /\ book[o].state = "live"
  /\ book[i] = Blank
  /\ book' = [book EXCEPT ![i] = Posting(Mirror(book[o].lines), p, o),
                          ![o].state = "reversed"]
  /\ balances' = [balances EXCEPT ![p] = Increment(@, Mirror(book[o].lines))]

ABNext ==
  \/ \E i \in Ids, l \in Postable, p \in Periods : Record(i, l, p)
  \/ \E o \in Ids, i \in Ids, p \in Periods : TakeBack(o, i, p)

ABSpec == ABInit /\ [][ABNext]_<<book, balances>>
=============================================================================
