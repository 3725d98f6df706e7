-------------------------- MODULE ReportingProofs ---------------------------
(***************************************************************************)
(* Proofs about what is reported: Consolidation, for any companies, trades,*)
(* rates, runs and number of requests at a time, and Reports, for any chart*)
(* of accounts, postings, periods and budgets.  The two models share no    *)
(* state and no name.                                                      *)
(***************************************************************************)
EXTENDS Consolidation, Reports, TotalsProofs

LEMMA ConsolidationInit == Init => ConsolidationInv
<1> SUFFICES ASSUME Init PROVE ConsolidationInv
  OBVIOUS
<1>1. Shapes
  <2>1. run = [r \in Runs |-> [status |-> run[r].status, lines |-> run[r].lines]]
    BY DEF Init, NoRun
  <2>2. sess = [s \in Sessions |->
               [op |-> sess[s].op, on |-> sess[s].on, matched |-> sess[s].matched,
                todo |-> sess[s].todo, lines |-> [c \in Companies |-> sess[s].lines[c]]]]
    BY DEF Init, Idle, NoLines
  <2> QED BY <2>1, <2>2 DEF Init, Shapes
<1>2. ASSUME NEW r \in Runs PROVE RunOK(r)
  BY DEF Init, RunOK, NoRun, Looked, Idle
<1>3. ASSUME NEW s \in Sessions PROVE RequestOK(s)
  BY DEF Init, RequestOK, Idle
<1> QED BY <1>1, <1>2, <1>3 DEF ConsolidationInv

-----------------------------------------------------------------------------
(***************************************************************************)
(* What holds of a run or a request that a step does not touch.            *)
(***************************************************************************)
RatesGrow == \A c \in Companies : RatesOf(c) \subseteq RatesOf(c)'

LEMMA SameRates == rated' = rated => RatesGrow
  BY DEF RatesGrow, RatesOf

LEMMA EliminatedStays ==
  ASSUME RatesGrow, NEW CONSTANT lines, NEW CONSTANT c \in Companies, NEW CONSTANT ts,
         Eliminated(lines, c, ts)
  PROVE  Eliminated(lines, c, ts)'
<1> DEFINE total == EliminationTotal(c, ts)
<1>1. PICK rate \in RatesOf(c) : lines[c]["intercompany"].elimination = total * rate
  BY DEF Eliminated
<1>2. total' = total
  OBVIOUS
<1> HIDE DEF total
<1>3. rate \in RatesOf(c)'
  BY <1>1 DEF RatesGrow
<1>4. \E k \in RatesOf(c)' : lines[c]["intercompany"].elimination = total' * k
  BY <1>1, <1>2, <1>3
<1> QED BY <1>4 DEF Eliminated, total

LEMMA RunKept ==
  ASSUME ConsolidationInv, RatesGrow, NEW r \in Runs, run'[r] = run[r],
         run[r].status # "absent" => Seen(r)' = Seen(r),
         r \in Looked' => r \in Looked /\ late[r] \subseteq late'[r],
         r \in Looked' => \A t \in Trades : trade'[t] = "unmatched" =>
                                              trade[t] = "unmatched" \/ t \in late'[r]
  PROVE  RunOK(r)'
<1>1. RunOK(r)
  BY DEF ConsolidationInv
<1>2. PICK ts, lines : ts = Seen(r) /\ lines = run[r].lines
  OBVIOUS
<1>3. ASSUME run[r].status # "absent", NEW c \in Companies
      PROVE  Eliminated(lines, c, ts)'
  BY <1>1, <1>2, <1>3, EliminatedStays DEF RunOK
<1> QED BY <1>1, <1>2, <1>3 DEF RunOK

LEMMA RequestKept ==
  ASSUME ConsolidationInv, RatesGrow, NEW u \in Sessions, sess'[u] = sess[u],
         sess[u].op = "create" =>
           /\ run'[sess[u].on] = run[sess[u].on] /\ Seen(sess[u].on)' = Seen(sess[u].on)
           /\ \A v \in Sessions :
                sess'[v].op = "create" /\ sess'[v].on = sess[u].on =>
                  v = u \/ (sess[v].op = "create" /\ sess[v].on = sess[u].on),
         sess[u].op = "finalize" =>
           (run[sess[u].on].status # "absent" => run'[sess[u].on].status # "absent")
  PROVE  RequestOK(u)'
<1>1. RequestOK(u)
  BY DEF ConsolidationInv
<1>2. PICK x, r : x = sess[u] /\ r = x.on
  OBVIOUS
<1>3. ASSUME x.op = "create"
      PROVE  /\ r \in Runs /\ run'[r].status = "absent" /\ x.matched = Seen(r)'
             /\ \A c \in Companies \ x.todo : Eliminated(x.lines, c, Seen(r))'
             /\ \A v \in Sessions : sess'[v].op = "create" /\ sess'[v].on = r => v = u
  <2>1. PICK ts : ts = Seen(r)
    OBVIOUS
  <2>2. ASSUME NEW c \in Companies \ x.todo PROVE Eliminated(x.lines, c, ts)'
    BY <1>1, <1>2, <1>3, <2>1, EliminatedStays DEF RequestOK
  <2> QED BY <1>1, <1>2, <1>3, <2>1, <2>2 DEF RequestOK
<1> QED BY <1>1, <1>2, <1>3 DEF RequestOK

\* A step of nobody's runs or requests: what was seen stays, what is new was not.
LEMMA BooksStepKeeps ==
  ASSUME ConsolidationInv, Shapes', RatesGrow, UNCHANGED <<run, sess>>,
         \A r \in Runs : Seen(r)' = Seen(r) /\ late[r] \subseteq late'[r],
         \A r \in Looked : \A t \in Trades : trade'[t] = "unmatched" =>
                                              trade[t] = "unmatched" \/ t \in late'[r]
  PROVE  ConsolidationInv'
<1>1. Looked' = Looked
  BY DEF Looked
<1>2. ASSUME NEW r \in Runs PROVE RunOK(r)'
  BY <1>1, RunKept
<1>3. ASSUME NEW u \in Sessions PROVE RequestOK(u)'
  BY RequestKept DEF ConsolidationInv, RequestOK
<1> QED BY <1>2, <1>3 DEF ConsolidationInv

LEMMA PostingKeeps ==
  ASSUME ConsolidationInv, NEW t \in Trades, NEW c \in Companies, PostSide(t, c) \/ TakeBack(t, c)
  PROVE  ConsolidationInv'
<1>0. UNCHANGED <<rated, trade, run, sess, late>>
  BY DEF PostSide, TakeBack
<1>1. Shapes' /\ RatesGrow
  BY <1>0, SameRates DEF ConsolidationInv, Shapes
<1>2. \A r \in Runs : Seen(r)' = Seen(r)
  BY <1>0 DEF Seen
<1> QED BY <1>0, <1>1, <1>2, BooksStepKeeps

LEMMA EnterRateKeeps ==
  ASSUME ConsolidationInv, NEW c \in Companies \ Home, EnterRate(c)
  PROVE  ConsolidationInv'
<1>1. Shapes'
  BY DEF ConsolidationInv, Shapes, EnterRate
<1>2. RatesGrow
  BY DEF ConsolidationInv, Shapes, EnterRate, RatesGrow, RatesOf
<1>3. \A r \in Runs : Seen(r)' = Seen(r)
  BY DEF Seen, EnterRate
<1> QED BY <1>1, <1>2, <1>3, BooksStepKeeps DEF EnterRate

LEMMA RecordTradeKeeps ==
  ASSUME ConsolidationInv, NEW t \in Trades, RecordTrade(t)
  PROVE  ConsolidationInv'
<1>1. Shapes' /\ RatesGrow
  <2>1. late' \in [Runs -> SUBSET Trades]
    BY DEF ConsolidationInv, Shapes, RecordTrade, Missed
  <2> QED BY <2>1, SameRates DEF ConsolidationInv, Shapes, RecordTrade
<1>2. \A r \in Runs : late'[r] = IF r \in Looked THEN late[r] \cup {t} ELSE late[r]
  BY DEF RecordTrade, Missed
<1>3. /\ trade'[t] = "unmatched" /\ trade[t] = "absent"
      /\ \A k \in Trades : k # t => trade'[k] = trade[k]
  BY DEF ConsolidationInv, Shapes, RecordTrade
<1>4. \A r \in Runs : Seen(r)' = Seen(r)
  BY <1>2, <1>3 DEF Seen
<1> QED BY <1>1, <1>2, <1>3, <1>4, BooksStepKeeps DEF RecordTrade, Looked

-----------------------------------------------------------------------------
(***************************************************************************)
(* Steps of the requests.                                                  *)
(***************************************************************************)
Request(x) == [op |-> x.op, on |-> x.on, matched |-> x.matched, todo |-> x.todo,
               lines |-> [c \in Companies |-> x.lines[c]]]

LEMMA RequestChanged ==
  ASSUME Shapes, NEW s \in Sessions, NEW x, x = Request(x), sess' = [sess EXCEPT ![s] = x]
  PROVE  /\ sess'[s] = x
         /\ \A u \in Sessions : u # s => sess'[u] = sess[u]
         /\ sess' = [u \in Sessions |->
               [op |-> sess'[u].op, on |-> sess'[u].on, matched |-> sess'[u].matched,
                todo |-> sess'[u].todo, lines |-> [c \in Companies |-> sess'[u].lines[c]]]]
<1>1. sess = [u \in Sessions |-> Request(sess[u])]
  BY DEF Shapes, Request
<1>2. sess'[s] = x /\ \A u \in Sessions : u # s => sess'[u] = sess[u]
  BY <1>1
<1>3. DOMAIN sess' = Sessions
  BY <1>1
<1>4. ASSUME NEW u \in Sessions PROVE sess'[u] = Request(sess'[u])
  BY <1>1, <1>2
<1>5. sess' = [u \in Sessions |-> sess'[u]]
  BY <1>1
<1>6. sess' = [u \in Sessions |-> Request(sess'[u])]
  BY <1>4, <1>5
<1> QED BY <1>2, <1>6 DEF Request

LEMMA IdleIsRequest == Idle = Request(Idle) /\ Idle.op = "none"
  BY DEF Idle, NoLines, Request

LEMMA FreshRequest ==
  ASSUME NEW op, NEW on
  PROVE  LET x == [Idle EXCEPT !.op = op, !.on = on]
         IN  x = Request(x) /\ x.op = op /\ x.on = on
<1>1. PICK y : y = [Idle EXCEPT !.op = op]
  OBVIOUS
<1>2. y = [op |-> op, on |-> "none", matched |-> {}, todo |-> {}, lines |-> NoLines]
  BY <1>1 DEF Idle
<1>3. PICK x : x = [y EXCEPT !.on = on]
  OBVIOUS
<1>4. x = [op |-> op, on |-> on, matched |-> {}, todo |-> {}, lines |-> NoLines]
  BY <1>2, <1>3
<1>5. NoLines = [c \in Companies |-> NoLines[c]]
  BY DEF NoLines
<1>6. x = Request(x) /\ x.op = op /\ x.on = on
  BY <1>4, <1>5 DEF Request
<1>7. x = [Idle EXCEPT !.op = op, !.on = on]
  BY <1>1, <1>3
<1> QED BY <1>6, <1>7

\* A request that begins to match or to finalize, or that ends: no other is concerned.
LEMMA RequestStepKeeps ==
  ASSUME ConsolidationInv, Shapes', NEW s \in Sessions, UNCHANGED <<rated, run>>,
         \A u \in Sessions : u # s => sess'[u] = sess[u],
         sess'[s].op # "create", RequestOK(s)',
         \A r \in HaveRead \cap Runs : Seen(r)' = Seen(r),
         \A r \in Runs : late[r] \subseteq late'[r],
         \A t \in Trades : trade'[t] = "unmatched" => trade[t] = "unmatched",
         \/ sess'[s].op # "finalize"
         \/ \A t \in Trades : trade[t] # "unmatched"
  PROVE  ConsolidationInv'
<1>1. RatesGrow
  BY SameRates
<1>2. ASSUME NEW r \in Runs PROVE RunOK(r)'
  <2>1. CASE r \in Looked
    BY <1>1, <2>1, RunKept DEF HaveRead
  <2>2. CASE r \notin Looked
    <3>1. r \in Looked' => \A t \in Trades : trade[t] # "unmatched"
      BY <2>2 DEF Looked
    <3>2. r \in Looked' => \A t \in Trades : trade'[t] # "unmatched"
      BY <3>1
    <3>3. PICK ts, lines : ts = Seen(r) /\ lines = run[r].lines
      OBVIOUS
    <3>4. ASSUME run[r].status # "absent", NEW c \in Companies
          PROVE  Eliminated(lines, c, ts)'
      BY <1>1, <3>3, <3>4, EliminatedStays DEF ConsolidationInv, RunOK
    <3>5. run[r].status # "absent" => Seen(r)' = ts
      BY <3>3 DEF HaveRead
    <3> QED BY <3>2, <3>3, <3>4, <3>5 DEF RunOK
  <2> QED BY <2>1, <2>2
<1>3. ASSUME NEW u \in Sessions, u # s PROVE RequestOK(u)'
  <2>1. RequestOK(u)
    BY DEF ConsolidationInv
  <2>2. sess[u].op = "create" => sess[u].on \in HaveRead \cap Runs
    BY <2>1 DEF HaveRead, RequestOK
  <2>3. \A v \in Sessions : sess'[v].op = "create" => sess'[v] = sess[v]
    OBVIOUS
  <2> QED BY <1>1, <1>3, <2>2, <2>3, RequestKept
<1> QED BY <1>2, <1>3 DEF ConsolidationInv

LEMMA BeginMatchKeeps ==
  ASSUME ConsolidationInv, NEW s \in Sessions, NEW t \in Trades, BeginMatch(s, t)
  PROVE  ConsolidationInv'
<1> DEFINE x == [Idle EXCEPT !.op = "match", !.on = t]
<1>1. x = Request(x) /\ x.op = "match" /\ x.on = t
  BY FreshRequest
<1>2. sess' = [sess EXCEPT ![s] = x] /\ UNCHANGED <<rated, trade, run, late>>
  BY DEF BeginMatch, Become
<1> HIDE DEF x
<1>3. Shapes' /\ sess'[s] = x /\ \A u \in Sessions : u # s => sess'[u] = sess[u]
  BY <1>1, <1>2, RequestChanged DEF ConsolidationInv, Shapes
<1>4. RequestOK(s)'
  BY <1>1, <1>3 DEF RequestOK
<1>5. \A r \in Runs : Seen(r)' = Seen(r)
  BY <1>2 DEF Seen
<1> QED BY <1>1, <1>2, <1>3, <1>4, <1>5, RequestStepKeeps

LEMMA CommitMatchKeeps ==
  ASSUME ConsolidationInv, NEW s \in Sessions, CommitMatch(s)
  PROVE  ConsolidationInv'
<1>0. PICK t : t = sess[s].on
  OBVIOUS
<1>1. /\ t \in Trades /\ trade' = [trade EXCEPT ![t] = "matched"]
      /\ late' = IF trade[t] = "matched" THEN late ELSE Missed(t, HaveRead)
      /\ sess' = [sess EXCEPT ![s] = Idle] /\ UNCHANGED <<rated, run>>
  BY <1>0 DEF CommitMatch, Become, ConsolidationInv, RequestOK
<1>2. /\ trade'[t] = "matched" /\ \A k \in Trades : k # t => trade'[k] = trade[k]
      /\ \A r \in Runs : late'[r] = IF trade[t] # "matched" /\ r \in HaveRead
                                    THEN late[r] \cup {t} ELSE late[r]
  BY <1>1 DEF ConsolidationInv, Shapes, Missed
<1>3. Shapes' /\ sess'[s] = Idle /\ \A u \in Sessions : u # s => sess'[u] = sess[u]
  <2>1. late' \in [Runs -> SUBSET Trades]
    BY <1>1 DEF ConsolidationInv, Shapes, Missed
  <2> QED BY <1>1, <2>1, IdleIsRequest, RequestChanged DEF ConsolidationInv, Shapes
<1>4. RequestOK(s)'
  BY <1>3, IdleIsRequest DEF RequestOK
<1>5. \A r \in HaveRead \cap Runs : Seen(r)' = Seen(r)
  BY <1>1, <1>2 DEF Seen
<1> QED BY <1>1, <1>2, <1>3, <1>4, <1>5, IdleIsRequest, RequestStepKeeps

LEMMA BeginFinalizeKeeps ==
  ASSUME ConsolidationInv, NEW s \in Sessions, NEW r \in Runs, BeginFinalize(s, r)
  PROVE  ConsolidationInv'
<1> DEFINE x == [Idle EXCEPT !.op = "finalize", !.on = r]
<1>1. x = Request(x) /\ x.op = "finalize" /\ x.on = r
  BY FreshRequest
<1>2. /\ sess' = [sess EXCEPT ![s] = x] /\ UNCHANGED <<rated, trade, run, late>>
      /\ run[r].status = "draft" /\ \A t \in Trades : trade[t] # "unmatched"
  BY DEF BeginFinalize, Become, NoneUnmatched
<1> HIDE DEF x
<1>3. Shapes' /\ sess'[s] = x /\ \A u \in Sessions : u # s => sess'[u] = sess[u]
  BY <1>1, <1>2, RequestChanged DEF ConsolidationInv, Shapes
<1>4. RequestOK(s)'
  BY <1>1, <1>2, <1>3 DEF RequestOK
<1>5. \A k \in Runs : Seen(k)' = Seen(k)
  BY <1>2 DEF Seen
<1> QED BY <1>1, <1>2, <1>3, <1>4, <1>5, RequestStepKeeps

LEMMA AbortKeeps ==
  ASSUME ConsolidationInv, NEW s \in Sessions, Abort(s)
  PROVE  ConsolidationInv'
<1>1. sess' = [sess EXCEPT ![s] = Idle] /\ UNCHANGED <<rated, trade, run, late>>
  BY DEF Abort, Become
<1>2. Shapes' /\ sess'[s] = Idle /\ \A u \in Sessions : u # s => sess'[u] = sess[u]
  BY <1>1, IdleIsRequest, RequestChanged DEF ConsolidationInv, Shapes
<1>3. RequestOK(s)'
  BY <1>2, IdleIsRequest DEF RequestOK
<1>4. \A r \in Runs : Seen(r)' = Seen(r)
  BY <1>1 DEF Seen
<1> QED BY <1>1, <1>2, <1>3, <1>4, IdleIsRequest, RequestStepKeeps

LEMMA BeginCreateKeeps ==
  ASSUME ConsolidationInv, NEW s \in Sessions, NEW r \in Runs, BeginCreate(s, r)
  PROVE  ConsolidationInv'
<1> DEFINE matched == {t \in Trades : trade[t] = "matched"}
<1>0. PICK x : x = [Idle EXCEPT !.op = "create", !.on = r, !.matched = matched, !.todo = Companies]
  OBVIOUS
<1>1. x = [op |-> "create", on |-> r, matched |-> matched, todo |-> Companies, lines |-> NoLines]
  <2>1. PICK y : y = [Idle EXCEPT !.op = "create"]
    OBVIOUS
  <2>2. y = [op |-> "create", on |-> "none", matched |-> {}, todo |-> {}, lines |-> NoLines]
    BY <2>1 DEF Idle
  <2>3. PICK z : z = [y EXCEPT !.on = r]
    OBVIOUS
  <2>4. z = [op |-> "create", on |-> r, matched |-> {}, todo |-> {}, lines |-> NoLines]
    BY <2>2, <2>3
  <2>5. PICK w : w = [z EXCEPT !.matched = matched]
    OBVIOUS
  <2>6. w = [op |-> "create", on |-> r, matched |-> matched, todo |-> {}, lines |-> NoLines]
    BY <2>4, <2>5
  <2>7. x = [w EXCEPT !.todo = Companies]
    BY <1>0, <2>1, <2>3, <2>5
  <2> QED BY <2>6, <2>7
<1>2. x = Request(x)
  <2>1. NoLines = [c \in Companies |-> NoLines[c]]
    BY DEF NoLines
  <2> QED BY <1>1, <2>1 DEF Request
<1>3. /\ sess[s] = Idle /\ run[r].status = "absent" /\ \A u \in Sessions : sess[u].on # r
      /\ sess' = [sess EXCEPT ![s] = x] /\ late' = [late EXCEPT ![r] = {}]
      /\ UNCHANGED <<rated, trade, run>>
  BY <1>0 DEF BeginCreate, Become, Matched
<1>4. Shapes' /\ sess'[s] = x /\ \A u \in Sessions : u # s => sess'[u] = sess[u]
  <2>1. late' \in [Runs -> SUBSET Trades]
    BY <1>3 DEF ConsolidationInv, Shapes
  <2> QED BY <1>2, <1>3, <2>1, RequestChanged DEF ConsolidationInv, Shapes
<1>5. /\ Seen(r)' = matched /\ \A k \in Runs : k # r => Seen(k)' = Seen(k) /\ late'[k] = late[k]
      /\ RatesGrow
  BY <1>3, SameRates DEF Seen, ConsolidationInv, Shapes
<1>6. r \notin Looked' /\ Looked' = Looked
  <2>1. \A u \in Sessions : sess'[u].op = "finalize" <=> sess[u].op = "finalize"
    BY <1>1, <1>3, <1>4, IdleIsRequest
  <2>2. \A u \in Sessions : sess'[u].op = "finalize" => sess'[u] = sess[u] /\ sess[u].on # r
    BY <1>1, <1>3, <1>4
  <2>3. Looked' = Looked
    BY <1>3, <2>1, <2>2 DEF Looked
  <2>4. r \notin Looked
    BY <1>3 DEF Looked
  <2> QED BY <2>3, <2>4
<1>7. ASSUME NEW k \in Runs PROVE RunOK(k)'
  <2>1. CASE k = r
    BY <1>3, <1>6, <2>1 DEF RunOK
  <2>2. CASE k # r
    BY <1>3, <1>5, <1>6, <2>2, RunKept
  <2> QED BY <2>1, <2>2
<1>8. ASSUME NEW u \in Sessions PROVE RequestOK(u)'
  <2>1. CASE u = s
    BY <1>1, <1>3, <1>4, <1>5, <2>1 DEF RequestOK
  <2>2. CASE u # s
    <3>1. sess[u].op = "create" => sess[u].on \in Runs /\ sess[u].on # r
      BY <1>3 DEF ConsolidationInv, RequestOK
    <3>2. sess[u].op = "create" => \A v \in Sessions : sess'[v].on = sess[u].on => sess'[v] = sess[v]
      BY <1>1, <1>4, <3>1
    <3> QED BY <1>3, <1>4, <1>5, <2>2, <3>1, <3>2, RequestKept
  <2> QED BY <2>1, <2>2
<1> QED BY <1>4, <1>7, <1>8 DEF ConsolidationInv

LEMMA LinesAreEliminated ==
  ASSUME Shapes, NEW c \in Companies, NEW ts, HasRate(c)
  PROVE  \E rate \in RatesOf(c) :
           LinesOf(c, ts)["intercompany"].elimination = EliminationTotal(c, ts) * rate
<1>1. LinesOf(c, ts)["intercompany"].elimination = EliminationTotal(c, ts) * Rate(c)
  BY DEF LinesOf, Accounts
<1>2. Rate(c) \in RatesOf(c)
  BY DEF Shapes, HasRate, Rate, RatesOf
<1> QED BY <1>1, <1>2

LEMMA ReadCompanyKeeps ==
  ASSUME ConsolidationInv, NEW s \in Sessions, ReadCompany(s)
  PROVE  ConsolidationInv'
<1>0. PICK old : old = sess[s]
  OBVIOUS
<1>1. PICK c \in old.todo :
        /\ HasRate(c)
        /\ sess' = [sess EXCEPT ![s].todo = @ \ {c}, ![s].lines[c] = LinesOf(c, old.matched)]
  BY <1>0 DEF ReadCompany
<1>2. /\ old.op = "create" /\ old = Request(old)
      /\ UNCHANGED <<rated, trade, run, late>> /\ RequestOK(s)
  <2>1. sess = [u \in Sessions |-> Request(sess[u])]
    BY DEF ConsolidationInv, Shapes, Request
  <2>2. sess[s] = Request(sess[s])
    BY <2>1
  <2> QED BY <1>0, <2>2 DEF ReadCompany, ConsolidationInv
<1>3. RatesGrow /\ \A r \in Runs : Seen(r)' = Seen(r)
  BY <1>2, SameRates DEF Seen
<1>4. PICK x : x = [op |-> "create", on |-> old.on, matched |-> old.matched, todo |-> old.todo \ {c},
                    lines |-> [old.lines EXCEPT ![c] = LinesOf(c, old.matched)]]
  OBVIOUS
<1>5. sess' = [sess EXCEPT ![s] = x]
  <2>1. PICK y : y = [old EXCEPT !.todo = old.todo \ {c}]
    OBVIOUS
  <2>2. y = [op |-> "create", on |-> old.on, matched |-> old.matched, todo |-> old.todo \ {c},
             lines |-> old.lines]
    BY <1>2, <2>1 DEF Request
  <2>3. [y EXCEPT !.lines[c] = LinesOf(c, old.matched)] = x
    <3>1. PICK z : z = [old.lines EXCEPT ![c] = LinesOf(c, old.matched)]
      OBVIOUS
    <3>2. y.lines = old.lines
      BY <2>2
    <3>3. [y EXCEPT !.lines[c] = LinesOf(c, old.matched)] = [y EXCEPT !.lines = z]
      BY <3>1, <3>2
    <3>4. [y EXCEPT !.lines = z] = [op |-> "create", on |-> old.on, matched |-> old.matched,
                                    todo |-> old.todo \ {c}, lines |-> z]
      BY <2>2
    <3> QED BY <1>4, <3>1, <3>3, <3>4
  <2>4. sess' = [sess EXCEPT ![s] =
                   [old EXCEPT !.todo = old.todo \ {c}, !.lines[c] = LinesOf(c, old.matched)]]
    BY <1>0, <1>1
  <2> QED BY <2>1, <2>3, <2>4
<1>6. /\ x = Request(x)
      /\ \A k \in Companies : k # c => x.lines[k] = old.lines[k]
      /\ c \in Companies => x.lines[c] = LinesOf(c, old.matched)
  <2>1. old.lines = [k \in Companies |-> old.lines[k]]
    BY <1>2 DEF Request
  <2> QED BY <1>4, <2>1 DEF Request
<1>7. Shapes' /\ sess'[s] = x /\ \A u \in Sessions : u # s => sess'[u] = sess[u]
  BY <1>2, <1>5, <1>6, RequestChanged DEF ConsolidationInv, Shapes
<1>8. \A u \in Sessions : sess'[u].op = sess[u].op /\ sess'[u].on = sess[u].on
  BY <1>0, <1>2, <1>4, <1>7
<1>9. ASSUME NEW r \in Runs PROVE RunOK(r)'
  <2>1. Looked' = Looked
    BY <1>2, <1>8 DEF Looked
  <2> QED BY <1>2, <1>3, <2>1, RunKept
<1>10. ASSUME NEW u \in Sessions PROVE RequestOK(u)'
  <2>1. CASE u = s
    <3>1. PICK r : r = old.on
      OBVIOUS
    <3>2. r \in Runs /\ run[r].status = "absent" /\ old.matched = Seen(r)
      BY <1>0, <1>2, <3>1 DEF RequestOK
    <3>3. ASSUME NEW k \in Companies, k \notin x.todo PROVE Eliminated(x.lines, k, old.matched)
      <4>1. CASE k = c
        BY <1>1, <1>6, <4>1, LinesAreEliminated DEF Eliminated, ConsolidationInv
      <4>2. CASE k # c
        <5>1. Eliminated(old.lines, k, old.matched)
          BY <1>0, <1>2, <1>4, <3>1, <3>2, <3>3, <4>2 DEF RequestOK
        <5> QED BY <1>6, <4>2, <5>1 DEF Eliminated
      <4> QED BY <4>1, <4>2
    <3>4. ASSUME NEW k \in Companies, k \notin x.todo PROVE Eliminated(x.lines, k, old.matched)'
      BY <1>3, <3>3, <3>4, EliminatedStays
    <3>5. \A v \in Sessions : sess'[v].op = "create" /\ sess'[v].on = r => v = s
      BY <1>0, <1>2, <1>8, <3>1 DEF RequestOK
    <3>6. Seen(r)' = old.matched
      BY <1>3, <3>2
    <3> QED BY <1>2, <1>4, <1>7, <2>1, <3>1, <3>2, <3>4, <3>5, <3>6 DEF RequestOK
  <2>2. CASE u # s
    <3>1. RequestOK(u)
      BY DEF ConsolidationInv
    <3> QED BY <1>2, <1>3, <1>7, <1>8, <2>2, <3>1, RequestKept DEF RequestOK
  <2> QED BY <2>1, <2>2
<1> QED BY <1>7, <1>9, <1>10 DEF ConsolidationInv

\* What a commit changes of the runs.
LEMMA RunChanged ==
  ASSUME Shapes, NEW r \in Runs, NEW x, x = [status |-> x.status, lines |-> x.lines],
         run' = [run EXCEPT ![r] = x]
  PROVE  /\ run'[r] = x
         /\ \A k \in Runs : k # r => run'[k] = run[k]
         /\ run' = [k \in Runs |-> [status |-> run'[k].status, lines |-> run'[k].lines]]
<1> DEFINE Whole(y) == [status |-> y.status, lines |-> y.lines]
<1>1. run = [k \in Runs |-> Whole(run[k])]
  BY DEF Shapes
<1>2. run'[r] = x /\ \A k \in Runs : k # r => run'[k] = run[k]
  BY <1>1
<1>3. run' = [k \in Runs |-> run'[k]]
  BY <1>1
<1>4. \A k \in Runs : run'[k] = Whole(run'[k])
  BY <1>1, <1>2
<1> QED BY <1>2, <1>3, <1>4

LEMMA CommitCreateKeeps ==
  ASSUME ConsolidationInv, NEW s \in Sessions, CommitCreate(s)
  PROVE  ConsolidationInv'
<1>0. PICK r, lines : r = sess[s].on /\ lines = sess[s].lines
  OBVIOUS
<1> DEFINE x == [status |-> "draft", lines |-> lines]
<1>1. /\ sess[s].op = "create" /\ sess[s].todo = {} /\ RequestOK(s) /\ r \in Runs
      /\ run[r].status = "absent" /\ run' = [run EXCEPT ![r] = x]
      /\ sess' = [sess EXCEPT ![s] = Idle] /\ UNCHANGED <<rated, trade, late>>
  BY <1>0 DEF CommitCreate, Become, ConsolidationInv, RequestOK
<1>2. RatesGrow /\ \A k \in Runs : Seen(k)' = Seen(k)
  BY <1>1, SameRates DEF Seen
<1>3. /\ run'[r] = x /\ \A k \in Runs : k # r => run'[k] = run[k]
      /\ run' = [k \in Runs |-> [status |-> run'[k].status, lines |-> run'[k].lines]]
  BY <1>1, RunChanged DEF ConsolidationInv
<1>4. Shapes' /\ sess'[s] = Idle /\ \A u \in Sessions : u # s => sess'[u] = sess[u]
  BY <1>1, <1>3, IdleIsRequest, RequestChanged DEF ConsolidationInv, Shapes
<1>5. \A u \in Sessions : sess'[u].op # "none" => u # s /\ sess'[u] = sess[u]
  BY <1>4, IdleIsRequest
<1>6. \A u \in Sessions : sess[u].op = "finalize" => sess[u].on # r
  BY <1>1 DEF ConsolidationInv, RequestOK
<1>7. r \notin Looked' /\ \A k \in Runs : k \in Looked' => k \in Looked
  BY <1>3, <1>5, <1>6 DEF Looked
<1>8. ASSUME NEW k \in Runs PROVE RunOK(k)'
  <2>1. CASE k = r
    <3>1. PICK ts : ts = Seen(r)
      OBVIOUS
    <3>2. ASSUME NEW c \in Companies PROVE Eliminated(lines, c, ts)'
      BY <1>0, <1>1, <1>2, <3>1, EliminatedStays DEF RequestOK
    <3> QED BY <1>2, <1>3, <1>7, <2>1, <3>1, <3>2 DEF RunOK
  <2>2. CASE k # r
    BY <1>1, <1>2, <1>3, <1>7, <2>2, RunKept
  <2> QED BY <2>1, <2>2
<1>9. ASSUME NEW u \in Sessions PROVE RequestOK(u)'
  <2>1. CASE u = s
    BY <1>4, <2>1, IdleIsRequest DEF RequestOK
  <2>2. CASE u # s
    <3>1. RequestOK(u)
      BY DEF ConsolidationInv
    <3>2. sess[u].op = "create" => sess[u].on # r
      BY <1>0, <1>1, <2>2 DEF RequestOK
    <3>3. sess[u].op \in {"create", "finalize"} =>
            sess[u].on \in Runs /\ run'[sess[u].on] = run[sess[u].on]
      BY <1>3, <1>6, <3>1, <3>2 DEF RequestOK
    <3>4. \A v \in Sessions : sess'[v].op = "create" => sess'[v] = sess[v]
      BY <1>5
    <3> QED BY <1>2, <1>4, <2>2, <3>3, <3>4, RequestKept
  <2> QED BY <2>1, <2>2
<1> QED BY <1>4, <1>8, <1>9 DEF ConsolidationInv

LEMMA CommitFinalizeKeeps ==
  ASSUME ConsolidationInv, NEW s \in Sessions, CommitFinalize(s)
  PROVE  ConsolidationInv'
<1>0. PICK r : r = sess[s].on
  OBVIOUS
<1> DEFINE x == [status |-> "final", lines |-> run[r].lines]
<1>1. /\ sess[s].op = "finalize" /\ r \in Runs /\ run[r].status # "absent"
      /\ run' = [run EXCEPT ![r].status = "final"]
      /\ sess' = [sess EXCEPT ![s] = Idle] /\ UNCHANGED <<rated, trade, late>>
  BY <1>0 DEF CommitFinalize, Become, ConsolidationInv, RequestOK
<1>a. run' = [run EXCEPT ![r] = x]
  <2>1. PICK y : y = run[r]
    OBVIOUS
  <2>2. y = [status |-> y.status, lines |-> y.lines]
    BY <1>1, <2>1 DEF ConsolidationInv, Shapes
  <2>3. [y EXCEPT !.status = "final"] = [status |-> "final", lines |-> y.lines]
    BY <2>2
  <2>4. run' = [run EXCEPT ![r] = [y EXCEPT !.status = "final"]]
    BY <1>1, <2>1
  <2> QED BY <2>1, <2>3, <2>4
<1>2. RatesGrow /\ \A k \in Runs : Seen(k)' = Seen(k)
  BY <1>1, SameRates DEF Seen
<1>3. /\ run'[r] = x /\ \A k \in Runs : k # r => run'[k] = run[k]
      /\ run' = [k \in Runs |-> [status |-> run'[k].status, lines |-> run'[k].lines]]
  BY <1>1, <1>a, RunChanged DEF ConsolidationInv
<1>4. Shapes' /\ sess'[s] = Idle /\ \A u \in Sessions : u # s => sess'[u] = sess[u]
  BY <1>1, <1>3, IdleIsRequest, RequestChanged DEF ConsolidationInv, Shapes
<1>5. \A u \in Sessions : sess'[u].op # "none" => u # s /\ sess'[u] = sess[u]
  BY <1>4, IdleIsRequest
<1>6. r \in Looked /\ \A k \in Runs : k \in Looked' => k \in Looked
  BY <1>0, <1>1, <1>3, <1>5 DEF Looked
<1>7. ASSUME NEW k \in Runs PROVE RunOK(k)'
  <2>1. CASE k = r
    <3>1. PICK ts, lines : ts = Seen(r) /\ lines = run[r].lines
      OBVIOUS
    <3>2. RunOK(r) /\ run'[r].lines = lines
      <4>1. run'[r].lines = lines
        BY <1>3, <3>1
      <4>2. RunOK(r)
        BY <1>1 DEF ConsolidationInv
      <4> QED BY <4>1, <4>2
    <3>3. ASSUME NEW c \in Companies PROVE Eliminated(lines, c, ts)'
      BY <1>1, <1>2, <3>1, <3>2, EliminatedStays DEF RunOK
    <3> QED BY <1>1, <1>2, <1>6, <2>1, <3>1, <3>2, <3>3 DEF RunOK
  <2>2. CASE k # r
    BY <1>1, <1>2, <1>3, <1>6, <2>2, RunKept
  <2> QED BY <2>1, <2>2
<1>8. ASSUME NEW u \in Sessions PROVE RequestOK(u)'
  <2>1. CASE u = s
    BY <1>4, <2>1, IdleIsRequest DEF RequestOK
  <2>2. CASE u # s
    <3>1. RequestOK(u)
      BY DEF ConsolidationInv
    <3>2. sess[u].op = "create" => sess[u].on # r /\ sess[u].on \in Runs
      BY <1>1, <3>1 DEF RequestOK
    <3>3. sess[u].op = "create" => run'[sess[u].on] = run[sess[u].on]
      BY <1>3, <3>2
    <3>4. sess[u].op = "finalize" => run'[sess[u].on].status # "absent"
      BY <1>3, <3>1 DEF RequestOK
    <3>5. \A v \in Sessions : sess'[v].op = "create" => sess'[v] = sess[v]
      BY <1>5
    <3> QED BY <1>2, <1>4, <2>2, <3>2, <3>3, <3>4, <3>5, RequestKept
  <2> QED BY <2>1, <2>2
<1> QED BY <1>4, <1>7, <1>8 DEF ConsolidationInv

-----------------------------------------------------------------------------
LEMMA ConsolidationStep == ConsolidationInv /\ [Next]_vars => ConsolidationInv'
<1> SUFFICES ASSUME ConsolidationInv, [Next]_vars PROVE ConsolidationInv'
  OBVIOUS
<1>1. CASE \E t \in Trades : (\E c \in Companies : PostSide(t, c) \/ TakeBack(t, c)) \/ RecordTrade(t)
  BY <1>1, PostingKeeps, RecordTradeKeeps
<1>2. CASE \E c \in Companies \ Home : EnterRate(c)
  BY <1>2, EnterRateKeeps
<1>3. CASE \E s \in Sessions : (\E t \in Trades : BeginMatch(s, t)) \/ CommitMatch(s)
  BY <1>3, BeginMatchKeeps, CommitMatchKeeps
<1>4. CASE \E s \in Sessions, r \in Runs : BeginCreate(s, r) \/ BeginFinalize(s, r)
  BY <1>4, BeginCreateKeeps, BeginFinalizeKeeps
<1>5. CASE \E s \in Sessions : ReadCompany(s) \/ CommitCreate(s)
  BY <1>5, ReadCompanyKeeps, CommitCreateKeeps
<1>6. CASE \E s \in Sessions : CommitFinalize(s) \/ Abort(s)
  BY <1>6, CommitFinalizeKeeps, AbortKeeps
<1>7. CASE UNCHANGED vars
  <2>1. Shapes' /\ RatesGrow
    BY <1>7, SameRates DEF vars, ConsolidationInv, Shapes
  <2>2. \A r \in Runs : Seen(r)' = Seen(r)
    BY <1>7 DEF vars, Seen
  <2> QED BY <1>7, <2>1, <2>2, BooksStepKeeps DEF vars
<1> QED BY <1>1, <1>2, <1>3, <1>4, <1>5, <1>6, <1>7 DEF Next

\* The inductive invariant of trades, runs and the requests that work on them.
THEOREM ConsolidationInvariant == Spec => []ConsolidationInv
<1> QED BY ConsolidationInit, ConsolidationStep, PTL DEF Spec

\* A final run eliminates every trade recorded so far except those matched after its
\* read and those recorded after the look of its finalization: what finalize does not
\* look for is all that a run can lack.
THEOREM FinalRunsLackLateMatchesOnly == Spec => []OnlyLateMatchesMissed
<1>1. ConsolidationInv => OnlyLateMatchesMissed
  <2> SUFFICES ASSUME ConsolidationInv, NEW r \in Runs, run[r].status = "final", NEW c \in Companies
               PROVE  Eliminated(run[r].lines, c, {t \in Trades : trade[t] # "absent"} \ late[r])
    BY DEF OnlyLateMatchesMissed
  <2>1. RunOK(r) /\ r \in Looked
    BY DEF ConsolidationInv, Looked
  <2>2. {t \in Trades : trade[t] # "absent"} \ late[r] = Seen(r)
    BY <2>1 DEF ConsolidationInv, Shapes, RunOK, Seen
  <2> QED BY <2>1, <2>2 DEF RunOK
<1> QED BY <1>1, ConsolidationInvariant, PTL

-----------------------------------------------------------------------------
(***************************************************************************)
(* What is eliminated is in the books.                                     *)
(***************************************************************************)
\* The elimination of some trades is an integer, and that of more is no greater.
LEMMA EliminationOfMore ==
  ASSUME NEW CONSTANT c, NEW CONSTANT ps \in SUBSET Trades, NEW CONSTANT ts \in SUBSET ps
  PROVE  /\ EliminationTotal(c, ps) \in Int /\ EliminationTotal(c, ts) \in Int
         /\ EliminationTotal(c, ps) <= EliminationTotal(c, ts)
<1> DEFINE P == Touching(c, ps)  T == Touching(c, ts)
           f == [t \in P |-> -Trade[t].amount]
           g == [t \in T |-> -Trade[t].amount]
<1>1. T \in SUBSET P /\ P \in SUBSET Trades
  BY DEF Touching
<1>2. IsFiniteSet(P) /\ IsFiniteSet(T)
  BY <1>1, FS_Subset, ConsolidationAssumption
<1>3. \A t \in P : f[t] \in Int /\ f[t] <= 0
  BY <1>1, ConsolidationAssumption
<1>4. \A t \in T : f[t] = g[t]
  BY <1>1
<1>5. EliminationTotal(c, ps) = SumFunctionOnSet(f, P) /\ EliminationTotal(c, ts) = SumFunctionOnSet(g, T)
  BY DEF EliminationTotal
<1> HIDE DEF P, T, f, g
<1>6. SumFunctionOnSet(f, T) = SumFunctionOnSet(g, T)
  BY <1>2, <1>4, SumSame
<1> QED BY <1>1, <1>2, <1>3, <1>5, <1>6, SumOfMore

\* One more trade of a company is one more amount to eliminate.
LEMMA EliminationOfOneMore ==
  ASSUME NEW CONSTANT c, NEW CONSTANT ps \in SUBSET Trades, NEW CONSTANT t \in Trades \ ps,
         c \in {Trade[t].a, Trade[t].b}
  PROVE  EliminationTotal(c, ps \cup {t}) = EliminationTotal(c, ps) - Trade[t].amount
<1> DEFINE P == Touching(c, ps \cup {t})  T == Touching(c, ps)
           f == [k \in P |-> -Trade[k].amount]
           g == [k \in T |-> -Trade[k].amount]
<1>1. P \in SUBSET Trades /\ t \in P /\ P \ {t} = T
  BY DEF Touching
<1>2. IsFiniteSet(P) /\ IsFiniteSet(T)
  BY <1>1, FS_Subset, ConsolidationAssumption
<1>3. \A k \in P : f[k] \in Int
  BY <1>1, ConsolidationAssumption
<1>4. \A k \in T : f[k] = g[k]
  BY <1>1
<1>5. f[t] = -Trade[t].amount /\ Trade[t].amount \in Int
  BY <1>1, ConsolidationAssumption
<1>6. EliminationTotal(c, ps \cup {t}) = SumFunctionOnSet(f, P)
      /\ EliminationTotal(c, ps) = SumFunctionOnSet(g, T)
  BY DEF EliminationTotal
<1> HIDE DEF P, T, f, g
<1>7. SumFunctionOnSet(f, P) = f[t] + SumFunctionOnSet(f, P \ {t})
  BY <1>1, <1>2, <1>3, SumTakeOut
<1>8. SumFunctionOnSet(f, T) = SumFunctionOnSet(g, T)
  BY <1>2, <1>4, SumSame
<1>9. EliminationTotal(c, ps) \in Int
  BY EliminationOfMore
<1>10. SumFunctionOnSet(g, T) \in Int /\ SumFunctionOnSet(f, P) = f[t] + SumFunctionOnSet(g, T)
  BY <1>1, <1>6, <1>7, <1>8, <1>9
<1> QED BY <1>5, <1>6, <1>10

\* The elimination of two groups of trades is at least that of both.
LEMMA EliminationOfUnion ==
  ASSUME NEW CONSTANT c, NEW CONSTANT ps \in SUBSET Trades, NEW CONSTANT qs \in SUBSET Trades
  PROVE  EliminationTotal(c, ps \cup qs) >= EliminationTotal(c, ps) + EliminationTotal(c, qs)
<1> DEFINE U == Touching(c, ps \cup qs)  P == Touching(c, ps)  R == Touching(c, qs \ ps)
           f == [t \in U |-> -Trade[t].amount]
           g == [t \in P |-> -Trade[t].amount]
           h == [t \in R |-> -Trade[t].amount]
<1>1. P \in SUBSET U /\ U \ P = R /\ U \in SUBSET Trades
  BY DEF Touching
<1>2. IsFiniteSet(U) /\ IsFiniteSet(P) /\ IsFiniteSet(R)
  BY <1>1, FS_Subset, ConsolidationAssumption
<1>3. \A t \in U : f[t] \in Int
  BY <1>1, ConsolidationAssumption
<1>4. (\A t \in P : f[t] = g[t]) /\ (\A t \in R : f[t] = h[t])
  BY <1>1
<1>5. /\ EliminationTotal(c, ps \cup qs) = SumFunctionOnSet(f, U)
      /\ EliminationTotal(c, ps) = SumFunctionOnSet(g, P)
      /\ EliminationTotal(c, qs \ ps) = SumFunctionOnSet(h, R)
  BY DEF EliminationTotal
<1> HIDE DEF U, P, R, f, g, h
<1>6. SumFunctionOnSet(f, P) = SumFunctionOnSet(g, P) /\ SumFunctionOnSet(f, R) = SumFunctionOnSet(h, R)
  BY <1>2, <1>4, SumSame
<1>7. SumFunctionOnSet(f, U) = SumFunctionOnSet(f, P) + SumFunctionOnSet(f, R)
  BY <1>1, <1>2, <1>3, SumSplit
<1>8. EliminationTotal(c, ps \cup qs) = EliminationTotal(c, ps) + EliminationTotal(c, qs \ ps)
  BY <1>5, <1>6, <1>7
<1>9. /\ EliminationTotal(c, qs) <= EliminationTotal(c, qs \ ps)
      /\ EliminationTotal(c, qs) \in Int /\ EliminationTotal(c, qs \ ps) \in Int
  <2>1. qs \ ps \in SUBSET qs
    OBVIOUS
  <2> QED BY <2>1, EliminationOfMore
<1>10. EliminationTotal(c, ps) \in Int
  BY EliminationOfMore
<1> QED BY <1>8, <1>9, <1>10

\* A line that is covered stays so when the total to excuse grows or rates are added.
LEMMA CoverKept ==
  ASSUME NEW CONSTANT line, line.translated \in Int, line.elimination \in Int,
         NEW CONSTANT n \in Int, NEW CONSTANT m \in Int, m <= n,
         NEW CONSTANT rs \in SUBSET Nat, NEW CONSTANT qs, rs \subseteq qs, Covered(line, n, rs)
  PROVE  Covered(line, m, qs)
<1>1. PICK rate \in {0} \cup rs : line.translated + line.elimination >= n * rate
  BY DEF Covered
<1>2. PICK k \in Nat : k = rate
  BY <1>1
<1>3. PICK x \in Int : x = line.translated + line.elimination
  OBVIOUS
<1>4. n * k >= m * k
  <2>1. PICK d \in Nat : d = n - m
    OBVIOUS
  <2>2. n * k = m * k + d * k /\ d * k \in Nat /\ m * k \in Int
    BY <2>1
  <2> QED BY <2>2
<1>5. x >= m * k
  <2>1. n * k \in Int /\ m * k \in Int /\ x >= n * k
    BY <1>1, <1>2, <1>3
  <2> QED BY <1>4, <2>1
<1>6. rate \in {0} \cup qs
  BY <1>1
<1> QED BY <1>2, <1>3, <1>5, <1>6 DEF Covered

\* The rates are numbers.
LEMMA RatesAreNumbers ==
  ASSUME Shapes, BookedInv, NEW c \in Companies
  PROVE  RatesOf(c) \in SUBSET Nat /\ (HasRate(c) => Rate(c) \in RatesOf(c))
<1>1. CASE c \in Home
  BY <1>1 DEF RatesOf, Rate
<1>2. CASE c \notin Home
  <2>1. rated[c] \in Nat /\ rated[c] <= Len(Rates[c]) /\ Rates[c] \in Seq(Nat \ {0})
    BY <1>2, ConsolidationAssumption DEF Shapes, BookedInv
  <2>2. \A i \in 1..rated[c] : Rates[c][i] \in Nat
    BY <2>1
  <2>3. RatesOf(c) = {Rates[c][i] : i \in 1..rated[c]}
    BY <1>2 DEF RatesOf
  <2>4. HasRate(c) => rated[c] \in 1..rated[c] /\ Rate(c) = Rates[c][rated[c]]
    BY <1>2, <2>1 DEF HasRate, Rate
  <2> QED BY <2>2, <2>3, <2>4
<1> QED BY <1>1, <1>2

LEMMA NoLinesSeen ==
  ASSUME NEW c \in Companies, bare \in SUBSET Trades
  PROVE  SeenIn(NoLines, c)
<1>1. NoLines[c]["intercompany"] = [translated |-> 0, elimination |-> 0]
  BY DEF NoLine, NoLines, Accounts
<1>2. PICK n \in Int : n = EliminationTotal(c, bare)
  <2>1. PICK ps \in SUBSET Trades : ps = bare
    OBVIOUS
  <2> QED BY <2>1, EliminationOfMore
<1>3. 0 + 0 >= n * 0
  OBVIOUS
<1>4. PICK line : line = NoLines[c]["intercompany"]
  OBVIOUS
<1>5. line.translated = 0 /\ line.elimination = 0
  BY <1>1, <1>4
<1>6. Covered(line, n, RatesOf(c))
  BY <1>3, <1>5 DEF Covered
<1> QED BY <1>2, <1>4, <1>5, <1>6 DEF SeenIn

LEMMA BookedInit == Init => BookedInv
<1> SUFFICES ASSUME Init PROVE BookedInv
  OBVIOUS
<1>1. ASSUME NEW c \in Companies PROVE books[c]["intercompany"] = -EliminationTotal(c, PostedBy(c))
  <2>1. Touching(c, PostedBy(c)) = {}
    BY DEF Init, PostedBy, Touching
  <2>2. EliminationTotal(c, PostedBy(c)) = 0
    BY <2>1, SumEmpty DEF EliminationTotal
  <2>3. books[c]["intercompany"] = 0
    BY DEF Init, Accounts
  <2>4. \A x, y \in Int : x + y = 0 => x = -y
    OBVIOUS
  <2>5. 0 \in Int /\ 0 + 0 = 0
    OBVIOUS
  <2> QED BY <2>2, <2>3, <2>4, <2>5
<1>2. ASSUME NEW c \in Companies
      PROVE  /\ \A r \in Runs : SeenIn(run[r].lines, c)
             /\ \A s \in Sessions : SeenIn(sess[s].lines, c)
  <2>1. SeenIn(NoLines, c)
    BY NoLinesSeen DEF Init
  <2> QED BY <2>1 DEF Init, NoRun, Idle
<1>3. /\ books \in [Companies -> [Accounts -> Int]] /\ bare \subseteq Trades
      /\ \A c \in Companies \ Home : rated[c] <= Len(Rates[c])
      /\ \A t \in Trades : trade[t] # "matched"
  BY ConsolidationAssumption DEF Init
<1> QED BY <1>1, <1>2, <1>3 DEF BookedInv

\* The lines of a company that sells cover what is eliminated of its booked trades.
LEMMA LinesCover ==
  ASSUME Shapes, BookedInv, NEW c \in Companies, Sells(c), HasRate(c),
         NEW ts \in SUBSET (PostedBy(c) \cup bare)
  PROVE  SeenIn([k \in Companies |-> LinesOf(k, ts)], c)
<1>1. PICK ps \in SUBSET Trades, qs \in SUBSET Trades, us \in SUBSET Trades :
        ps = PostedBy(c) /\ qs = bare /\ us = ts
  BY DEF PostedBy, BookedInv
<1>2. PICK b \in Int, n \in Int, e \in Int :
        /\ b = EliminationTotal(c, ps) /\ n = EliminationTotal(c, qs) /\ e = EliminationTotal(c, us)
        /\ e >= b + n
  <2>1. us \in SUBSET (ps \cup qs) /\ ps \cup qs \in SUBSET Trades
    BY <1>1
  <2>2. /\ EliminationTotal(c, ps) \in Int /\ EliminationTotal(c, qs) \in Int
        /\ EliminationTotal(c, us) \in Int /\ EliminationTotal(c, ps \cup qs) \in Int
        /\ EliminationTotal(c, us) >= EliminationTotal(c, ps \cup qs)
    <3>1. EliminationTotal(c, ps \cup qs) <= EliminationTotal(c, us)
          /\ EliminationTotal(c, ps \cup qs) \in Int /\ EliminationTotal(c, us) \in Int
      BY <2>1, EliminationOfMore
    <3>2. EliminationTotal(c, ps) \in Int /\ EliminationTotal(c, qs) \in Int
      BY EliminationOfMore
    <3> QED BY <3>1, <3>2
  <2>3. EliminationTotal(c, ps \cup qs) >= EliminationTotal(c, ps) + EliminationTotal(c, qs)
    BY EliminationOfUnion
  <2> QED BY <2>2, <2>3
<1>3. PICK rate \in Nat : rate = Rate(c) /\ rate \in RatesOf(c)
  BY RatesAreNumbers
<1>4. PICK line : line = LinesOf(c, ts)["intercompany"]
  OBVIOUS
<1>5. line.translated = (-b) * rate /\ line.elimination = e * rate
  <2>1. books[c]["intercompany"] = -b
    BY <1>1, <1>2 DEF BookedInv
  <2>2. "intercompany" \in Accounts
    BY DEF Accounts
  <2>3. line = [translated |-> books[c]["intercompany"] * rate, elimination |-> e * rate]
    BY <1>1, <1>2, <1>3, <1>4, <2>2 DEF LinesOf
  <2> QED BY <2>1, <2>3
<1>6. (-b) * rate + e * rate >= n * rate
  <2>1. PICK d \in Nat : d = e - (b + n)
    BY <1>2
  <2>2. (-b) * rate + e * rate = n * rate + d * rate
    BY <2>1
  <2>3. d * rate \in Nat /\ n * rate \in Int
    OBVIOUS
  <2> QED BY <2>2, <2>3
<1>7. line.translated \in Int /\ line.elimination \in Int
  <2>1. (-b) * rate \in Int /\ e * rate \in Int
    OBVIOUS
  <2> QED BY <1>5, <2>1
<1>8. Covered(line, n, RatesOf(c))
  BY <1>3, <1>5, <1>6 DEF Covered
<1> QED BY <1>1, <1>2, <1>4, <1>7, <1>8 DEF SeenIn

\* Lines that were covered stay so while rates are added and trades become bare.
LEMMA LinesKept ==
  ASSUME Shapes, BookedInv, RatesGrow, bare \subseteq bare', bare' \subseteq Trades,
         NEW CONSTANT c \in Companies, NEW CONSTANT lines, SeenIn(lines, c)
  PROVE  SeenIn(lines, c)'
<1>1. PICK ps \in SUBSET Trades, qs \in SUBSET Trades : ps = bare /\ qs = bare' /\ ps \in SUBSET qs
  OBVIOUS
<1>2. PICK n \in Int, m \in Int :
        n = EliminationTotal(c, ps) /\ m = EliminationTotal(c, qs) /\ m <= n
  BY <1>1, EliminationOfMore
<1>3. EliminationTotal(c, bare)' = m
  BY <1>1, <1>2 DEF EliminationTotal, Touching
<1>4. PICK rs, ts : rs = RatesOf(c) /\ ts = RatesOf(c)' /\ rs \subseteq ts /\ rs \subseteq Nat
  BY RatesAreNumbers DEF RatesGrow
<1>5. PICK line : line = lines[c]["intercompany"]
  OBVIOUS
<1>6. line.translated \in Int /\ line.elimination \in Int /\ Covered(line, n, rs)
  BY <1>1, <1>2, <1>4, <1>5 DEF SeenIn
<1>7. Covered(line, m, ts)
  BY <1>2, <1>4, <1>6, CoverKept
<1> QED BY <1>3, <1>4, <1>5, <1>6, <1>7 DEF SeenIn, Covered

\* A step after which each run and request has the lines it or a request had, or
\* covered ones, needs a look only at the books and at the trades.
LEMMA LinesStep ==
  ASSUME Shapes, BookedInv, RatesGrow, bare \subseteq bare', bare' \subseteq Trades,
         books' \in [Companies -> [Accounts -> Int]],
         \A c \in Companies \ Home : rated'[c] <= Len(Rates[c]),
         \A t \in Trades : trade'[t] = "matched" => t \in bare' \/ <<t, Trade[t].a>> \in posted',
         \A c \in Companies : Sells(c) =>
           books'[c]["intercompany"] = -EliminationTotal(c, PostedBy(c))',
         \A r \in Runs : \/ run'[r].lines = run[r].lines
                         \/ \E s \in Sessions : run'[r].lines = sess[s].lines,
         \A s \in Sessions : \/ sess'[s].lines = sess[s].lines
                             \/ sess'[s].lines = NoLines
                             \/ \A c \in Companies : Sells(c) => SeenIn(sess[s].lines, c)'
  PROVE  BookedInv'
<1>1. ASSUME NEW c \in Companies, Sells(c)
      PROVE  /\ \A r \in Runs : SeenIn(run[r].lines, c)'
             /\ \A s \in Sessions : SeenIn(sess[s].lines, c)'
  <2>1. ASSUME NEW r \in Runs PROVE SeenIn(run[r].lines, c)'
    <3>1. PICK lines : lines = run'[r].lines
      OBVIOUS
    <3>2. SeenIn(lines, c)
      BY <1>1, <3>1 DEF BookedInv
    <3>3. SeenIn(lines, c)'
      BY <3>2, LinesKept
    <3> QED BY <3>1, <3>3 DEF SeenIn
  <2>2. ASSUME NEW s \in Sessions PROVE SeenIn(sess[s].lines, c)'
    <3>1. PICK lines : lines = sess'[s].lines
      OBVIOUS
    <3>2. SeenIn(NoLines, c)
      BY NoLinesSeen DEF BookedInv
    <3>3. CASE lines = sess[s].lines \/ lines = NoLines
      <4>1. SeenIn(lines, c)
        BY <1>1, <3>2, <3>3 DEF BookedInv
      <4>2. SeenIn(lines, c)'
        BY <4>1, LinesKept
      <4> QED BY <3>1, <4>2 DEF SeenIn
    <3> QED BY <1>1, <3>1, <3>3
  <2> QED BY <2>1, <2>2
<1> QED BY <1>1 DEF BookedInv, Sells, Touching

\* A step that posts nothing keeps the books.
LEMMA BooksSame ==
  ASSUME BookedInv, books' = books, posted' = posted
  PROVE  /\ books' \in [Companies -> [Accounts -> Int]]
         /\ \A c \in Companies : Sells(c) =>
              books'[c]["intercompany"] = -EliminationTotal(c, PostedBy(c))'
<1>1. ASSUME NEW c \in Companies, Sells(c)
      PROVE  books[c]["intercompany"] = -EliminationTotal(c, PostedBy(c))'
  <2>1. PICK ps : ps = PostedBy(c)
    OBVIOUS
  <2>2. PostedBy(c)' = ps
    BY <2>1 DEF PostedBy
  <2>3. EliminationTotal(c, PostedBy(c))' = EliminationTotal(c, ps)
    BY <2>2 DEF EliminationTotal, Touching
  <2> QED BY <1>1, <2>1, <2>3 DEF BookedInv
<1> QED BY <1>1 DEF BookedInv

\* What an entry, or the one that takes it back, adds to the books.
LEMMA BooksAdded ==
  ASSUME BookedInv, NEW d \in Companies, NEW amount \in Int, AddTo(d, amount)
  PROVE  /\ books' \in [Companies -> [Accounts -> Int]]
         /\ books'[d]["intercompany"] = books[d]["intercompany"] + amount
         /\ \A c \in Companies : c # d => books'[c] = books[c]
<1>1. PICK b \in [Accounts -> Int] : b = books[d]
  BY DEF BookedInv
<1>2. PICK n : n = [b EXCEPT !.intercompany = @ + amount, !.other = @ - amount]
  OBVIOUS
<1>3. n \in [Accounts -> Int] /\ n["intercompany"] = b["intercompany"] + amount
  <2>1. b["intercompany"] \in Int /\ b["other"] \in Int
    BY DEF Accounts
  <2>2. n = [a \in Accounts |-> IF a = "intercompany" THEN b["intercompany"] + amount
                                ELSE b["other"] - amount]
    BY <1>2 DEF Accounts
  <2> QED BY <2>1, <2>2 DEF Accounts
<1>4. books' = [books EXCEPT ![d] = n]
  BY <1>1, <1>2 DEF AddTo
<1> QED BY <1>1, <1>3, <1>4 DEF BookedInv

LEMMA PostingBooks ==
  ASSUME ConsolidationInv, BookedInv, NEW t \in Trades, NEW d \in Companies,
         PostSide(t, d) \/ TakeBack(t, d)
  PROVE  BookedInv'
<1>1. UNCHANGED <<rated, trade, run, sess>> /\ RatesGrow /\ Shapes
  BY SameRates DEF PostSide, TakeBack, ConsolidationInv
<1>2. PICK due \in Int, amount \in Int :
        /\ due = Due(t, d) /\ AddTo(d, amount)
        /\ \/ PostSide(t, d) /\ amount = due
           \/ TakeBack(t, d) /\ amount = -due
  <2>1. Due(t, d) \in Int /\ -Due(t, d) \in Int
    BY ConsolidationAssumption DEF Due
  <2> QED BY <2>1 DEF PostSide, TakeBack
<1>3. /\ books' \in [Companies -> [Accounts -> Int]]
      /\ books'[d]["intercompany"] = books[d]["intercompany"] + amount
      /\ \A c \in Companies : c # d => books'[c] = books[c]
  BY <1>2, BooksAdded
<1>4. ASSUME NEW c \in Companies, Sells(c)
      PROVE  books'[c]["intercompany"] = -EliminationTotal(c, PostedBy(c))'
  <2>1. PICK ps \in SUBSET Trades, qs \in SUBSET Trades : ps = PostedBy(c) /\ qs = PostedBy(c)'
    BY DEF PostedBy
  <2>2. PICK e \in Int, f \in Int : e = EliminationTotal(c, ps) /\ f = EliminationTotal(c, qs)
    BY EliminationOfMore
  <2>3. books[c]["intercompany"] = -e
    BY <1>4, <2>1, <2>2 DEF BookedInv
  <2>4. EliminationTotal(c, PostedBy(c))' = f
    BY <2>1, <2>2 DEF EliminationTotal, Touching
  <2>5. CASE c # d
    <3>1. qs = ps
      BY <2>1, <2>5 DEF PostedBy, PostSide, TakeBack
    <3> QED BY <1>3, <2>2, <2>3, <2>4, <2>5, <3>1
  <2>6. CASE c = d /\ PostSide(t, d) /\ amount = due
    <3>1. t \in Trades \ ps /\ qs = ps \cup {t} /\ c \in {Trade[t].a, Trade[t].b}
      BY <2>1, <2>6 DEF PostedBy, PostSide
    <3>2. due = Trade[t].amount
      BY <1>2, <1>4, <2>6, <3>1 DEF Sells, Touching, Due
    <3>3. f = e - due
      BY <2>2, <3>1, <3>2, EliminationOfOneMore
    <3> QED BY <1>3, <2>3, <2>4, <2>6, <3>3
  <2>7. CASE c = d /\ TakeBack(t, d) /\ amount = -due
    <3>1. t \in ps /\ qs = ps \ {t}
      BY <2>1, <2>7 DEF PostedBy, TakeBack
    <3>2. due = Trade[t].amount /\ c \in {Trade[t].a, Trade[t].b}
      BY <1>2, <1>4, <2>7 DEF TakeBack, Sells, Touching, Due
    <3>3. t \in Trades \ qs /\ ps = qs \cup {t}
      BY <3>1
    <3>4. e = f - due
      BY <2>2, <3>2, <3>3, EliminationOfOneMore
    <3> QED BY <1>3, <2>3, <2>4, <2>7, <3>4
  <2> QED BY <1>2, <2>5, <2>6, <2>7
<1>5. bare \subseteq bare' /\ bare' \subseteq Trades
  BY DEF BookedInv, PostSide, TakeBack
<1>6. \A k \in Trades : trade'[k] = "matched" => k \in bare' \/ <<k, Trade[k].a>> \in posted'
  BY <1>1 DEF BookedInv, PostSide, TakeBack
<1> QED BY <1>1, <1>3, <1>4, <1>5, <1>6, LinesStep DEF BookedInv

LEMMA ReadCompanyBooks ==
  ASSUME ConsolidationInv, BookedInv, NEW s \in Sessions, ReadCompany(s)
  PROVE  BookedInv'
<1>0. PICK old : old = sess[s]
  OBVIOUS
<1>1. PICK d \in old.todo :
        /\ HasRate(d)
        /\ sess' = [sess EXCEPT ![s].todo = @ \ {d}, ![s].lines[d] = LinesOf(d, old.matched)]
  BY <1>0 DEF ReadCompany
<1>2. /\ old.op = "create" /\ UNCHANGED <<books, rated, posted, trade, run, bare>>
      /\ \A t \in old.matched : t \in Trades /\ trade[t] = "matched"
      /\ DOMAIN sess = Sessions /\ old.lines = [c \in Companies |-> old.lines[c]]
  <2>1. sess = [u \in Sessions |-> Request(sess[u])]
    BY DEF ConsolidationInv, Shapes, Request
  <2>2. sess[s] = Request(sess[s]) /\ DOMAIN sess = Sessions
    BY <2>1
  <2>3. sess[s].lines = [c \in Companies |-> sess[s].lines[c]]
    BY <2>2 DEF Request
  <2>4. RequestOK(s)
    BY DEF ConsolidationInv
  <2> QED BY <1>0, <2>2, <2>3, <2>4 DEF ReadCompany, RequestOK, Seen
<1>3. /\ \A u \in Sessions : u # s => sess'[u] = sess[u]
      /\ \A c \in Companies : sess'[s].lines[c] = IF c = d THEN LinesOf(c, old.matched)
                                                  ELSE old.lines[c]
  BY <1>0, <1>1, <1>2
<1>a. RatesGrow /\ Shapes /\ bare \subseteq bare' /\ bare' \subseteq Trades
  BY <1>2, SameRates DEF ConsolidationInv, BookedInv
<1>4. ASSUME NEW c \in Companies, Sells(c) PROVE SeenIn(sess[s].lines, c)'
  <2>0. PICK lines : lines = sess'[s].lines
    OBVIOUS
  <2>1. CASE c = d
    <3>1. ASSUME NEW t \in old.matched, c \in {Trade[t].a, Trade[t].b} PROVE t \in PostedBy(c) \cup bare
      BY <1>2, <1>4, <3>1 DEF Sells, Touching, BookedInv, PostedBy
    <3>2. PICK ts : ts = {t \in old.matched : c \in {Trade[t].a, Trade[t].b}}
      OBVIOUS
    <3>3. ts \in SUBSET (PostedBy(c) \cup bare) /\ Touching(c, ts) = Touching(c, old.matched)
      BY <3>1, <3>2 DEF Touching
    <3>4. LinesOf(c, ts) = LinesOf(c, old.matched)
      BY <3>3 DEF LinesOf, EliminationTotal
    <3>5. SeenIn([k \in Companies |-> LinesOf(k, ts)], c)
      BY <1>1, <1>4, <1>a, <2>1, <3>3, LinesCover
    <3>6. lines[c] = [k \in Companies |-> LinesOf(k, ts)][c]
      BY <1>3, <2>0, <2>1, <3>4
    <3>7. SeenIn(lines, c)
      BY <3>5, <3>6 DEF SeenIn
    <3> QED BY <1>a, <2>0, <3>7, LinesKept DEF SeenIn
  <2>2. CASE c # d
    <3>1. SeenIn(old.lines, c)
      BY <1>0, <1>4 DEF BookedInv
    <3>2. SeenIn(lines, c)
      BY <1>3, <2>0, <2>2, <3>1 DEF SeenIn
    <3> QED BY <1>a, <2>0, <3>2, LinesKept DEF SeenIn
  <2> QED BY <2>1, <2>2
<1>5. \A u \in Sessions : \/ sess'[u].lines = sess[u].lines
                          \/ \A c \in Companies : Sells(c) => SeenIn(sess[u].lines, c)'
  BY <1>3, <1>4
<1> QED BY <1>2, <1>5, <1>a, BooksSame, LinesStep DEF BookedInv

LEMMA BookedStep == ConsolidationInv /\ BookedInv /\ [Next]_vars => BookedInv'
<1> SUFFICES ASSUME ConsolidationInv, BookedInv, [Next]_vars PROVE BookedInv'
  OBVIOUS
<1>0. Shapes /\ bare \subseteq Trades
  BY DEF ConsolidationInv, BookedInv
<1>1. \A s \in Sessions : \A u : sess' = [sess EXCEPT ![s] = u] =>
        sess'[s] = u /\ \A v \in Sessions : v # s => sess'[v] = sess[v]
  BY DEF ConsolidationInv, Shapes
<1>2. ASSUME NEW t \in Trades, NEW d \in Companies, PostSide(t, d) \/ TakeBack(t, d) PROVE BookedInv'
  BY <1>2, PostingBooks
\* The other steps post nothing: each leaves the lines of the runs and of the requests,
\* moves those of a request to its run, or clears them.
<1>3. ASSUME books' = books, posted' = posted, RatesGrow,
             bare \subseteq bare', bare' \subseteq Trades,
             \A c \in Companies \ Home : rated'[c] <= Len(Rates[c]),
             \A t \in Trades : trade'[t] = "matched" => t \in bare' \/ <<t, Trade[t].a>> \in posted,
             \A r \in Runs : \/ run'[r].lines = run[r].lines
                             \/ \E s \in Sessions : run'[r].lines = sess[s].lines,
             \A s \in Sessions : sess'[s].lines = sess[s].lines \/ sess'[s].lines = NoLines
      PROVE  BookedInv'
  BY <1>0, <1>3, BooksSame, LinesStep
<1>4. ASSUME NEW t \in Trades, RecordTrade(t) PROVE BookedInv'
  <2>1. /\ UNCHANGED <<books, rated, posted, run, sess, bare>>
        /\ \A k \in Trades : trade'[k] = "matched" => trade[k] = "matched"
    BY <1>4 DEF RecordTrade, ConsolidationInv, Shapes
  <2> QED BY <1>0, <1>3, <2>1, SameRates DEF BookedInv
<1>5. ASSUME NEW c \in Companies \ Home, EnterRate(c) PROVE BookedInv'
  <2>1. \A k \in Companies \ Home : rated'[k] <= Len(Rates[k])
    <3>1. rated[c] \in Nat /\ Len(Rates[c]) \in Nat
      BY ConsolidationAssumption DEF ConsolidationInv, Shapes
    <3> QED BY <1>5, <3>1 DEF EnterRate, BookedInv, ConsolidationInv, Shapes
  <2>2. RatesGrow
    BY <1>5 DEF ConsolidationInv, Shapes, EnterRate, RatesGrow, RatesOf
  <2> QED BY <1>0, <1>3, <1>5, <2>1, <2>2 DEF EnterRate, BookedInv
<1>6. ASSUME NEW s \in Sessions, NEW u, sess' = [sess EXCEPT ![s] = u], u.lines = NoLines,
             UNCHANGED <<books, rated, posted, trade, bare>>,
             \A r \in Runs : \/ run'[r].lines = run[r].lines
                             \/ \E x \in Sessions : run'[r].lines = sess[x].lines
      PROVE  BookedInv'
  <2>1. \A x \in Sessions : sess'[x].lines = sess[x].lines \/ sess'[x].lines = NoLines
    BY <1>1, <1>6
  <2> QED BY <1>0, <1>3, <1>6, <2>1, SameRates DEF BookedInv
<1>7. ASSUME NEW s \in Sessions, NEW t \in Trades, BeginMatch(s, t) PROVE BookedInv'
  <2>1. PICK x : x = [Idle EXCEPT !.op = "match", !.on = t]
    OBVIOUS
  <2>2. x.lines = NoLines
    BY <2>1 DEF Idle
  <2>3. sess' = [sess EXCEPT ![s] = x] /\ UNCHANGED <<books, rated, posted, trade, run, bare>>
    BY <1>7, <2>1 DEF BeginMatch, Become
  <2> QED BY <1>6, <2>2, <2>3
<1>8. ASSUME NEW s \in Sessions, CommitMatch(s) PROVE BookedInv'
  <2>1. PICK t \in Trades : /\ t = sess[s].on /\ trade' = [trade EXCEPT ![t] = "matched"]
                            /\ bare' = IF <<t, Trade[t].a>> \in posted THEN bare ELSE bare \cup {t}
    BY <1>8 DEF CommitMatch, ConsolidationInv, RequestOK
  <2>2. \A k \in Trades : trade'[k] = "matched" => k \in bare' \/ <<k, Trade[k].a>> \in posted
    BY <2>1 DEF ConsolidationInv, Shapes, BookedInv
  <2>3. /\ sess'[s] = Idle /\ \A v \in Sessions : v # s => sess'[v] = sess[v]
        /\ UNCHANGED <<books, rated, posted, run>>
    BY <1>1, <1>8 DEF CommitMatch, Become
  <2>4. \A x \in Sessions : sess'[x].lines = sess[x].lines \/ sess'[x].lines = NoLines
    BY <2>3 DEF Idle
  <2> QED BY <1>0, <1>3, <2>1, <2>2, <2>3, <2>4, SameRates DEF BookedInv
<1>9. ASSUME NEW s \in Sessions, NEW r \in Runs, BeginCreate(s, r) PROVE BookedInv'
  <2>1. PICK x : x = [Idle EXCEPT !.op = "create", !.on = r, !.matched = Matched, !.todo = Companies]
    OBVIOUS
  <2>2. x.lines = NoLines
    BY <2>1 DEF Idle
  <2>3. sess' = [sess EXCEPT ![s] = x] /\ UNCHANGED <<books, rated, posted, trade, run, bare>>
    BY <1>9, <2>1 DEF BeginCreate, Become
  <2> QED BY <1>6, <2>2, <2>3
<1>10. ASSUME NEW s \in Sessions, NEW r \in Runs, BeginFinalize(s, r) PROVE BookedInv'
  <2>1. PICK x : x = [Idle EXCEPT !.op = "finalize", !.on = r]
    OBVIOUS
  <2>2. x.lines = NoLines
    BY <2>1 DEF Idle
  <2>3. sess' = [sess EXCEPT ![s] = x] /\ UNCHANGED <<books, rated, posted, trade, run, bare>>
    BY <1>10, <2>1 DEF BeginFinalize, Become
  <2> QED BY <1>6, <2>2, <2>3
<1>11. ASSUME NEW s \in Sessions, ReadCompany(s) PROVE BookedInv'
  BY <1>11, ReadCompanyBooks
<1>12. Idle.lines = NoLines
  BY DEF Idle
<1>13. ASSUME NEW s \in Sessions, CommitCreate(s) PROVE BookedInv'
  <2>1. PICK r : r = sess[s].on
    OBVIOUS
  <2>2. run' = [run EXCEPT ![r] = [status |-> "draft", lines |-> sess[s].lines]]
    BY <1>13, <2>1 DEF CommitCreate
  <2>3. \A k \in Runs : run'[k].lines = run[k].lines \/ run'[k].lines = sess[s].lines
    BY <2>2 DEF ConsolidationInv, Shapes
  <2> QED BY <1>6, <1>12, <1>13, <2>3 DEF CommitCreate, Become
<1>14. ASSUME NEW s \in Sessions, CommitFinalize(s) PROVE BookedInv'
  <2>1. PICK r : r = sess[s].on
    OBVIOUS
  <2>2. run' = [run EXCEPT ![r].status = "final"]
    BY <1>14, <2>1 DEF CommitFinalize
  <2>3. \A k \in Runs : run'[k].lines = run[k].lines
    BY <2>2 DEF ConsolidationInv, Shapes
  <2> QED BY <1>6, <1>12, <1>14, <2>3 DEF CommitFinalize, Become
<1>15. ASSUME NEW s \in Sessions, Abort(s) PROVE BookedInv'
  BY <1>6, <1>12, <1>15 DEF Abort, Become
<1>16. CASE UNCHANGED vars
  BY <1>0, <1>3, <1>16, SameRates DEF vars, BookedInv
<1> QED BY <1>2, <1>4, <1>5, <1>7, <1>8, <1>9, <1>10, <1>11, <1>13, <1>14, <1>15, <1>16 DEF Next

\* No run eliminates more of a seller than its books held when the run read them, at one
\* of its rates, but for the trades that were matched while the books did not hold them:
\* create and match do not look, but nothing is lost between a run's read of the matched
\* trades and its reads of the companies.
THEOREM EliminatedWasBooked == Spec => []EliminationsAreBooked
<1>1. BookedInv => EliminationsAreBooked
  BY DEF BookedInv, EliminationsAreBooked, SeenIn
<1> QED BY <1>1, BookedInit, BookedStep, ConsolidationInvariant, PTL DEF Spec

-----------------------------------------------------------------------------
(***************************************************************************)
(* Sums of balances.                                                       *)
(***************************************************************************)
IncomeOrExpense == OfType({"income", "expense"})

\* A set of accounts has a sum of balances, the parts of it have theirs.
LEMMA SumOfAccounts ==
  ASSUME NEW held \in [Chart -> Int], NEW over \in SUBSET Chart
  PROVE  Sum(held, over) \in Int
<1>1. IsFiniteSet(over) /\ \A a \in over : held[a] \in Int
  BY ReportsAssumption, FS_Subset
<1> QED BY <1>1, SumType DEF Sum

LEMMA SumOfParts ==
  ASSUME NEW held \in [Chart -> Int], NEW over \in SUBSET Chart, NEW part \in SUBSET over
  PROVE  Sum(held, over) = Sum(held, part) + Sum(held, over \ part)
<1>1. IsFiniteSet(over) /\ \A a \in over : held[a] \in Int
  BY ReportsAssumption, FS_Subset
<1> QED BY <1>1, SumSplit DEF Sum

\* Adding the lines of an entry to the balances adds their sum.
LEMMA SumOfChanged ==
  ASSUME NEW old \in [Chart -> Int], NEW new \in [Chart -> Int], NEW lines \in [Chart -> Int],
         \A a \in Chart : new[a] = old[a] + lines[a], NEW over \in SUBSET Chart
  PROVE  Sum(new, over) = Sum(old, over) + Sum(lines, over)
<1>1. IsFiniteSet(over)
  BY ReportsAssumption, FS_Subset
<1>2. \A a \in over : old[a] \in Int /\ lines[a] \in Int /\ new[a] = old[a] + lines[a]
  OBVIOUS
<1> QED BY <1>1, <1>2, SumAdd DEF Sum

\* The balance of periods is an integer for each account.
LEMMA BalanceTypes ==
  ASSUME ReportsTypeOK, NEW ps \in SUBSET Periods
  PROVE  BalanceOf(ps) \in [Chart -> Int]
<1>1. IsFiniteSet(ps)
  BY ReportsAssumption, FS_Subset
<1>2. ASSUME NEW a \in Chart PROVE SumFunction([p \in ps |-> gl[p][a]]) \in Int
  <2> DEFINE f == [p \in ps |-> gl[p][a]]
  <2>1. \A p \in ps : f[p] \in Int
    BY DEF ReportsTypeOK
  <2>2. SumFunction(f) = SumFunctionOnSet(f, ps)
    BY DEF SumFunction
  <2> HIDE DEF f
  <2>3. SumFunction(f) \in Int
    BY <1>1, <2>1, <2>2, SumType
  <2> QED BY <2>3 DEF f
<1>3. ASSUME NEW a \in Chart PROVE BalanceOf(ps)[a] \in Int
  <2>1. BalanceOf(ps)[a] = SumFunction([p \in ps |-> gl[p][a]])
    BY DEF BalanceOf
  <2> QED BY <1>2, <2>1
<1>4. BalanceOf(ps) = [a \in Chart |-> BalanceOf(ps)[a]]
  BY DEF BalanceOf
<1> QED BY <1>3, <1>4

LEMMA HeldTypes ==
  ASSUME ReportsTypeOK, NEW from, NEW to
  PROVE  Held(from, to) \in [Chart -> Int]
<1>1. Dated(from, to) \in SUBSET Periods
  BY DEF Dated
<1> QED BY <1>1, BalanceTypes DEF Held

\* The same for the periods up to a date, with what their entries are out of balance by.
LEMMA HeldBooks ==
  ASSUME ReportsInv, NEW from, NEW to
  PROVE  /\ Held(from, to) \in [Chart -> Int]
         /\ Sum(Held(from, to), Chart) = Imbalance(Dated(from, to))
<1>1. Dated(from, to) \in SUBSET Periods
  BY DEF Dated
<1>2. ReportsTypeOK /\ BooksBalance
  BY DEF ReportsInv
<1> QED BY <1>1, <1>2, HeldTypes DEF BooksBalance, Held

\* A sum over the entries gains what an appended one adds.
LEMMA SumAppended ==
  ASSUME NEW n \in Nat, NEW f, NEW g, DOMAIN f = 1..n, DOMAIN g = 1..(n + 1),
         \A i \in 1..n : f[i] \in Int /\ g[i] = f[i], g[n + 1] \in Int
  PROVE  SumFunction(f) \in Int /\ SumFunction(g) = SumFunction(f) + g[n + 1]
<1>1. SumFunction(f) = SumFunctionOnSet(f, 1..n) /\ SumFunction(g) = SumFunctionOnSet(g, 1..(n + 1))
  BY DEF SumFunction
<1>2. SumFunctionOnSet(g, 1..(n + 1)) = g[n + 1] + SumFunctionOnSet(g, 1..n)
  <2> DEFINE S == 1..(n + 1)  last == n + 1
  <2>1. IsFiniteSet(S) /\ last \in S /\ S \ {last} = 1..n
    <3>1. n + 1 \in Int /\ 1 \in Int
      OBVIOUS
    <3>2. IsFiniteSet(S)
      BY <3>1, FS_Interval
    <3>3. last \in S /\ S \ {last} = 1..n
      OBVIOUS
    <3> QED BY <3>2, <3>3
  <2>2. \A i \in S : g[i] \in Int
    OBVIOUS
  <2>3. SumFunctionOnSet(g, S) = g[last] + SumFunctionOnSet(g, S \ {last})
    <3> HIDE DEF S, last
    <3> QED BY <2>1, <2>2, SumTakeOut
  <2> QED BY <2>1, <2>3
<1>3. SumFunctionOnSet(g, 1..n) = SumFunctionOnSet(f, 1..n) /\ SumFunctionOnSet(f, 1..n) \in Int
  <2> DEFINE S == 1..n
  <2>1. IsFiniteSet(S)
    BY FS_Interval
  <2>2. \A i \in S : f[i] \in Int /\ g[i] = f[i]
    OBVIOUS
  <2> HIDE DEF S
  <2>3. SumFunctionOnSet(g, S) = SumFunctionOnSet(f, S) /\ SumFunctionOnSet(f, S) \in Int
    BY <2>1, <2>2, SumSame, SumType
  <2> QED BY <2>3 DEF S
<1> QED BY <1>1, <1>2, <1>3

-----------------------------------------------------------------------------
(***************************************************************************)
(* The invariant holds at the start.                                       *)
(***************************************************************************)
LEMMA ReportsInitLemma == ReportsInit => ReportsInv
<1> SUFFICES ASSUME ReportsInit PROVE ReportsInv
  OBVIOUS
<1>1. ReportsTypeOK
  BY DEF ReportsInit, ReportsTypeOK
<1>2. BooksBalance
  <2>1. ASSUME NEW ps \in SUBSET Periods PROVE Sum(BalanceOf(ps), Chart) = Imbalance(ps)
    <3>1. BalanceOf(ps) \in [Chart -> Int]
      BY <1>1, BalanceTypes
    <3>2. ASSUME NEW a \in Chart PROVE BalanceOf(ps)[a] = 0
      <4> DEFINE f == [p \in ps |-> gl[p][a]]
      <4>1. \A p \in ps : f[p] = 0
        BY DEF ReportsInit
      <4>2. SumFunction(f) = SumFunctionOnSet(f, ps)
        BY DEF SumFunction
      <4>3. BalanceOf(ps)[a] = SumFunction(f)
        BY DEF BalanceOf
      <4>4. IsFiniteSet(ps)
        BY ReportsAssumption, FS_Subset
      <4> HIDE DEF f
      <4> QED BY <4>1, <4>2, <4>3, <4>4, SumZero
    <3>3. IsFiniteSet(Chart)
      BY ReportsAssumption
    <3>4. SumFunctionOnSet(BalanceOf(ps), Chart) = 0
      BY <3>2, <3>3, SumZero
    <3>5. Imbalance(ps) = 0
      <4> DEFINE f == [i \in DOMAIN entries |->
                         IF entries[i].period \in ps THEN Sum(entries[i].lines, Chart) ELSE 0]
      <4>1. DOMAIN f = {}
        BY DEF ReportsInit
      <4>2. Imbalance(ps) = SumFunctionOnSet(f, DOMAIN f)
        BY DEF Imbalance, SumFunction
      <4> HIDE DEF f
      <4> QED BY <4>1, <4>2, SumEmpty
    <3> QED BY <3>4, <3>5 DEF Sum
  <2> QED BY <2>1 DEF BooksBalance
<1>3. BalancesAreOfEntries
  <2>1. ASSUME NEW p \in Periods, NEW a \in Chart PROVE gl[p][a] = SumFunction(InPeriod(p, a))
    <3>1. DOMAIN entries = {} /\ gl[p][a] = 0
      BY DEF ReportsInit
    <3>2. SumFunction(InPeriod(p, a)) = SumFunctionOnSet(InPeriod(p, a), {})
      BY <3>1 DEF SumFunction, InPeriod
    <3> QED BY <3>1, <3>2, SumEmpty
  <2> QED BY <2>1 DEF BalancesAreOfEntries
<1>4. report.step = "none"
  BY DEF ReportsInit, NoReport
<1> QED BY <1>1, <1>2, <1>3, <1>4 DEF ReportsInv, SheetUnderWay, ControlsToRead,
           DepreciationToRead, SheetOffset, DashboardOffset, EbitdaOffset,
           WorkingCapitalOffset, VarianceAddsUp

-----------------------------------------------------------------------------
(***************************************************************************)
(* Posting and reversing.                                                  *)
(***************************************************************************)
\* An entry moves the balances of the periods that its own is one of.
LEMMA BookMoves ==
  ASSUME ReportsTypeOK, NEW p \in Periods, NEW lines \in [Chart -> Int],
         gl' = [gl EXCEPT ![p] = [a \in Chart |-> @[a] + lines[a]]], NEW ps \in SUBSET Periods
  PROVE  BalanceOf(ps)' = [a \in Chart |-> BalanceOf(ps)[a] + (IF p \in ps THEN lines[a] ELSE 0)]
<1>1. IsFiniteSet(ps)
  BY ReportsAssumption, FS_Subset
<1>2. gl \in [Periods -> [Chart -> Int]]
  BY DEF ReportsTypeOK
<1>3. \A q \in Periods, a \in Chart : gl'[q][a] = IF q = p THEN gl[q][a] + lines[a] ELSE gl[q][a]
  BY <1>2
<1>4. ASSUME NEW a \in Chart
      PROVE  SumFunction([q \in ps |-> gl'[q][a]])
               = SumFunction([q \in ps |-> gl[q][a]]) + (IF p \in ps THEN lines[a] ELSE 0)
  <2> DEFINE f == [q \in ps |-> gl[q][a]]  g == [q \in ps |-> gl'[q][a]]
  <2>1. SumFunction(f) = SumFunctionOnSet(f, ps) /\ SumFunction(g) = SumFunctionOnSet(g, ps)
    BY DEF SumFunction
  <2>2. \A q \in ps : f[q] \in Int /\ g[q] = IF q = p THEN f[q] + lines[a] ELSE f[q]
    BY <1>2, <1>3
  <2>3. lines[a] \in Int
    OBVIOUS
  <2> HIDE DEF f, g
  <2>4. SumFunctionOnSet(f, ps) \in Int
    BY <1>1, <2>2, SumType
  <2>5. ASSUME p \in ps PROVE SumFunctionOnSet(g, ps) = SumFunctionOnSet(f, ps) + lines[a]
    <3>1. DiffersAt(p, f, g, ps)
      BY <2>2, <2>3 DEF DiffersAt
    <3>2. SumFunctionOnSet(g, ps) = SumFunctionOnSet(f, ps) + g[p] - f[p]
      BY <1>1, <2>5, <3>1, SumChange
    <3>3. f[p] \in Int /\ g[p] = f[p] + lines[a]
      BY <2>2, <2>5
    <3> QED BY <2>3, <2>4, <2>5, <3>2, <3>3
  <2>6. ASSUME p \notin ps PROVE SumFunctionOnSet(g, ps) = SumFunctionOnSet(f, ps) + 0
    <3>1. \A q \in ps : f[q] = g[q]
      BY <2>2, <2>6
    <3>2. SumFunctionOnSet(f, ps) = SumFunctionOnSet(g, ps)
      BY <1>1, <3>1, SumSame
    <3> QED BY <2>4, <2>6, <3>2
  <2> QED BY <2>1, <2>5, <2>6 DEF f, g
<1>5. \A a \in Chart : BalanceOf(ps)[a] = SumFunction([q \in ps |-> gl[q][a]])
  BY DEF BalanceOf
<1> QED BY <1>4, <1>5 DEF BalanceOf

LEMMA HeldMoves ==
  ASSUME ReportsTypeOK, NEW p \in Periods, NEW lines \in [Chart -> Int], Book(p, lines),
         NEW CONSTANT from, NEW CONSTANT to
  PROVE  Held(from, to)' = [a \in Chart |-> Held(from, to)[a]
                                             + (IF Within(p, from, to) THEN lines[a] ELSE 0)]
<1>1. Dated(from, to) \in SUBSET Periods
  BY DEF Dated
<1>2. p \in Dated(from, to) <=> Within(p, from, to)
  BY DEF Dated
<1>3. gl' = [gl EXCEPT ![p] = [a \in Chart |-> @[a] + lines[a]]]
  BY DEF Book
<1> DEFINE ps == Dated(from, to)
<1> HIDE DEF ps
<1>4. BalanceOf(ps)' = [a \in Chart |-> BalanceOf(ps)[a] + (IF p \in ps THEN lines[a] ELSE 0)]
  BY <1>1, <1>3, BookMoves DEF ps
<1> QED BY <1>2, <1>4 DEF ps, Held, Dated

\* While a report is under way, what it will read and what is noted as posted
\* since its first read move by the same amounts.
MoveAlike(from, to, more) ==
  /\ \A a \in Chart : /\ Held(from, to)'[a] = Held(from, to)[a] + more[a]
                        /\ between'[a] = between[a] + more[a]
  /\ \A over \in SUBSET Chart :
       /\ Sum(Held(from, to)', over) = Sum(Held(from, to), over) + Sum(more, over)
       /\ Sum(between', over) = Sum(between, over) + Sum(more, over)

LEMMA ReportsMove ==
  ASSUME ReportsTypeOK, NEW p \in Periods, NEW lines \in [Chart -> Int], Book(p, lines), InProgress,
         NEW CONSTANT from, NEW CONSTANT to, report.from = from, report.to = to
  PROVE  \E more \in [Chart -> Int] : MoveAlike(from, to, more)
<1> DEFINE more == [a \in Chart |-> IF Within(p, from, to) THEN lines[a] ELSE 0]
<1>1. more \in [Chart -> Int]
  OBVIOUS
<1>2. /\ Held(from, to) \in [Chart -> Int]
      /\ Held(from, to)' = [a \in Chart |-> Held(from, to)[a] + more[a]]
  BY HeldTypes, HeldMoves
<1>3. between \in [Chart -> Int] /\ between' = [a \in Chart |-> between[a] + more[a]]
  <2>1. between \in [Chart -> Int]
    BY DEF ReportsTypeOK
  <2>2. CASE Within(p, from, to)
    BY <2>1, <2>2 DEF Book
  <2>3. CASE ~ Within(p, from, to)
    <3>1. between' = between
      BY <2>3 DEF Book
    <3>2. \A a \in Chart : between[a] + more[a] = between[a]
      BY <2>1, <2>3
    <3> QED BY <2>1, <3>1, <3>2
  <2> QED BY <2>1, <2>2, <2>3
<1> HIDE DEF more
<1>4. Held(from, to)' \in [Chart -> Int] /\ between' \in [Chart -> Int]
  BY <1>1, <1>2, <1>3
<1>5. \A a \in Chart : /\ Held(from, to)'[a] = Held(from, to)[a] + more[a]
                        /\ between'[a] = between[a] + more[a]
  BY <1>2, <1>3
<1>6. ASSUME NEW over \in SUBSET Chart
      PROVE  /\ Sum(Held(from, to)', over) = Sum(Held(from, to), over) + Sum(more, over)
             /\ Sum(between', over) = Sum(between, over) + Sum(more, over)
  <2>1. Sum(Held(from, to)', over) = Sum(Held(from, to), over) + Sum(more, over)
    BY <1>1, <1>2, <1>4, <1>5, SumOfChanged
  <2>2. Sum(between', over) = Sum(between, over) + Sum(more, over)
    BY <1>1, <1>3, <1>4, <1>5, SumOfChanged
  <2> QED BY <2>1, <2>2
<1>7. MoveAlike(from, to, more)
  BY <1>5, <1>6 DEF MoveAlike
<1> QED BY <1>1, <1>7

\* Booking keeps what the reports under way and the finished ones say.
LEMMA BookKeepsReports ==
  ASSUME ReportsInv, NEW p \in Periods, NEW lines \in [Chart -> Int], Book(p, lines)
  PROVE  /\ SheetUnderWay' /\ ControlsToRead' /\ DepreciationToRead'
         /\ SheetOffset' /\ DashboardOffset' /\ VarianceAddsUp'
<1>1. ReportsTypeOK /\ report' = report
  BY DEF ReportsInv, Book
<1>2. CASE ~ InProgress
  <2>1. between' = between
    BY <1>2 DEF Book
  <2>2. /\ report.step # "profit" /\ report.step # "controls" /\ report.step # "depreciation"
    BY <1>2 DEF InProgress
  <2>3. SheetUnderWay' /\ ControlsToRead' /\ DepreciationToRead'
    BY <1>1, <2>2 DEF SheetUnderWay, ControlsToRead, DepreciationToRead
  <2>4. SheetOffset'
    BY <1>1, <2>1 DEF ReportsInv, SheetOffset, Sum, OfType
  <2>5. DashboardOffset'
    BY <1>1, <2>1 DEF ReportsInv, DashboardOffset, EbitdaOffset, WorkingCapitalOffset, CapitalIs
  <2>6. VarianceAddsUp'
    BY <1>1 DEF ReportsInv, VarianceAddsUp, Sum
  <2> QED BY <2>3, <2>4, <2>5, <2>6
<1>3. CASE InProgress
  <2>1. PICK from, to : report.from = from /\ report.to = to
    OBVIOUS
  <2>2. PICK more \in [Chart -> Int] : MoveAlike(from, to, more)
    BY <1>1, <1>3, <2>1, ReportsMove
  <2>3. SheetOffset' /\ DashboardOffset' /\ VarianceAddsUp'
    BY <1>1, <1>3 DEF InProgress, SheetOffset, DashboardOffset, EbitdaOffset,
                      WorkingCapitalOffset, VarianceAddsUp
  <2> DEFINE held == Sum(Held(from, to), IncomeOrExpense)
             since == Sum(between, IncomeOrExpense)
             added == Sum(more, IncomeOrExpense)
             newHeld == Sum(Held(from, to)', IncomeOrExpense)
             newSince == Sum(between', IncomeOrExpense)
  <2>4. IncomeOrExpense \in SUBSET Chart
    BY DEF IncomeOrExpense, OfType
  <2>5. held \in Int /\ since \in Int /\ added \in Int
    <3>1. Held(from, to) \in [Chart -> Int] /\ between \in [Chart -> Int]
      BY <1>1, HeldTypes DEF ReportsTypeOK
    <3> QED BY <2>4, <3>1, SumOfAccounts
  <2>6. newHeld = held + added /\ newSince = since + added
    BY <2>2, <2>4 DEF MoveAlike
  <2>7. /\ Held(from, to)[Depreciation] \in Int /\ between[Depreciation] \in Int
        /\ more[Depreciation] \in Int
        /\ Held(from, to)'[Depreciation] = Held(from, to)[Depreciation] + more[Depreciation]
        /\ between'[Depreciation] = between[Depreciation] + more[Depreciation]
    <3>1. Depreciation \in Chart
      BY ReportsAssumption
    <3>2. Held(from, to) \in [Chart -> Int] /\ between \in [Chart -> Int]
      BY <1>1, HeldTypes DEF ReportsTypeOK
    <3> QED BY <2>2, <3>1, <3>2 DEF MoveAlike
  <2>8. \A r : ProfitIs(r) => ProfitIs(r)'
    BY <1>1, <2>1, <2>7 DEF ProfitIs
  <2>9. SheetUnderWay'
    <3>1. report.step = "profit" =>
            /\ report.from = 0 /\ report.to \in Nat
            /\ report.assets \in Int /\ report.liabilities \in Int /\ report.equity \in Int
            /\ report.imbalance \in Int
            /\ report.assets - (report.liabilities + report.equity) = report.imbalance + since - held
      BY <2>1 DEF ReportsInv, SheetUnderWay, IncomeOrExpense
    <3>2. \A d \in Int : d + since - held = d + newSince - newHeld
      BY <2>5, <2>6
    <3> QED BY <1>1, <2>1, <3>1, <3>2 DEF SheetUnderWay, IncomeOrExpense
  <2>10. ControlsToRead'
    <3>1. report.step = "controls" =>
            /\ DatesKnown /\ ProfitIs(report) /\ report.netProfit + report.misfiled = since - held
      BY <2>1 DEF ReportsInv, ControlsToRead, IncomeOrExpense
    <3>2. since - held = newSince - newHeld
      BY <2>5, <2>6
    <3>3. report.step = "controls" => ProfitIs(report)'
      BY <1>1, <2>8, <3>1
    <3> QED BY <1>1, <2>1, <3>1, <3>2, <3>3 DEF ControlsToRead, IncomeOrExpense, DatesKnown
  <2>11. DepreciationToRead'
    BY <1>1, <2>8 DEF ReportsInv, DepreciationToRead, DatesKnown, CapitalIs
  <2> QED BY <2>3, <2>9, <2>10, <2>11
<1> QED BY <1>2, <1>3

\* The books gain an entry: those there before keep their lines and their periods.
Appended(p, lines) ==
  /\ Book(p, lines)
  /\ DOMAIN entries' = 1..(Len(entries) + 1)
  /\ \A i \in 1..Len(entries) : /\ entries'[i].lines = entries[i].lines
                                 /\ entries'[i].period = entries[i].period
  /\ entries'[Len(entries) + 1].lines = lines /\ entries'[Len(entries) + 1].period = p

LEMMA EntriesTyped ==
  ASSUME ReportsTypeOK
  PROVE  \E n \in Nat : /\ n = Len(entries) /\ DOMAIN entries = 1..n
                         /\ \A i \in 1..n : entries[i].lines \in [Chart -> Int]
<1>1. PICK n \in Nat : n = Len(entries) /\ DOMAIN entries = 1..n
  <2>1. entries \in Seq(Entry)
    BY DEF ReportsTypeOK
  <2> QED BY <2>1
<1>2. \A i \in 1..n : entries[i] \in Entry
  BY <1>1 DEF ReportsTypeOK
<1>3. \A e \in Entry : e.lines \in [Chart -> Int]
  BY DEF Entry
<1> QED BY <1>1, <1>2, <1>3

\* Booking an entry puts the balances of the periods that its own is one of out of
\* balance by what its lines are.
LEMMA AppendKeepsBalance ==
  ASSUME ReportsInv, NEW p \in Periods, NEW lines \in [Chart -> Int], Appended(p, lines)
  PROVE  BooksBalance'
<1> SUFFICES ASSUME NEW ps \in SUBSET Periods PROVE Sum(BalanceOf(ps)', Chart) = Imbalance(ps)'
  BY DEF BooksBalance, Sum
<1> DEFINE more == [a \in Chart |-> IF p \in ps THEN lines[a] ELSE 0]
           by == IF p \in ps THEN Sum(lines, Chart) ELSE 0
<1>1. /\ ReportsTypeOK /\ Sum(BalanceOf(ps), Chart) = Imbalance(ps)
      /\ gl' = [gl EXCEPT ![p] = [a \in Chart |-> @[a] + lines[a]]]
  BY DEF ReportsInv, BooksBalance, Appended, Book
<1>2. /\ BalanceOf(ps)' = [a \in Chart |-> BalanceOf(ps)[a] + (IF p \in ps THEN lines[a] ELSE 0)]
      /\ BalanceOf(ps) \in [Chart -> Int]
  BY <1>1, BookMoves, BalanceTypes
<1>3. more \in [Chart -> Int] /\ \A a \in Chart : BalanceOf(ps)'[a] = BalanceOf(ps)[a] + more[a]
  BY <1>2
<1>4. Chart \in SUBSET Chart /\ IsFiniteSet(Chart)
  BY ReportsAssumption
<1>5. Sum(more, Chart) = by /\ by \in Int
  <2>1. Sum(lines, Chart) \in Int
    BY <1>4, SumOfAccounts
  <2>2. CASE p \in ps
    <3>1. more = lines
      BY <2>2
    <3> QED BY <2>1, <2>2, <3>1
  <2>3. CASE p \notin ps
    <3>1. \A a \in Chart : more[a] = 0
      BY <2>3
    <3> HIDE DEF more
    <3> QED BY <1>4, <2>3, <3>1, SumZero DEF Sum
  <2> QED BY <2>2, <2>3
<1>6. BalanceOf(ps)' \in [Chart -> Int]
  BY <1>2
<1>7. Sum(BalanceOf(ps)', Chart) = Sum(BalanceOf(ps), Chart) + by
  <2> HIDE DEF more, by
  <2>1. Sum(BalanceOf(ps)', Chart) = Sum(BalanceOf(ps), Chart) + Sum(more, Chart)
    BY <1>2, <1>3, <1>4, <1>6, SumOfChanged
  <2> QED BY <1>5, <2>1
<1>8. Imbalance(ps)' = Imbalance(ps) + by
  <2>1. PICK n \in Nat : /\ n = Len(entries) /\ DOMAIN entries = 1..n
                         /\ \A i \in 1..n : entries[i].lines \in [Chart -> Int]
    BY <1>1, EntriesTyped
  <2> DEFINE f == [i \in DOMAIN entries |->
                     IF entries[i].period \in ps THEN Sum(entries[i].lines, Chart) ELSE 0]
             g == [i \in DOMAIN entries' |->
                     IF entries'[i].period \in ps THEN Sum(entries'[i].lines, Chart) ELSE 0]
  <2>2. DOMAIN f = 1..n /\ DOMAIN g = 1..(n + 1)
    BY <2>1 DEF Appended
  <2>3. \A i \in 1..n : Sum(entries[i].lines, Chart) \in Int
    BY <1>4, <2>1, SumOfAccounts
  <2>4. \A i \in 1..n : f[i] \in Int /\ g[i] = f[i]
    BY <2>1, <2>3 DEF Appended
  <2>5. g[n + 1] = by
    BY <2>1 DEF Appended
  <2>6. Imbalance(ps) = SumFunction(f) /\ Imbalance(ps)' = SumFunction(g)
    BY DEF Imbalance, Sum
  <2> HIDE DEF f, g, by
  <2>7. SumFunction(g) = SumFunction(f) + by
    BY <1>5, <2>2, <2>4, <2>5, SumAppended
  <2> QED BY <2>6, <2>7
<1> QED BY <1>1, <1>7, <1>8

\* Appending the entry that is booked keeps the balances the sums of the lines.
LEMMA AppendKeepsSums ==
  ASSUME ReportsInv, NEW p \in Periods, NEW lines \in [Chart -> Int], Appended(p, lines)
  PROVE  BalancesAreOfEntries'
<1>1. PICK n \in Nat : /\ n = Len(entries) /\ DOMAIN entries = 1..n
                       /\ \A i \in 1..n : entries[i].lines \in [Chart -> Int]
  BY EntriesTyped DEF ReportsInv
<1>2. gl \in [Periods -> [Chart -> Int]]
  BY DEF ReportsInv, ReportsTypeOK
<1> SUFFICES ASSUME NEW q \in Periods, NEW a \in Chart
             PROVE  gl'[q][a] = SumFunction(InPeriod(q, a)')
  BY DEF BalancesAreOfEntries
<1> DEFINE old == InPeriod(q, a)  new == InPeriod(q, a)'
<1>3. DOMAIN old = 1..n /\ DOMAIN new = 1..(n + 1)
  BY <1>1 DEF InPeriod, Appended
<1>4. \A i \in 1..n : old[i] \in Int /\ new[i] = old[i]
  BY <1>1 DEF InPeriod, Appended
<1>5. new[n + 1] = (IF q = p THEN lines[a] ELSE 0) /\ lines[a] \in Int
  BY <1>1 DEF InPeriod, Appended
<1>6. gl'[q][a] = gl[q][a] + (IF q = p THEN lines[a] ELSE 0)
  <2>1. gl' = [gl EXCEPT ![p] = [c \in Chart |-> @[c] + lines[c]]]
    BY DEF Appended, Book
  <2>2. gl[q][a] \in Int
    BY <1>2
  <2> QED BY <1>2, <2>1, <2>2
<1>7. gl[q][a] = SumFunction(old)
  BY DEF ReportsInv, BalancesAreOfEntries
<1> HIDE DEF old, new
<1>8. SumFunction(new) = SumFunction(old) + new[n + 1]
  BY <1>3, <1>4, <1>5, SumAppended
<1>9. SumFunction(new) = gl'[q][a]
  BY <1>5, <1>6, <1>7, <1>8
<1> QED BY <1>9 DEF new

LEMMA BookTypes ==
  ASSUME ReportsInv, NEW p \in Periods, NEW lines \in [Chart -> Int], Book(p, lines), entries' \in Seq(Entry)
  PROVE  ReportsTypeOK'
<1>1. /\ gl \in [Periods -> [Chart -> Int]] /\ between \in [Chart -> Int] /\ budgets \subseteq Budgets
  BY DEF ReportsInv, ReportsTypeOK
<1>2. gl' \in [Periods -> [Chart -> Int]]
  <2>1. gl' = [gl EXCEPT ![p] = [a \in Chart |-> @[a] + lines[a]]]
    BY DEF Book
  <2>2. [a \in Chart |-> gl[p][a] + lines[a]] \in [Chart -> Int]
    BY <1>1
  <2> QED BY <1>1, <2>1, <2>2
<1>3. between' \in [Chart -> Int] /\ budgets' \subseteq Budgets
  BY <1>1 DEF Book
<1> QED BY <1>2, <1>3 DEF ReportsTypeOK, Entry

LEMMA PostKeeps ==
  ASSUME ReportsInv, NEW p \in Periods, NEW lines \in Postings, Post(p, lines)
  PROVE  ReportsInv'
<1>1. lines \in [Chart -> Int]
  BY ReportsAssumption
<1> DEFINE new == [lines |-> lines, period |-> p, status |-> "posted"]
<1>2. Book(p, lines) /\ entries' = Append(entries, new)
  BY DEF Post
<1>3. entries \in Seq(Entry) /\ new \in Entry
  BY <1>1 DEF ReportsInv, ReportsTypeOK, Entry
<1>4. new.lines = lines /\ new.period = p
  OBVIOUS
<1> HIDE DEF new
<1>5. /\ entries' \in Seq(Entry) /\ DOMAIN entries' = 1..(Len(entries) + 1)
      /\ \A i \in 1..Len(entries) : entries'[i] = entries[i]
      /\ entries'[Len(entries) + 1] = new
  BY <1>2, <1>3
<1>6. ReportsTypeOK'
  BY <1>1, <1>2, <1>5, BookTypes
<1>7. Appended(p, lines)
  BY <1>2, <1>4, <1>5 DEF Appended
<1>8. BooksBalance' /\ BalancesAreOfEntries'
  BY <1>1, <1>7, AppendKeepsBalance, AppendKeepsSums
<1>9. /\ SheetUnderWay' /\ ControlsToRead' /\ DepreciationToRead'
      /\ SheetOffset' /\ DashboardOffset' /\ VarianceAddsUp'
  BY <1>1, <1>2, BookKeepsReports
<1> QED BY <1>6, <1>7, <1>8, <1>9 DEF ReportsInv

\* A function on 1..n is a sequence of that length.
LEMMA FunctionIsSequence ==
  ASSUME NEW S, NEW n \in Nat, NEW f \in [1..n -> S]
  PROVE  f \in Seq(S) /\ Len(f) = n
OBVIOUS

LEMMA ReverseKeeps ==
  ASSUME ReportsInv, NEW i \in DOMAIN entries, NEW p \in Periods, Reverse(i, p)
  PROVE  ReportsInv'
<1> DEFINE mirror == [a \in Chart |-> -entries[i].lines[a]]
           new == [lines |-> mirror, period |-> p, status |-> "posted"]
           undone == [entries EXCEPT ![i].status = "reversed"]
<1>1. entries[i].lines \in [Chart -> Int]
  BY EntriesTyped DEF ReportsInv
<1>2. mirror \in [Chart -> Int]
  BY <1>1
<1>3. Book(p, mirror) /\ entries' = Append(undone, new)
  BY DEF Reverse
<1>4. entries \in Seq(Entry) /\ new \in Entry
  BY <1>2 DEF ReportsInv, ReportsTypeOK, Entry
<1>5. /\ undone \in Seq(Entry) /\ Len(undone) = Len(entries)
      /\ \A j \in 1..Len(entries) : undone[j].lines = entries[j].lines /\ undone[j].period = entries[j].period
  <2>1. PICK n \in Nat : n = Len(entries) /\ DOMAIN entries = 1..n
    BY <1>4
  <2>2. entries \in [1..n -> Entry]
    BY <1>4, <2>1
  <2>3. PICK e \in Entry : e = entries[i]
    BY <1>4
  <2>4. [e EXCEPT !.status = "reversed"] = [lines |-> e.lines, period |-> e.period, status |-> "reversed"]
    BY <2>3 DEF Entry
  <2>5. [e EXCEPT !.status = "reversed"] \in Entry
    BY <2>3, <2>4 DEF Entry
  <2>6. undone \in [1..n -> Entry] /\ undone = [j \in 1..n |-> IF j = i THEN [e EXCEPT !.status = "reversed"] ELSE entries[j]]
    BY <2>1, <2>2, <2>3, <2>5
  <2>7. undone \in Seq(Entry) /\ Len(undone) = n
    <3> HIDE DEF undone
    <3> QED BY <2>1, <2>6, FunctionIsSequence
  <2>8. \A j \in 1..n : undone[j].lines = entries[j].lines /\ undone[j].period = entries[j].period
    <3> HIDE DEF undone
    <3> QED BY <2>3, <2>4, <2>6
  <2> QED BY <2>1, <2>7, <2>8
<1>6. new.lines = mirror /\ new.period = p
  OBVIOUS
<1> HIDE DEF mirror, new, undone
<1>7. /\ entries' \in Seq(Entry) /\ DOMAIN entries' = 1..(Len(entries) + 1)
      /\ \A j \in 1..Len(entries) : entries'[j] = undone[j]
      /\ entries'[Len(entries) + 1] = new
  <2>1. /\ Append(undone, new) \in Seq(Entry) /\ DOMAIN Append(undone, new) = 1..(Len(undone) + 1)
        /\ \A j \in 1..Len(undone) : Append(undone, new)[j] = undone[j]
        /\ Append(undone, new)[Len(undone) + 1] = new
    <3>1. undone \in Seq(Entry) /\ new \in Entry
      BY <1>4, <1>5
    <3>2. Append(undone, new) \in Seq(Entry)
      BY <3>1
    <3>3. Len(Append(undone, new)) = Len(undone) + 1
      BY <3>1
    <3> QED BY <3>1, <3>2, <3>3
  <2> QED BY <1>3, <1>5, <2>1
<1>8. \A j \in 1..Len(entries) : entries'[j].lines = entries[j].lines /\ entries'[j].period = entries[j].period
  BY <1>5, <1>7
<1>9. ReportsTypeOK'
  BY <1>2, <1>3, <1>7, BookTypes
<1>10. Appended(p, mirror)
  BY <1>3, <1>6, <1>7, <1>8 DEF Appended
<1>11. BooksBalance' /\ BalancesAreOfEntries'
  BY <1>2, <1>10, AppendKeepsBalance, AppendKeepsSums
<1>12. /\ SheetUnderWay' /\ ControlsToRead' /\ DepreciationToRead'
       /\ SheetOffset' /\ DashboardOffset' /\ VarianceAddsUp'
  BY <1>2, <1>3, BookKeepsReports
<1> QED BY <1>9, <1>10, <1>11, <1>12 DEF ReportsInv

-----------------------------------------------------------------------------
(***************************************************************************)
(* What a report reads.                                                    *)
(***************************************************************************)
\* The accounts of a balance sheet and those of a profit and loss are all accounts.
LEMMA TypesOfAccounts ==
  /\ IncomeOrExpense \in SUBSET Chart /\ InProfit \in SUBSET Chart
  /\ OfType({"asset"}) \in SUBSET Chart /\ OfType({"liability"}) \in SUBSET Chart
  /\ OfType({"equity"}) \in SUBSET Chart
  /\ OfType({"asset", "liability", "equity"}) = Chart \ IncomeOrExpense
BY ReportsAssumption DEF IncomeOrExpense, OfType, InProfit

\* Assets, liabilities and equity are what income and expenses leave of the books.
LEMMA SheetOfBooks ==
  ASSUME NEW held \in [Chart -> Int]
  PROVE  /\ Sum(held, OfType({"asset"})) \in Int /\ Sum(held, OfType({"liability"})) \in Int
         /\ Sum(held, OfType({"equity"})) \in Int /\ Sum(held, IncomeOrExpense) \in Int
         /\ Sum(held, OfType({"asset"})) + Sum(held, OfType({"liability"}))
              + Sum(held, OfType({"equity"})) = Sum(held, Chart) - Sum(held, IncomeOrExpense)
<1> DEFINE A == OfType({"asset"})  L == OfType({"liability"})  E == OfType({"equity"})
           sheet == Chart \ IncomeOrExpense
<1>1. Sum(held, Chart) \in Int
  BY SumOfAccounts
<1>2. /\ IncomeOrExpense \in SUBSET Chart /\ A \in SUBSET Chart /\ L \in SUBSET Chart
      /\ E \in SUBSET Chart /\ sheet \in SUBSET Chart
  BY TypesOfAccounts
<1>3. A \in SUBSET sheet /\ L \in SUBSET (sheet \ A) /\ (sheet \ A) \ L = E /\ sheet \ A \in SUBSET Chart
  BY ReportsAssumption DEF IncomeOrExpense, OfType
<1>4. Chart \in SUBSET Chart
  OBVIOUS
<1> HIDE DEF A, L, E
<1>5. Sum(held, Chart) = Sum(held, IncomeOrExpense) + Sum(held, sheet)
  BY <1>1, <1>2, <1>4, SumOfParts
<1> HIDE DEF sheet
<1>6. Sum(held, sheet) = Sum(held, A) + Sum(held, sheet \ A)
  BY <1>1, <1>2, <1>3, SumOfParts
<1>7. Sum(held, sheet \ A) = Sum(held, L) + Sum(held, E)
  BY <1>1, <1>2, <1>3, SumOfParts
<1>8. /\ Sum(held, A) \in Int /\ Sum(held, L) \in Int /\ Sum(held, E) \in Int
      /\ Sum(held, IncomeOrExpense) \in Int
  BY <1>1, <1>2, SumOfAccounts
<1>9. Sum(held, A) + Sum(held, L) + Sum(held, E) = Sum(held, Chart) - Sum(held, IncomeOrExpense)
  BY <1>1, <1>5, <1>6, <1>7, <1>8
<1> QED BY <1>8, <1>9 DEF A, L, E

\* A profit and loss with what it misses is all income and expenses.
LEMMA ProfitWithMisfiled ==
  ASSUME ReportsTypeOK, NEW CONSTANT from, NEW CONSTANT to
  PROVE  /\ NetProfit(from, to) \in Int /\ Misfiled(from, to) \in Int
         /\ NetProfit(from, to) + Misfiled(from, to) = -Sum(Held(from, to), IncomeOrExpense)
<1>1. PICK held \in [Chart -> Int] : held = Held(from, to)
  BY HeldTypes
<1>2. PICK inProfit \in SUBSET Chart : inProfit = InProfit
  BY TypesOfAccounts
<1> DEFINE ie == IncomeOrExpense  both == inProfit \cap ie
           extra == inProfit \ ie  missing == ie \ inProfit
<1>3. ie \in SUBSET Chart
  BY TypesOfAccounts
<1>4. /\ both \in SUBSET Chart /\ both \in SUBSET inProfit /\ both \in SUBSET ie
      /\ extra \in SUBSET Chart /\ missing \in SUBSET Chart
      /\ inProfit \ both = extra /\ ie \ both = missing
  BY <1>3
<1>5. /\ NetProfit(from, to) = -Sum(held, inProfit)
      /\ Misfiled(from, to) = Sum(held, extra) - Sum(held, missing)
  BY <1>1, <1>2 DEF NetProfit, Misfiled, IncomeOrExpense
<1>6. Sum(Held(from, to), IncomeOrExpense) = Sum(held, ie)
  BY <1>1
<1> HIDE DEF ie, both, extra, missing
<1>7. Sum(held, inProfit) = Sum(held, both) + Sum(held, extra)
  BY <1>1, <1>2, <1>4, SumOfParts
<1>8. Sum(held, ie) = Sum(held, both) + Sum(held, missing)
  BY <1>1, <1>3, <1>4, SumOfParts
<1>9. Sum(held, both) \in Int /\ Sum(held, extra) \in Int /\ Sum(held, missing) \in Int
  BY <1>1, <1>4, SumOfAccounts
<1> QED BY <1>5, <1>6, <1>7, <1>8, <1>9

\* A report begins with nothing posted since.
LEMMA SumOfNothing ==
  ASSUME NEW over \in SUBSET Chart
  PROVE  Sum([a \in Chart |-> 0], over) = 0
<1> DEFINE none == [a \in Chart |-> 0]
<1>1. IsFiniteSet(over) /\ \A a \in over : none[a] = 0
  BY ReportsAssumption, FS_Subset
<1> HIDE DEF none
<1>2. Sum(none, over) = 0
  BY <1>1, SumZero DEF Sum
<1> QED BY <1>2 DEF none

Tagged(type) == {a \in Chart : ControlType[a] = type}

\* The working capital is what income and expenses and other accounts leave of the books.
LEMMA WorkingCapitalOfBooks ==
  ASSUME NEW held \in [Chart -> Int]
  PROVE  /\ Sum(held, Tagged("BANK")) \in Int /\ Sum(held, Tagged("AR")) \in Int
         /\ Sum(held, Tagged("INVENTORY")) \in Int /\ Sum(held, Tagged("AP")) \in Int
         /\ Elsewhere(held) \in Int
         /\ Sum(held, Tagged("BANK")) + Sum(held, Tagged("AR")) + Sum(held, Tagged("INVENTORY"))
              + Sum(held, Tagged("AP"))
              = Sum(held, Chart) - Sum(held, IncomeOrExpense) - Elsewhere(held)
<1> DEFINE B == Tagged("BANK")  R == Tagged("AR")  I == Tagged("INVENTORY")  P == Tagged("AP")
           W == {a \in Chart : ControlType[a] \in Working}
           ie == IncomeOrExpense  sheet == Chart \ ie
           other == {a \in OfType({"asset", "liability", "equity"}) : ControlType[a] \notin Working}
           odd == {a \in OfType({"income", "expense"}) : ControlType[a] \in Working}
<1>1. Sum(held, Chart) \in Int
  BY SumOfAccounts
<1>2. /\ B \in SUBSET W /\ R \in SUBSET (W \ B) /\ I \in SUBSET ((W \ B) \ R)
      /\ ((W \ B) \ R) \ I = P
      /\ W \in SUBSET Chart /\ W \ B \in SUBSET Chart /\ (W \ B) \ R \in SUBSET Chart
      /\ B \in SUBSET Chart /\ R \in SUBSET Chart /\ I \in SUBSET Chart /\ P \in SUBSET Chart
  BY DEF Working, Tagged
<1>3. /\ ie \in SUBSET Chart /\ sheet \in SUBSET Chart /\ Chart \in SUBSET Chart
      /\ other \in SUBSET sheet /\ other \in SUBSET Chart
      /\ odd \in SUBSET W /\ odd \in SUBSET Chart /\ W \ odd = sheet \ other
      /\ Chart \ ie = sheet
  BY TypesOfAccounts DEF IncomeOrExpense, OfType
<1>4. Elsewhere(held) = Sum(held, other) - Sum(held, odd)
  BY DEF Elsewhere
<1>5. W \ odd \in SUBSET Chart
  BY <1>2
<1> HIDE DEF B, R, I, P, W, ie, sheet, other, odd
<1>6. Sum(held, W) = Sum(held, B) + Sum(held, W \ B)
  BY <1>1, <1>2, SumOfParts
<1>7. Sum(held, W \ B) = Sum(held, R) + Sum(held, (W \ B) \ R)
  BY <1>1, <1>2, SumOfParts
<1>8. Sum(held, (W \ B) \ R) = Sum(held, I) + Sum(held, P)
  BY <1>1, <1>2, SumOfParts
<1>9. Sum(held, W) = Sum(held, odd) + Sum(held, W \ odd)
  BY <1>1, <1>2, <1>3, SumOfParts
<1>10. Sum(held, sheet) = Sum(held, other) + Sum(held, W \ odd)
  BY <1>1, <1>3, SumOfParts
<1>11. Sum(held, Chart) = Sum(held, ie) + Sum(held, sheet)
  BY <1>1, <1>3, SumOfParts
<1>12. /\ Sum(held, B) \in Int /\ Sum(held, R) \in Int /\ Sum(held, I) \in Int /\ Sum(held, P) \in Int
       /\ Sum(held, odd) \in Int /\ Sum(held, other) \in Int /\ Sum(held, ie) \in Int
       /\ Sum(held, W \ odd) \in Int
  BY <1>1, <1>2, <1>3, <1>5, SumOfAccounts
<1>13. /\ Elsewhere(held) \in Int
       /\ Sum(held, B) + Sum(held, R) + Sum(held, I) + Sum(held, P)
           = Sum(held, Chart) - Sum(held, ie) - Elsewhere(held)
  BY <1>1, <1>4, <1>6, <1>7, <1>8, <1>9, <1>10, <1>11, <1>12
<1> QED BY <1>12, <1>13 DEF B, R, I, P, ie

\* What a read leaves as it is.
LEMMA BooksStay ==
  ASSUME ReportsInv, UNCHANGED <<entries, gl>>, between' \in [Chart -> Int], budgets' \subseteq Budgets
  PROVE  /\ ReportsTypeOK' /\ BooksBalance' /\ BalancesAreOfEntries'
         /\ \A from, to : Held(from, to)' = Held(from, to)
<1>1. \A ps : BalanceOf(ps)' = BalanceOf(ps)
  BY DEF BalanceOf
<1>2. \A from, to : Held(from, to)' = Held(from, to)
  BY <1>1 DEF Held, Dated
<1>3. ReportsTypeOK'
  BY DEF ReportsInv, ReportsTypeOK
<1>4. BooksBalance'
  BY <1>1 DEF ReportsInv, BooksBalance, Imbalance, Sum
<1>5. \A p, a : InPeriod(p, a)' = InPeriod(p, a)
  BY DEF InPeriod
<1>6. BalancesAreOfEntries'
  BY <1>5 DEF ReportsInv, BalancesAreOfEntries
<1> QED BY <1>2, <1>3, <1>4, <1>6

\* Giving an account another category or entering a budget changes no report.
LEMMA CategoriseKeeps ==
  ASSUME ReportsInv, NEW a \in Edited, NEW c \in Categories, Categorise(a, c)
  PROVE  ReportsInv'
<1>1. /\ ReportsTypeOK' /\ BooksBalance' /\ BalancesAreOfEntries'
      /\ \A from, to : Held(from, to)' = Held(from, to)
  <2>1. between' \in [Chart -> Int] /\ budgets' \subseteq Budgets
    BY DEF Categorise, ReportsInv, ReportsTypeOK
  <2> QED BY <2>1, BooksStay DEF Categorise
<1> QED BY <1>1 DEF Categorise, ReportsInv, SheetUnderWay, ControlsToRead, DepreciationToRead,
          SheetOffset, DashboardOffset, EbitdaOffset, WorkingCapitalOffset, VarianceAddsUp,
          ProfitIs, CapitalIs, DatesKnown, Sum, OfType

LEMMA EnterBudgetKeeps ==
  ASSUME ReportsInv, NEW b \in Budgets, EnterBudget(b)
  PROVE  ReportsInv'
<1>1. /\ ReportsTypeOK' /\ BooksBalance' /\ BalancesAreOfEntries'
      /\ \A from, to : Held(from, to)' = Held(from, to)
  <2>1. between' \in [Chart -> Int] /\ budgets' \subseteq Budgets
    BY DEF EnterBudget, ReportsInv, ReportsTypeOK
  <2> QED BY <2>1, BooksStay DEF EnterBudget
<1> QED BY <1>1 DEF EnterBudget, ReportsInv, SheetUnderWay, ControlsToRead, DepreciationToRead,
          SheetOffset, DashboardOffset, EbitdaOffset, WorkingCapitalOffset, VarianceAddsUp,
          ProfitIs, CapitalIs, DatesKnown, Sum, OfType

\* The first read of a report: nothing has been posted since, nothing else changes.
LEMMA BeginKeeps ==
  ASSUME ReportsInv, NEW CONSTANT r, Begin(r)
  PROVE  /\ ReportsTypeOK' /\ BooksBalance' /\ BalancesAreOfEntries'
         /\ \A from, to : Held(from, to)' = Held(from, to)
         /\ Sum(between, IncomeOrExpense)' = 0 /\ between'[Depreciation] = 0 /\ report' = r
<1>1. between' = [a \in Chart |-> 0] /\ report' = r /\ UNCHANGED <<entries, gl, category, budgets>>
  BY DEF Begin
<1>2. between' \in [Chart -> Int] /\ budgets' \subseteq Budgets
  BY <1>1 DEF ReportsInv, ReportsTypeOK
<1>3. Depreciation \in Chart /\ IncomeOrExpense \in SUBSET Chart
  BY ReportsAssumption, TypesOfAccounts
<1>4. Sum([a \in Chart |-> 0], IncomeOrExpense) = 0
  BY <1>3, SumOfNothing
<1>5. Sum(between', IncomeOrExpense) = 0
  BY <1>1, <1>4
<1>6. /\ ReportsTypeOK' /\ BooksBalance' /\ BalancesAreOfEntries'
      /\ \A from, to : Held(from, to)' = Held(from, to)
  BY <1>1, <1>2, BooksStay
<1> QED BY <1>1, <1>3, <1>5, <1>6 DEF Sum, IncomeOrExpense, OfType

LEMMA ReadAccountsKeeps ==
  ASSUME ReportsInv, NEW date \in Periods, ReadAccounts(date)
  PROVE  ReportsInv'
<1>1. PICK held \in [Chart -> Int] : held = Held(0, date) /\ Sum(held, Chart) = Imbalance(Dated(0, date))
  BY HeldBooks
<1> DEFINE A == Sum(held, OfType({"asset"}))  L == Sum(held, OfType({"liability"}))
           E == Sum(held, OfType({"equity"}))
           off == Sum(held, Chart)
           r == [step |-> "profit", from |-> 0, to |-> date, assets |-> A, liabilities |-> -L,
                 equity |-> -E, imbalance |-> off]
<1>2. Begin(r)
  BY <1>1 DEF ReadAccounts
<1>3. /\ A \in Int /\ L \in Int /\ E \in Int /\ Sum(held, IncomeOrExpense) \in Int
      /\ A + L + E = off - Sum(held, IncomeOrExpense) /\ off \in Int
  BY SheetOfBooks, SumOfAccounts
<1>4. /\ r.step = "profit" /\ r.from = 0 /\ r.to = date /\ r.assets = A /\ r.liabilities = -L
      /\ r.equity = -E /\ r.imbalance = off
  OBVIOUS
<1> HIDE DEF A, L, E, off, r
<1>5. /\ ReportsTypeOK' /\ BooksBalance' /\ BalancesAreOfEntries'
      /\ \A from, to : Held(from, to)' = Held(from, to)
      /\ Sum(between, IncomeOrExpense)' = 0 /\ report' = r
  BY <1>2, BeginKeeps
<1>6. SheetUnderWay'
  <2>1. Sum(Held(0, date), IncomeOrExpense)' = Sum(held, IncomeOrExpense)
    BY <1>1, <1>5 DEF Sum, IncomeOrExpense, OfType
  <2>2. A - (-L + -E) = off + 0 - Sum(held, IncomeOrExpense)
    BY <1>3
  <2>3. date \in Nat
    BY ReportsAssumption
  <2>4. /\ report'.from = 0 /\ report'.to = date /\ report'.assets \in Int
        /\ report'.liabilities \in Int /\ report'.equity \in Int /\ report'.imbalance \in Int
        /\ report'.assets - (report'.liabilities + report'.equity)
             = report'.imbalance + 0 - Sum(held, IncomeOrExpense)
    BY <1>3, <1>4, <1>5, <2>2
  <2> QED BY <1>5, <2>1, <2>3, <2>4 DEF SheetUnderWay, IncomeOrExpense
<1>7. report'.step = "profit"
  BY <1>4, <1>5
<1> QED BY <1>5, <1>6, <1>7 DEF ReportsInv, ControlsToRead, DepreciationToRead, SheetOffset,
          DashboardOffset, EbitdaOffset, WorkingCapitalOffset, VarianceAddsUp

\* A later read changes the report only.
LEMMA GoKeeps ==
  ASSUME ReportsInv, NEW CONSTANT step, NEW CONSTANT r, Go(step, r)
  PROVE  /\ ReportsTypeOK' /\ BooksBalance' /\ BalancesAreOfEntries'
         /\ \A from, to : Held(from, to)' = Held(from, to)
         /\ Sum(between, IncomeOrExpense)' = Sum(between, IncomeOrExpense)
         /\ between' = between /\ report' = r /\ report.step = step
<1>1. between' = between /\ report' = r /\ report.step = step /\ UNCHANGED <<entries, gl, category, budgets>>
  BY DEF Go
<1>2. between' \in [Chart -> Int] /\ budgets' \subseteq Budgets
  BY <1>1 DEF ReportsInv, ReportsTypeOK
<1>3. /\ ReportsTypeOK' /\ BooksBalance' /\ BalancesAreOfEntries'
      /\ \A from, to : Held(from, to)' = Held(from, to)
  BY <1>1, <1>2, BooksStay
<1> QED BY <1>1, <1>3 DEF Sum, IncomeOrExpense, OfType

LEMMA ReadProfitKeeps ==
  ASSUME ReportsInv, ReadProfit
  PROVE  ReportsInv'
<1>1. PICK old : old = report
  OBVIOUS
<1>2. PICK net, misfiled : net = NetProfit(0, report.to) /\ misfiled = Misfiled(0, report.to)
  OBVIOUS
<1> DEFINE r == [step |-> "sheet", totalAssets |-> old.assets, totalLiabilities |-> old.liabilities,
                 totalEquity |-> old.equity + net, misfiled |-> misfiled,
                 imbalance |-> old.imbalance]
<1>3. Go("profit", r)
  BY <1>1, <1>2 DEF ReadProfit
<1>4. /\ r.step = "sheet" /\ r.totalAssets = old.assets /\ r.totalLiabilities = old.liabilities
      /\ r.totalEquity = old.equity + net /\ r.misfiled = misfiled /\ r.imbalance = old.imbalance
  OBVIOUS
<1> HIDE DEF r
<1>5. /\ ReportsTypeOK' /\ BooksBalance' /\ BalancesAreOfEntries'
      /\ Sum(between, IncomeOrExpense)' = Sum(between, IncomeOrExpense)
      /\ report' = r /\ report.step = "profit"
  BY <1>3, GoKeeps
<1>6. SheetOffset'
  <2>1. PICK to : to = report.to
    OBVIOUS
  <2>2. /\ old.assets \in Int /\ old.liabilities \in Int /\ old.equity \in Int
        /\ old.imbalance \in Int
        /\ old.assets - (old.liabilities + old.equity)
             = old.imbalance + Sum(between, IncomeOrExpense) - Sum(Held(0, to), IncomeOrExpense)
    BY <1>1, <1>5, <2>1 DEF ReportsInv, SheetUnderWay, IncomeOrExpense
  <2>3. net \in Int /\ misfiled \in Int /\ net + misfiled = -Sum(Held(0, to), IncomeOrExpense)
    <3>1. net = NetProfit(0, to) /\ misfiled = Misfiled(0, to)
      BY <1>2, <2>1
    <3> QED BY <3>1, ProfitWithMisfiled DEF ReportsInv
  <2>4. Sum(between, IncomeOrExpense) \in Int /\ Sum(Held(0, to), IncomeOrExpense) \in Int
    <3>1. between \in [Chart -> Int] /\ Held(0, to) \in [Chart -> Int]
      BY HeldTypes DEF ReportsInv, ReportsTypeOK
    <3> QED BY <3>1, TypesOfAccounts, SumOfAccounts
  <2>5. old.assets - (old.liabilities + (old.equity + net))
          = Sum(between, IncomeOrExpense) + misfiled + old.imbalance
    <3>1. PICK since, held \in Int : /\ since = Sum(between, IncomeOrExpense)
                                    /\ held = Sum(Held(0, to), IncomeOrExpense)
      BY <2>4
    <3>2. PICK a, l, e, off \in Int : /\ a = old.assets /\ l = old.liabilities
                                     /\ e = old.equity /\ off = old.imbalance
      BY <2>2
    <3>3. a - (l + e) = off + since - held /\ net \in Int /\ misfiled \in Int /\ net + misfiled = -held
      BY <2>2, <2>3, <3>1, <3>2
    <3>4. a - (l + (e + net)) = since + misfiled + off
      BY <3>3
    <3> QED BY <3>1, <3>2, <3>4
  <2>6. /\ report'.totalAssets = old.assets /\ report'.totalLiabilities = old.liabilities
        /\ report'.totalEquity = old.equity + net /\ report'.misfiled = misfiled
        /\ report'.imbalance = old.imbalance
    BY <1>4, <1>5
  <2>7. report'.totalAssets - (report'.totalLiabilities + report'.totalEquity)
          = Sum(between, IncomeOrExpense)' + report'.misfiled + report'.imbalance
    BY <1>5, <2>5, <2>6
  <2> QED BY <2>7 DEF SheetOffset, IncomeOrExpense
<1>7. report'.step = "sheet"
  BY <1>4, <1>5
<1> QED BY <1>5, <1>6, <1>7 DEF ReportsInv, SheetUnderWay, ControlsToRead, DepreciationToRead,
          DashboardOffset, EbitdaOffset, WorkingCapitalOffset, VarianceAddsUp

LEMMA ReadProfitAndLossKeeps ==
  ASSUME ReportsInv, NEW from \in Periods, NEW to \in Periods, ReadProfitAndLoss(from, to)
  PROVE  ReportsInv'
<1>1. PICK held \in [Chart -> Int] : held = Held(from, to)
  BY HeldTypes DEF ReportsInv
<1>2. PICK net, misfiled, deducted : /\ net = NetProfit(from, to) /\ misfiled = Misfiled(from, to)
                                     /\ deducted = Sum(held, InProfit \cap {Depreciation})
  OBVIOUS
<1> DEFINE r == [step |-> "controls", from |-> from, to |-> to, netProfit |-> net, misfiled |-> misfiled,
                 deducted |-> deducted, depreciation |-> held[Depreciation]]
<1>3. Begin(r)
  BY <1>1, <1>2 DEF ReadProfitAndLoss
<1>4. /\ r.step = "controls" /\ r.from = from /\ r.to = to /\ r.netProfit = net /\ r.misfiled = misfiled
      /\ r.deducted = deducted /\ r.depreciation = held[Depreciation]
  OBVIOUS
<1> HIDE DEF r
<1>5. /\ ReportsTypeOK' /\ BooksBalance' /\ BalancesAreOfEntries'
      /\ \A x, y : Held(x, y)' = Held(x, y)
      /\ Sum(between, IncomeOrExpense)' = 0 /\ between'[Depreciation] = 0 /\ report' = r
  BY <1>3, BeginKeeps
<1>6. held[Depreciation] \in Int /\ deducted \in Int
  <2>1. Depreciation \in Chart /\ InProfit \cap {Depreciation} \in SUBSET Chart
    BY ReportsAssumption
  <2> QED BY <1>1, <1>2, <2>1, SumOfAccounts
<1>7. /\ net \in Int /\ misfiled \in Int /\ net + misfiled = -Sum(held, IncomeOrExpense)
      /\ Sum(held, IncomeOrExpense) \in Int
  BY <1>1, <1>2, ProfitWithMisfiled, SumOfAccounts, TypesOfAccounts DEF ReportsInv
<1>8. ControlsToRead'
  <2>1. /\ Sum(Held(from, to), IncomeOrExpense)' = Sum(held, IncomeOrExpense)
        /\ Held(from, to)'[Depreciation] = held[Depreciation]
    BY <1>1, <1>5 DEF Sum, IncomeOrExpense, OfType
  <2>2. report'.from = from /\ report'.to = to /\ from \in Nat /\ to \in Nat
    BY <1>4, <1>5, ReportsAssumption
  <2>3. net + misfiled = 0 - Sum(held, IncomeOrExpense) /\ held[Depreciation] = held[Depreciation] - 0
    BY <1>6, <1>7
  <2>4. ProfitIs(report)'
    BY <1>4, <1>5, <1>6, <1>7, <2>1, <2>2, <2>3 DEF ProfitIs
  <2>5. report'.netProfit + report'.misfiled = 0 - Sum(held, IncomeOrExpense)
    BY <1>4, <1>5, <2>3
  <2> QED BY <1>5, <2>1, <2>2, <2>4, <2>5 DEF ControlsToRead, DatesKnown, IncomeOrExpense
<1>9. report'.step = "controls"
  BY <1>4, <1>5
<1> QED BY <1>5, <1>8, <1>9 DEF ReportsInv, SheetUnderWay, DepreciationToRead, SheetOffset,
          DashboardOffset, EbitdaOffset, WorkingCapitalOffset, VarianceAddsUp

\* Where the dates leave no period out, the profit is of everything up to their end.
LEMMA AllPeriodsHeld ==
  ASSUME NEW from, NEW to, \A p \in Periods : from <= p
  PROVE  Held(from, to) = Held(0, to)
<1>1. \A p \in Periods : 0 <= p
  BY ReportsAssumption
<1>2. Dated(from, to) = Dated(0, to)
  BY <1>1 DEF Within, Dated
<1> QED BY <1>2 DEF Held

LEMMA ReadControlsKeeps ==
  ASSUME ReportsInv, ReadControls
  PROVE  ReportsInv'
<1>1. PICK old, from, to, held, since, off :
        /\ old = report /\ from = report.from /\ to = report.to
        /\ held = Held(0, report.to) /\ since = Sum(between, IncomeOrExpense)
        /\ off = Imbalance(Dated(0, report.to))
  OBVIOUS
<1> DEFINE B == Sum(held, Tagged("BANK"))  R == Sum(held, Tagged("AR"))
           I == Sum(held, Tagged("INVENTORY"))  P == Sum(held, Tagged("AP"))
           capital == B + R + I - -P
           r == [step |-> "depreciation", from |-> from, to |-> to, profit |-> old,
                 workingCapital |-> capital, elsewhere |-> Elsewhere(held),
                 imbalance |-> off, since |-> since]
<1>2. Go("controls", r)
  BY <1>1 DEF ReadControls, OfControl, Tagged, IncomeOrExpense
<1>3. /\ r.step = "depreciation" /\ r.from = from /\ r.to = to /\ r.profit = old
      /\ r.workingCapital = capital /\ r.elsewhere = Elsewhere(held) /\ r.since = since
      /\ r.imbalance = off
  OBVIOUS
<1> HIDE DEF r
<1>4. /\ ReportsTypeOK' /\ BooksBalance' /\ BalancesAreOfEntries'
      /\ \A x, y : Held(x, y)' = Held(x, y)
      /\ between' = between /\ report' = r /\ report.step = "controls"
  BY <1>2, GoKeeps
<1>5. /\ DatesKnown /\ ProfitIs(old)
      /\ old.netProfit + old.misfiled = since - Sum(Held(from, to), IncomeOrExpense)
  BY <1>1, <1>4 DEF ReportsInv, ControlsToRead, IncomeOrExpense
<1>6. ProfitIs(old)' /\ DatesKnown'
  BY <1>1, <1>3, <1>4, <1>5 DEF ProfitIs, DatesKnown
<1>7. CapitalIs(r)
  <2> SUFFICES ASSUME \A p \in Periods : from <= p
               PROVE  capital = old.netProfit - Elsewhere(held) - since + old.misfiled + off
    BY <1>3 DEF CapitalIs
  <2>1. Held(from, to) = held
    BY <1>1, AllPeriodsHeld
  <2>2. held \in [Chart -> Int] /\ Sum(held, Chart) = off /\ off \in Int
    <3>1. held \in [Chart -> Int] /\ Sum(held, Chart) = off
      BY <1>1, HeldBooks
    <3> QED BY <3>1, SumOfAccounts
  <2>3. /\ B \in Int /\ R \in Int /\ I \in Int /\ P \in Int /\ Elsewhere(held) \in Int
        /\ B + R + I + P = off - Sum(held, IncomeOrExpense) - Elsewhere(held)
    BY <2>2, WorkingCapitalOfBooks
  <2>4. Sum(held, IncomeOrExpense) \in Int /\ since \in Int
    <3>1. held \in [Chart -> Int] /\ between \in [Chart -> Int]
      BY <2>2 DEF ReportsInv, ReportsTypeOK
    <3> QED BY <1>1, <3>1, TypesOfAccounts, SumOfAccounts
  <2>5. old.netProfit \in Int /\ old.misfiled \in Int
    BY <1>5 DEF ProfitIs
  <2>6. old.netProfit + old.misfiled = since - Sum(held, IncomeOrExpense)
    BY <1>5, <2>1
  <2> HIDE DEF B, R, I, P
  <2> QED BY <2>2, <2>3, <2>4, <2>5, <2>6
<1>8. DepreciationToRead'
  <2>1. CapitalIs(report)'
    BY <1>4, <1>7 DEF CapitalIs
  <2>2. ProfitIs(report.profit)'
    BY <1>3, <1>4, <1>6 DEF ProfitIs
  <2> QED BY <1>6, <2>1, <2>2 DEF DepreciationToRead
<1>9. report'.step = "depreciation"
  BY <1>3, <1>4
<1> QED BY <1>4, <1>8, <1>9 DEF ReportsInv, SheetUnderWay, ControlsToRead, SheetOffset,
          DashboardOffset, EbitdaOffset, WorkingCapitalOffset, VarianceAddsUp

LEMMA ReadDepreciationKeeps ==
  ASSUME ReportsInv, ReadDepreciation
  PROVE  ReportsInv'
<1>1. PICK old, profit, added, moved :
        /\ old = report /\ profit = report.profit
        /\ added = Held(report.from, report.to)[Depreciation] /\ moved = between[Depreciation]
  OBVIOUS
<1> DEFINE r == [step |-> "dashboard", capital |-> old, ebitda |-> profit.netProfit + added]
<1>2. Go("depreciation", r)
  BY <1>1 DEF ReadDepreciation, AddedBack
<1>3. r.step = "dashboard" /\ r.capital = old /\ r.ebitda = profit.netProfit + added
  OBVIOUS
<1> HIDE DEF r
<1>4. /\ ReportsTypeOK' /\ BooksBalance' /\ BalancesAreOfEntries'
      /\ between' = between /\ report' = r /\ report.step = "depreciation"
  BY <1>2, GoKeeps
<1>5. ProfitIs(profit) /\ CapitalIs(old)
  BY <1>1, <1>4 DEF ReportsInv, DepreciationToRead
<1>6. EbitdaOffset'
  <2>1. Depreciation \in Chart
    BY ReportsAssumption
  <2>2. added \in Int /\ moved \in Int
    <3>1. PICK from, to : from = report.from /\ to = report.to
      OBVIOUS
    <3>2. Held(from, to) \in [Chart -> Int] /\ between \in [Chart -> Int]
      BY HeldTypes DEF ReportsInv, ReportsTypeOK
    <3> QED BY <1>1, <2>1, <3>1, <3>2
  <2>3. /\ profit.netProfit \in Int /\ profit.deducted \in Int /\ profit.depreciation \in Int
        /\ profit.depreciation = added - moved
    BY <1>1, <1>5 DEF ProfitIs
  <2>4. profit.netProfit + added
          = (profit.netProfit + profit.deducted) + moved + (profit.depreciation - profit.deducted)
    BY <2>2, <2>3
  <2>5. /\ report'.capital.profit = profit /\ report'.ebitda = profit.netProfit + added
        /\ between'[Depreciation] = moved
    BY <1>1, <1>3, <1>4
  <2> QED BY <2>4, <2>5 DEF EbitdaOffset
<1>7. WorkingCapitalOffset'
  BY <1>3, <1>4, <1>5 DEF WorkingCapitalOffset, CapitalIs
<1>8. report'.step = "dashboard"
  BY <1>3, <1>4
<1> QED BY <1>4, <1>6, <1>7, <1>8 DEF ReportsInv, SheetUnderWay, ControlsToRead, DepreciationToRead,
          SheetOffset, DashboardOffset, VarianceAddsUp

LEMMA BudgetLines ==
  ASSUME NEW b \in Budgets
  PROVE  /\ IsFiniteSet(DOMAIN b.lines)
         /\ \A i \in DOMAIN b.lines : b.lines[i].account \in Chart /\ b.lines[i].amount \in Int
<1> DEFINE L == [account : Chart, amount : Int]
<1>1. PICK ls \in Seq(L) : ls = b.lines
  BY ReportsAssumption
<1>2. DOMAIN ls = 1..Len(ls) /\ Len(ls) \in Nat
  BY <1>1
<1>3. \A i \in DOMAIN ls : ls[i] \in L
  <2> HIDE DEF L
  <2> QED BY <1>1, <1>2
<1>4. IsFiniteSet(1..Len(ls))
  BY <1>2, FS_Interval
<1> QED BY <1>1, <1>2, <1>3, <1>4

\* The budget of the accounts compared is the whole budget: each line has its account.
LEMMA BudgetOfAccounts ==
  ASSUME NEW b \in Budgets, NEW K \in SUBSET Chart, {b.lines[i].account : i \in DOMAIN b.lines} \subseteq K
  PROVE  /\ \A a \in K : Budgeted(b, a) \in Int
         /\ SumFunctionOnSet([a \in K |-> Budgeted(b, a)], K)
              = SumFunction([i \in DOMAIN b.lines |-> b.lines[i].amount])
<1> DEFINE S == DOMAIN b.lines
           f == [i \in S |-> b.lines[i].amount]
           key == [i \in S |-> b.lines[i].account]
           g == [a \in K |-> Budgeted(b, a)]
<1>2. IsFiniteSet(S) /\ IsFiniteSet(K)
  BY BudgetLines, ReportsAssumption, FS_Subset
<1>3. \A i \in S : f[i] \in Int /\ key[i] \in K
  BY BudgetLines
<1>4. ASSUME NEW a \in K
      PROVE  Budgeted(b, a) = SumFunctionOnSet(f, Fibre(key, S, a)) /\ Budgeted(b, a) \in Int
  <2> DEFINE T == {j \in DOMAIN b.lines : b.lines[j].account = a}
             h == [i \in T |-> b.lines[i].amount]
  <2>1. Fibre(key, S, a) = T
    BY DEF Fibre
  <2>2. Budgeted(b, a) = SumFunctionOnSet(h, T)
    BY DEF Budgeted, SumFunction
  <2>3. \A i \in T : h[i] = f[i] /\ h[i] \in Int
    BY <1>3
  <2>4. IsFiniteSet(T)
    BY <1>2, FS_Subset
  <2> HIDE DEF T, h, f, key, S
  <2>5. SumFunctionOnSet(h, T) = SumFunctionOnSet(f, T) /\ SumFunctionOnSet(h, T) \in Int
    BY <2>3, <2>4, SumSame, SumType
  <2> QED BY <2>1, <2>2, <2>5
<1>5. SumFunction([i \in DOMAIN b.lines |-> b.lines[i].amount]) = SumFunctionOnSet(f, S)
  BY DEF SumFunction
<1>6. g = FibreSums(f, key, S, K)
  <2>1. \A a \in K : g[a] = SumFunctionOnSet(f, Fibre(key, S, a))
    BY <1>4
  <2>2. g = [a \in K |-> g[a]]
    OBVIOUS
  <2> HIDE DEF g, f, key, S
  <2> QED BY <2>1, <2>2 DEF FibreSums
<1>7. SumFunctionOnSet(FibreSums(f, key, S, K), K) = SumFunctionOnSet(f, S)
  <2> HIDE DEF f, key, S
  <2> QED BY <1>2, <1>3, SumFibres
<1>8. SumFunctionOnSet(g, K) = SumFunctionOnSet(f, S)
  BY <1>6, <1>7
<1> QED BY <1>4, <1>5, <1>8

LEMMA VarianceReportKeeps ==
  ASSUME ReportsInv, NEW b \in Budgets, VarianceReport(b)
  PROVE  ReportsInv'
<1>1. PICK held, K, off : /\ held = BalanceOf(OfYear(b.year)) /\ K = Compared(b)
                          /\ off = Imbalance(OfYear(b.year))
  OBVIOUS
<1>2. /\ \A a : Actual(b, a) = held[a]
      /\ held \in [Chart -> Int] /\ Sum(held, Chart) = off /\ off \in Int
  <2>1. OfYear(b.year) \in SUBSET Periods
    BY DEF OfYear
  <2>2. held \in [Chart -> Int] /\ Sum(held, Chart) = off
    BY <1>1, <2>1, BalanceTypes DEF ReportsInv, BooksBalance
  <2>3. \A a : Actual(b, a) = held[a]
    BY <1>1 DEF Actual
  <2> QED BY <2>2, <2>3, SumOfAccounts
<1>3. /\ K \in SUBSET Chart /\ {b.lines[i].account : i \in DOMAIN b.lines} \subseteq K
      /\ \A a \in Chart \ K : held[a] = 0
  <2>1. \A i \in DOMAIN b.lines : b.lines[i].account \in Chart
    BY BudgetLines
  <2> QED BY <1>1, <1>2, <2>1 DEF Compared
<1> DEFINE budget == [a \in K |-> Budgeted(b, a)]
           rows == [a \in K |-> held[a] - Budgeted(b, a)]
           r == [step |-> "variance", budget |-> b, rows |-> rows, imbalance |-> off]
<1>4. Begin(r)
  BY <1>1, <1>2 DEF VarianceReport
<1>5. r.step = "variance" /\ r.budget = b /\ r.rows = rows /\ DOMAIN rows = K /\ r.imbalance = off
  OBVIOUS
<1>6. Sum(rows, K) = off - SumFunction([i \in DOMAIN b.lines |-> b.lines[i].amount])
  <2>1. Sum(held, K) = off
    <3>1. held \in [Chart -> Int] /\ Sum(held, Chart) = off /\ Chart \in SUBSET Chart
      BY <1>2
    <3>2. Sum(held, Chart) = Sum(held, K) + Sum(held, Chart \ K)
      BY <1>3, <3>1, SumOfParts
    <3>3. Sum(held, Chart \ K) = 0
      <4>1. IsFiniteSet(Chart \ K)
        BY ReportsAssumption, FS_Subset
      <4> QED BY <1>3, <4>1, SumZero DEF Sum
    <3>4. Sum(held, K) \in Int
      BY <1>3, <3>1, SumOfAccounts
    <3> QED BY <1>2, <3>1, <3>2, <3>3, <3>4
  <2>2. /\ \A a \in K : Budgeted(b, a) \in Int
        /\ SumFunctionOnSet(budget, K) = SumFunction([i \in DOMAIN b.lines |-> b.lines[i].amount])
    BY <1>3, BudgetOfAccounts
  <2>3. \A a \in K : held[a] \in Int
    BY <1>2, <1>3
  <2>4. \A a \in K : rows[a] \in Int /\ budget[a] \in Int /\ held[a] = rows[a] + budget[a]
    BY <2>2, <2>3
  <2>5. IsFiniteSet(K)
    BY <1>3, ReportsAssumption, FS_Subset
  <2> HIDE DEF rows, budget
  <2>6. SumFunctionOnSet(held, K) = SumFunctionOnSet(rows, K) + SumFunctionOnSet(budget, K)
    BY <2>4, <2>5, SumAdd
  <2>7. SumFunctionOnSet(rows, K) \in Int /\ SumFunctionOnSet(budget, K) \in Int
    BY <2>4, <2>5, SumType
  <2>8. SumFunctionOnSet(rows, K) = off - SumFunctionOnSet(budget, K)
    BY <1>2, <2>1, <2>6, <2>7 DEF Sum
  <2> QED BY <2>2, <2>8 DEF Sum
<1> HIDE DEF r, rows
<1>7. ReportsTypeOK' /\ BooksBalance' /\ BalancesAreOfEntries' /\ report' = r
  BY <1>4, BeginKeeps
<1>8. VarianceAddsUp'
  BY <1>5, <1>6, <1>7 DEF VarianceAddsUp, Sum
<1>9. report'.step = "variance"
  BY <1>5, <1>7
<1> QED BY <1>7, <1>8, <1>9 DEF ReportsInv, SheetUnderWay, ControlsToRead, DepreciationToRead,
          SheetOffset, DashboardOffset, EbitdaOffset, WorkingCapitalOffset

-----------------------------------------------------------------------------
LEMMA ReportsNextLemma == ReportsInv /\ [ReportsNext]_reportsVars => ReportsInv'
<1> SUFFICES ASSUME ReportsInv, [ReportsNext]_reportsVars PROVE ReportsInv'
  OBVIOUS
<1>1. ASSUME NEW p \in Periods, NEW lines \in Postings, Post(p, lines) PROVE ReportsInv'
  BY <1>1, PostKeeps
<1>2. ASSUME NEW i \in DOMAIN entries, NEW p \in Periods, Reverse(i, p) PROVE ReportsInv'
  BY <1>2, ReverseKeeps
<1>3. ASSUME NEW a \in Edited, NEW c \in Categories, Categorise(a, c) PROVE ReportsInv'
  BY <1>3, CategoriseKeeps
<1>4. ASSUME NEW date \in Periods, ReadAccounts(date) PROVE ReportsInv'
  BY <1>4, ReadAccountsKeeps
<1>5. CASE ReadProfit
  BY <1>5, ReadProfitKeeps
<1>6. ASSUME NEW from \in Periods, NEW to \in Periods, ReadProfitAndLoss(from, to) PROVE ReportsInv'
  BY <1>6, ReadProfitAndLossKeeps
<1>7. CASE ReadControls
  BY <1>7, ReadControlsKeeps
<1>8. CASE ReadDepreciation
  BY <1>8, ReadDepreciationKeeps
<1>9. ASSUME NEW b \in Budgets, EnterBudget(b) PROVE ReportsInv'
  BY <1>9, EnterBudgetKeeps
<1>10. ASSUME NEW b \in Budgets, VarianceReport(b) PROVE ReportsInv'
  BY <1>10, VarianceReportKeeps
<1>11. CASE UNCHANGED reportsVars
  <2>1. \A ps : BalanceOf(ps)' = BalanceOf(ps)
    BY <1>11 DEF reportsVars, BalanceOf
  <2>2. \A from, to : Held(from, to)' = Held(from, to)
    BY <2>1 DEF Held, Dated
  <2>3. ReportsTypeOK' /\ BooksBalance' /\ BalancesAreOfEntries'
    <3>1. between' \in [Chart -> Int] /\ budgets' \subseteq Budgets
      BY <1>11 DEF reportsVars, ReportsInv, ReportsTypeOK
    <3> QED BY <1>11, <3>1, BooksStay DEF reportsVars
  <2> QED BY <1>11, <2>2, <2>3 DEF reportsVars, ReportsInv, SheetUnderWay, ControlsToRead,
            DepreciationToRead, SheetOffset, DashboardOffset, EbitdaOffset, WorkingCapitalOffset,
            VarianceAddsUp, ProfitIs, CapitalIs, DatesKnown, Sum, OfType
<1> QED BY <1>1, <1>2, <1>3, <1>4, <1>5, <1>6, <1>7, <1>8, <1>9, <1>10, <1>11 DEF ReportsNext

\* A balance is the sum of its entries' lines, any periods' balances are out of
\* balance by what their entries are, and what a report has read so far differs from
\* the books by what has been posted since.
THEOREM ReportsInvariant == ReportsSpec => []ReportsInv
<1>1. ReportsInit => ReportsInv
  BY ReportsInitLemma
<1>2. ReportsInv /\ [ReportsNext]_reportsVars => ReportsInv'
  BY ReportsNextLemma
<1> QED BY <1>1, <1>2, PTL DEF ReportsSpec

\* A balance sheet is off by exactly the income and expenses posted between its two
\* statements, what is filed under a category its account type does not say and what
\* the entries it found are out of balance by.
THEOREM SheetOffByRacesOnly == ReportsSpec => []SheetOffset
<1>1. ReportsInv => SheetOffset
  BY DEF ReportsInv
<1> QED BY <1>1, ReportsInvariant, PTL

\* The ebitda and the working capital of a dashboard are off by exactly what was
\* posted between its transactions, what is filed under a wrong category and what the
\* entries are out of balance by.
THEOREM DashboardOffByRacesOnly == ReportsSpec => []DashboardOffset
<1>1. ReportsInv => DashboardOffset
  BY DEF ReportsInv
<1> QED BY <1>1, ReportsInvariant, PTL

\* The variances of a report add up to the budget that was not spent, but for what
\* the entries of its year are out of balance by.
THEOREM VariancesAlwaysAddUp == ReportsSpec => []VarianceAddsUp
<1>1. ReportsInv => VarianceAddsUp
  BY DEF ReportsInv
<1> QED BY <1>1, ReportsInvariant, PTL

\* The general ledger lacks of a balance exactly the entries reversed since.
LEMMA LedgerAndReversed == ReportsInv => GeneralLedgerGap
<1> SUFFICES ASSUME ReportsInv, NEW p \in Periods, NEW a \in Chart
             PROVE  gl[p][a] - GeneralLedger(p, a)
                      = SumFunction([i \in Listed(p, "reversed") |-> entries[i].lines[a]])
  BY DEF GeneralLedgerGap
<1> DEFINE S == DOMAIN entries
           P == Listed(p, "posted")  R == Listed(p, "reversed")
           all == InPeriod(p, a)
           inP == [i \in P |-> entries[i].lines[a]]
           inR == [i \in R |-> entries[i].lines[a]]
           asP == [i \in S |-> IF i \in P THEN all[i] ELSE 0]
           asR == [i \in S |-> IF i \in R THEN all[i] ELSE 0]
<1>1. IsFiniteSet(S) /\ \A i \in S : entries[i] \in Entry
  <2>1. entries \in Seq(Entry)
    BY DEF ReportsInv, ReportsTypeOK
  <2>2. S = 1..Len(entries) /\ Len(entries) \in Nat
    BY <2>1
  <2>3. IsFiniteSet(1..Len(entries))
    BY <2>2, FS_Interval
  <2>4. \A i \in S : entries[i] \in Entry
    BY <2>1, <2>2
  <2> QED BY <2>2, <2>3, <2>4
<1>2. \A i \in S : entries[i].lines[a] \in Int /\ entries[i].status \in {"posted", "reversed"}
  BY <1>1 DEF Entry
<1>3. P \in SUBSET S /\ R \in SUBSET S
  BY DEF Listed
<1>4. \A i \in S : /\ all[i] = IF entries[i].period = p THEN entries[i].lines[a] ELSE 0
                   /\ all[i] \in Int
  BY <1>2 DEF InPeriod
<1>5. \A i \in S : asP[i] \in Int /\ asR[i] \in Int /\ all[i] = asP[i] + asR[i]
  BY <1>2, <1>4 DEF Listed
<1>6. /\ gl[p][a] = SumFunctionOnSet(all, S) /\ GeneralLedger(p, a) = SumFunctionOnSet(inP, P)
      /\ SumFunction(inR) = SumFunctionOnSet(inR, R)
  <2>1. gl[p][a] = SumFunction(all)
    BY DEF ReportsInv, BalancesAreOfEntries
  <2>2. DOMAIN all = S
    BY DEF InPeriod
  <2> QED BY <2>1, <2>2 DEF GeneralLedger, SumFunction
<1>7. /\ \A i \in P : inP[i] = all[i]
      /\ \A i \in R : inR[i] = all[i]
  BY <1>4 DEF Listed
<1>8. \A i \in S : asP[i] = IF i \in P THEN all[i] ELSE 0
  OBVIOUS
<1>9. \A i \in S : asR[i] = IF i \in R THEN all[i] ELSE 0
  OBVIOUS
<1> HIDE DEF S, P, R, all, inP, inR, asP, asR
<1>10. SumFunctionOnSet(all, S) = SumFunctionOnSet(asP, S) + SumFunctionOnSet(asR, S)
  BY <1>1, <1>5, SumAdd
<1>11. SumFunctionOnSet(all, P) = SumFunctionOnSet(asP, S)
  BY <1>1, <1>3, <1>4, <1>8, SumPart
<1>12. SumFunctionOnSet(all, R) = SumFunctionOnSet(asR, S)
  BY <1>1, <1>3, <1>4, <1>9, SumPart
<1>13. SumFunctionOnSet(inP, P) = SumFunctionOnSet(all, P) /\ SumFunctionOnSet(inR, R) = SumFunctionOnSet(all, R)
  <2>1. IsFiniteSet(P) /\ IsFiniteSet(R)
    BY <1>1, <1>3, FS_Subset
  <2> QED BY <1>7, <2>1, SumSame
<1>14. SumFunctionOnSet(asP, S) \in Int /\ SumFunctionOnSet(asR, S) \in Int
  BY <1>1, <1>5, SumType
<1>15. gl[p][a] - GeneralLedger(p, a) = SumFunction(inR)
  BY <1>6, <1>10, <1>11, <1>12, <1>13, <1>14
<1> QED BY <1>15 DEF inR, R

\* What the general ledger lists and what the balances hold differ by the entries
\* that were reversed since, whose mirror entries it goes on listing.
THEOREM GeneralLedgerLacksReversed == ReportsSpec => []GeneralLedgerGap
BY LedgerAndReversed, ReportsInvariant, PTL
=============================================================================
