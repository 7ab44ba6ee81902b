-------------------------- MODULE PlanChangeProofs --------------------------
(***************************************************************************)
(* Money and plan changes, for any number of changes, plans, prices and    *)
(* handlers, and with every crash, failure and interleaving the module     *)
(* knows.                                                                  *)
(*                                                                         *)
(* First, the wallet entries of every plan change fit its row, and a       *)
(* change that has been charged for or released never moves money again.   *)
(* FundsInv is inductive; nothing has to be known of the task, handler or  *)
(* loop that acts on a change: what they do to its row is decided by the   *)
(* conditions on the row itself.                                           *)
(*                                                                         *)
(* Then the types, and that every step is one of PlanSale or leaves its    *)
(* variables alone: wallet, reserve and the value of the active orders     *)
(* always add up to what the customer ever bought.  That needs to know     *)
(* what a row reserves for and which of its orders are still worth         *)
(* something, which is Books.                                              *)
(*                                                                         *)
(* Last, what the container has when a change that is the only one of its  *)
(* instance is settled or released, and afterwards: TargetInv, SourceInv   *)
(* and AgreeInv, each of which needs the ones before it and calmer         *)
(* surroundings.  With a second change none of the three properties holds. *)
(***************************************************************************)
EXTENDS PlanChange, DataInduction, SequenceTheorems, TLAPS

\* What a step has to show: the invariant again, and that settled changes keep
\* their fund_status and their wallet entries.
FinalKept ==
    \A c \in Changes : change[c].fund \in {"settled", "released"} =>
        change'[c].fund = change[c].fund /\ EntriesOf(c)' = EntriesOf(c)

Preserved == FundsInv' /\ FinalKept

\* A step that touches neither the changes nor the ledger preserves everything.
LEMMA StepElsewhere ==
    ASSUME FundsInv, UNCHANGED <<change, ledger>>
    PROVE  Preserved
BY DEF FundsInv, WellFormed, FundsAccounted, FinalKept, Preserved, EntriesOf, AccountsOf, Held

\* A step that only concerns change c is fine if the row and the entries of c fit.
OnlyConcerns(c) ==
    /\ DOMAIN change' = Changes
    /\ \A d \in Changes \ {c} : change'[d] = change[d] /\ EntriesOf(d)' = EntriesOf(d)

LEMMA StepOfOne ==
    ASSUME FundsInv, NEW c, OnlyConcerns(c),
           c \in Changes =>
               /\ DOMAIN change'[c] = DOMAIN NoChange
               /\ <<change'[c].status, change'[c].saga, change'[c].fund>> \in FundStates
               /\ EntriesOf(c)' \in AccountsOf(c)'
               /\ change[c].fund \in {"settled", "released"} =>
                      change'[c].fund = change[c].fund /\ EntriesOf(c)' = EntriesOf(c)
    PROVE  Preserved
<1>1. \A d \in Changes : d # c =>
          /\ change'[d] = change[d] /\ EntriesOf(d)' = EntriesOf(d)
          /\ AccountsOf(d)' = AccountsOf(d)
  BY DEF OnlyConcerns, AccountsOf, Held
<1>2. WellFormed'
  BY <1>1 DEF FundsInv, WellFormed, OnlyConcerns
<1>3. FundsAccounted'
  BY <1>1 DEF FundsInv, FundsAccounted
<1>4. FinalKept
  BY <1>1 DEF FinalKept
<1> QED BY <1>2, <1>3, <1>4 DEF FundsInv, Preserved

\* Rewriting one row without wallet entries concerns that change only; so do
\* wallet entries of one change, or of orders.
LEMMA RowConcerns ==
    ASSUME WellFormed, NEW c, NEW STATE row, change' = [change EXCEPT ![c] = row], ledger' = ledger
    PROVE  OnlyConcerns(c) /\ (c \in Changes => change'[c] = row /\ EntriesOf(c)' = EntriesOf(c))
BY DEF WellFormed, OnlyConcerns, EntriesOf

\* A row that keeps its fund_status, or stays open, keeps its entries.
LEMMA StepOfRow ==
    ASSUME FundsInv, NEW c, NEW STATE row,
           change' = [change EXCEPT ![c] = row], ledger' = ledger,
           c \in Changes =>
               /\ (Held(change[c]) /\ Held(row)) \/ row.fund = change[c].fund
               /\ DOMAIN row = DOMAIN NoChange /\ row.reserve = change[c].reserve
               /\ <<row.status, row.saga, row.fund>> \in FundStates
    PROVE  Preserved
<1>1. OnlyConcerns(c) /\ (c \in Changes => change'[c] = row /\ EntriesOf(c)' = EntriesOf(c))
  BY RowConcerns DEF FundsInv
<1>2. ASSUME c \in Changes
      PROVE  /\ EntriesOf(c)' \in AccountsOf(c)'
             /\ change[c].fund \in {"settled", "released"} => change'[c].fund = change[c].fund
  <2>1. AccountsOf(c)' = AccountsOf(c)
    BY <1>1, <1>2 DEF AccountsOf, Held
  <2> QED BY <1>1, <1>2, <2>1 DEF FundsInv, FundsAccounted, Held
<1> QED BY <1>1, <1>2, StepOfOne

\* What a row says of the wallet entries of its change, fund by fund.
LEMMA HeldAccounts ==
    ASSUME FundsInv, NEW c \in Changes, Held(change[c])
    PROVE  EntriesOf(c) = Enter(<<"hold", c>>, change[c].reserve)
BY DEF FundsInv, FundsAccounted, AccountsOf, Held

\* The release of a reservation, by failure or cancellation.
LEMMA ReleaseStep ==
    ASSUME FundsInv, NEW c, NEW key \in {"fail", "cancel"},
           c \in Changes => Held(change[c]),
           ReleaseFunds(c, key)
    PROVE  Preserved
<1>1. /\ change' = [change EXCEPT ![c] = Released(change[c])]
      /\ ledger' = ledger \cup Enter(<<key, c>>, change[c].reserve)
  BY DEF ReleaseFunds
<1>2. OnlyConcerns(c)
  BY <1>1 DEF FundsInv, WellFormed, OnlyConcerns, EntriesOf, Enter
<1>3. ASSUME c \in Changes
      PROVE /\ DOMAIN change'[c] = DOMAIN NoChange
            /\ <<change'[c].status, change'[c].saga, change'[c].fund>> \in FundStates
            /\ change'[c].fund = "released" /\ change'[c].reserve = change[c].reserve
  BY <1>1, <1>3 DEF FundsInv, WellFormed, Released, NoChange, FundStates
<1>4. ASSUME c \in Changes
      PROVE  EntriesOf(c)' \in AccountsOf(c)' /\ change[c].fund \notin {"settled", "released"}
  <2>1. EntriesOf(c) = Enter(<<"hold", c>>, change[c].reserve)
    BY <1>4, HeldAccounts
  <2>2. EntriesOf(c)' = EntriesOf(c) \cup Enter(<<key, c>>, change[c].reserve)
    BY <1>1 DEF EntriesOf, Enter
  <2>3. AccountsOf(c)' =
            {Enter(<<"hold", c>>, change[c].reserve) \cup Enter(<<"fail", c>>, change[c].reserve),
             Enter(<<"hold", c>>, change[c].reserve) \cup Enter(<<"cancel", c>>, change[c].reserve)}
    BY <1>3, <1>4 DEF AccountsOf, Held
  <2> QED BY <1>4, <2>1, <2>2, <2>3 DEF Held
<1> QED BY <1>2, <1>3, <1>4, StepOfOne

\* What the code does to a change at most: block it, fail it, cancel it, settle it.
LEMMA MarkBlockedStep ==
    ASSUME FundsInv, NEW c, MarkBlocked(c)
    PROVE  Preserved
<1> DEFINE row == Blocked(change[c])
<1>1. change' = [change EXCEPT ![c] = row] /\ ledger' = ledger
  BY DEF MarkBlocked, money
<1>2. ASSUME c \in Changes
      PROVE /\ (Held(change[c]) /\ Held(row)) \/ row.fund = change[c].fund
            /\ DOMAIN row = DOMAIN NoChange /\ row.reserve = change[c].reserve
            /\ <<row.status, row.saga, row.fund>> \in FundStates
  BY <1>2 DEF FundsInv, WellFormed, Blocked, Verifying, NoChange, FundStates, Held
<1> HIDE DEF row
<1> QED BY <1>1, <1>2, StepOfRow

LEMMA TryFailStep ==
    ASSUME FundsInv, NEW c, TryFail(c)
    PROVE  Preserved
<1>1. CASE change[c].status = "processing" /\ ReleaseFunds(c, "fail")
  <2>1. c \in Changes => Held(change[c])
    BY <1>1 DEF FundsInv, WellFormed, FundStates, Held
  <2> QED BY <1>1, <2>1, ReleaseStep
<1>2. CASE UNCHANGED <<change, money>>
  BY <1>2, StepElsewhere DEF money
<1> QED BY <1>1, <1>2 DEF TryFail, failPlanChange

LEMMA CancelStep ==
    ASSUME FundsInv, NEW c, cancelPlanChangeSettlementTx(c),
           change[c].status \in {"processing", "needs_review"} \/ change[c].saga = "compensating"
    PROVE  Preserved
<1>1. c \in Changes => Held(change[c])
  BY DEF FundsInv, WellFormed, FundStates, Held
<1>2. CASE ReleaseFunds(c, "cancel")
  BY <1>1, <1>2, ReleaseStep
<1>3. CASE UNCHANGED <<change, money>>
  BY <1>3, StepElsewhere DEF money
<1> QED BY <1>2, <1>3 DEF cancelPlanChangeSettlementTx

\* completePlanChange writes the release and the refunds of the replaced orders.
LEMMA CompleteStep ==
    ASSUME FundsInv, NEW c, change[c].status = "processing", Complete(c)
    PROVE  Preserved
<1> DEFINE refunds == UNION {Enter(<<"order", i>>, orders[i].paid) : i \in change[c].items}
<1>1. /\ \A d \in Changes \ {c} : change'[d] = change[d]
      /\ DOMAIN change' = Changes
      /\ ledger' = ledger \cup Enter(<<"release", c>>, change[c].reserve) \cup refunds
  BY DEF Complete, FundsInv, WellFormed
<1>2. \A e \in refunds : e[1] = "order"
  BY DEF Enter
<1> HIDE DEF refunds
<1>3. OnlyConcerns(c)
  BY <1>1, <1>2 DEF OnlyConcerns, EntriesOf, Enter
<1>4. ASSUME c \in Changes
      PROVE /\ DOMAIN change'[c] = DOMAIN NoChange
            /\ change'[c].fund = "settled" /\ change'[c].reserve = change[c].reserve
            /\ <<change'[c].status, change'[c].saga, change'[c].fund>> \in FundStates
  BY <1>4 DEF Complete, FundsInv, WellFormed, NoChange, FundStates
<1>5. ASSUME c \in Changes
      PROVE  EntriesOf(c)' \in AccountsOf(c)' /\ change[c].fund \notin {"settled", "released"}
  <2>1. Held(change[c])
    BY <1>5 DEF FundsInv, WellFormed, FundStates, Held
  <2>2. EntriesOf(c) = Enter(<<"hold", c>>, change[c].reserve)
    BY <1>5, <2>1, HeldAccounts
  <2>3. EntriesOf(c)' = EntriesOf(c) \cup Enter(<<"release", c>>, change[c].reserve)
    BY <1>1, <1>2 DEF EntriesOf, Enter
  <2>4. AccountsOf(c)' =
            {Enter(<<"hold", c>>, change[c].reserve) \cup Enter(<<"release", c>>, change[c].reserve)}
    BY <1>4, <1>5 DEF AccountsOf, Held
  <2> QED BY <2>1, <2>2, <2>3, <2>4 DEF Held
<1> QED BY <1>3, <1>4, <1>5, StepOfOne

LEMMA CompletionStep ==
    ASSUME FundsInv, NEW c, NEW STATE owned, NEW ACTION done, NEW ACTION error,
           completePlanChange(c, owned, done, error)
    PROVE  Preserved
<1>1. CASE UNCHANGED <<change, money>>
  BY <1>1, StepElsewhere DEF money
<1>2. CASE change[c].status = "processing" /\ Complete(c)
  BY <1>2, CompleteStep
<1>3. CASE MarkBlocked(c)
  BY <1>3, MarkBlockedStep
<1> QED BY <1>1, <1>2, <1>3 DEF completePlanChange
-----------------------------------------------------------------------------
LEMMA InitFunds == Init => FundsInv
<1> SUFFICES ASSUME Init PROVE FundsInv
  OBVIOUS
<1>1. WellFormed
  BY DEF Init, WellFormed, NoChange, FundStates
<1>2. \A c \in Changes : EntriesOf(c) = {} /\ AccountsOf(c) = {{}}
  BY DEF Init, EntriesOf, AccountsOf, Held, NoChange
<1> QED BY <1>1, <1>2 DEF FundsInv, FundsAccounted

\* The user: a hold for a new change, cancellation, and what concerns no change.
LEMMA CreateStep ==
    ASSUME FundsInv, NEW c \in Changes, NEW p \in Plans, createPlanChange(c, p)
    PROVE  Preserved
<1> DEFINE reserve == Cardinality(Active) * Price[p]
<1>1. /\ OnlyConcerns(c)
      /\ EntriesOf(c)' = EntriesOf(c) \cup Enter(<<"hold", c>>, reserve)
  BY DEF createPlanChange, FundsInv, WellFormed, OnlyConcerns, EntriesOf, Enter
<1>2. /\ DOMAIN change'[c] = DOMAIN NoChange
      /\ <<change'[c].status, change'[c].saga, change'[c].fund>> = <<"processing", "applying", "pending">>
      /\ change'[c].reserve = reserve
  BY DEF createPlanChange, FundsInv, WellFormed, NoChange
<1>3. change[c].fund = "none"
  BY DEF createPlanChange, FundsInv, WellFormed, FundStates
<1>4. EntriesOf(c) = {}
  BY <1>3 DEF FundsInv, FundsAccounted, AccountsOf, Held
<1>5. AccountsOf(c)' = {Enter(<<"hold", c>>, reserve)}
  BY <1>2 DEF AccountsOf, Held
<1> HIDE DEF reserve
<1> QED BY <1>1, <1>2, <1>3, <1>4, <1>5, StepOfOne DEF FundStates

LEMMA UserStep ==
    ASSUME FundsInv, User
    PROVE  Preserved
<1>1. ASSUME NEW c \in Changes, CancelObserved(c) PROVE Preserved
  BY <1>1, CancelStep DEF CancelObserved, Cancellable
<1>2. ASSUME NEW c \in Changes, RequestCompensation(c) PROVE Preserved
  <2> DEFINE row == [change[c] EXCEPT !.status = "needs_review", !.saga = "compensating",
                                      !.fund = "reserved"]
  <2>1. change' = [change EXCEPT ![c] = row] /\ ledger' = ledger
    BY <1>2 DEF RequestCompensation, money
  <2>2. /\ Held(change[c]) /\ Held(row)
        /\ DOMAIN row = DOMAIN NoChange /\ row.reserve = change[c].reserve
        /\ <<row.status, row.saga, row.fund>> \in FundStates
    BY <1>2 DEF RequestCompensation, Cancellable, FundsInv, WellFormed, FundStates, Held, NoChange
  <2> HIDE DEF row
  <2> QED BY <2>1, <2>2, StepOfRow
<1>3. ASSUME NEW c \in Changes, NEW p \in Plans, createPlanChange(c, p) PROVE Preserved
  BY <1>3, CreateStep
<1>4. CASE \E i \in DOMAIN orders : renewWithWallet(i)
  BY <1>4, StepElsewhere DEF renewWithWallet
<1>5. CASE refundOrder
  BY <1>5, StepElsewhere DEF refundOrder
<1>6. CASE NewerIntent
  BY <1>6, StepElsewhere DEF NewerIntent, money
<1> QED BY <1>1, <1>2, <1>3, <1>4, <1>5, <1>6 DEF User

\* The handlers: only their settlements and failures concern a change.
LEMMA HandlerStep ==
    ASSUME FundsInv, NEW h \in Handlers, Handler(h)
    PROVE  Preserved
<1>1. CASE \/ \E k \in Tasks : claimTask(h, k)
           \/ CallAgent(h) \/ AgentApplies(h) \/ AgentAnswers(h) \/ AgentFails(h)
           \/ finishTask(h) \/ Crash(h)
  BY <1>1, StepElsewhere
     DEF claimTask, CallAgent, AgentApplies, AgentAnswers, AgentFails, finishTask, Crash, money
<1>2. CASE SettleResize(h)
  BY <1>2, CompletionStep DEF SettleResize
<1>3. CASE SettleCompensation(h)
  <2> DEFINE c == handler[h].task[2]
  <2>1. CASE change[c].saga = "compensating" /\ cancelPlanChangeSettlementTx(c)
    BY <2>1, CancelStep
  <2>2. CASE MarkBlocked(c)
    BY <2>2, MarkBlockedStep
  <2> QED BY <1>3, <2>1, <2>2 DEF SettleCompensation
<1>4. CASE markResizeTaskObserving(h)
  BY <1>4, MarkBlockedStep, StepElsewhere DEF markResizeTaskObserving, money
<1>5. CASE failDeployment(h)
  BY <1>5, TryFailStep, StepElsewhere DEF failDeployment, money
<1> QED BY <1>1, <1>2, <1>3, <1>4, <1>5 DEF Handler

\* The loop: observation, and what it decides.
LEMMA InspectStep ==
    ASSUME FundsInv, Inspect
    PROVE  Preserved
<1> DEFINE c == loop.change
           seen == [change[c] EXCEPT !.observed = container]
           odd == [Blocked(change[c]) EXCEPT !.observed = container]
<1>1. ledger' = ledger
  BY DEF Inspect, money
<1>2. \/ change' = [change EXCEPT ![c] = seen]
      \/ change' = [change EXCEPT ![c] = odd]
  BY DEF Inspect
<1>3. ASSUME c \in Changes
      PROVE /\ seen.fund = change[c].fund
            /\ DOMAIN seen = DOMAIN NoChange /\ seen.reserve = change[c].reserve
            /\ <<seen.status, seen.saga, seen.fund>> \in FundStates
  BY <1>3 DEF FundsInv, WellFormed, NoChange
<1>4. ASSUME c \in Changes
      PROVE /\ (Held(change[c]) /\ Held(odd)) \/ odd.fund = change[c].fund
            /\ DOMAIN odd = DOMAIN NoChange /\ odd.reserve = change[c].reserve
            /\ <<odd.status, odd.saga, odd.fund>> \in FundStates
  BY <1>4 DEF FundsInv, WellFormed, Blocked, Verifying, NoChange, FundStates, Held
<1> HIDE DEF seen, odd
<1> QED BY <1>1, <1>2, <1>3, <1>4, StepOfRow

LEMMA LoopStep ==
    ASSUME FundsInv, Loop
    PROVE  Preserved
<1>1. CASE \/ \E k \in Tasks : recoverExpiredTaskLeases(k)
           \/ \E c \in Changes : reconcileBlockedPlanChanges(c)
           \/ CloseTask \/ LoopCrash
  BY <1>1, StepElsewhere
     DEF recoverExpiredTaskLeases, reconcileBlockedPlanChanges, CloseTask, LoopCrash, money
<1>2. CASE Inspect
  BY <1>2, InspectStep
<1>3. CASE InspectFails
  BY <1>3, MarkBlockedStep DEF InspectFails
<1>4. CASE resumeBlockedPlanChange
  <2> DEFINE c == loop.change
             row == [change[c] EXCEPT !.status = "processing"]
  <2>1. CASE Resumable(change[c]) /\ change' = [change EXCEPT ![c].status = "processing"]
    <3>1. change' = [change EXCEPT ![c] = row] /\ ledger' = ledger
      BY <1>4, <2>1 DEF resumeBlockedPlanChange, money
    <3>2. ASSUME c \in Changes
          PROVE /\ row.fund = change[c].fund
                /\ DOMAIN row = DOMAIN NoChange /\ row.reserve = change[c].reserve
                /\ <<row.status, row.saga, row.fund>> \in FundStates
      BY <2>1, <3>2 DEF Resumable, FundsInv, WellFormed, FundStates, NoChange
    <3> HIDE DEF row
    <3> QED BY <3>1, <3>2, StepOfRow
  <2>2. CASE change' = change
    BY <1>4, <2>2, StepElsewhere DEF resumeBlockedPlanChange, money
  <2> QED BY <1>4, <2>1, <2>2 DEF resumeBlockedPlanChange
<1>5. CASE SettleTarget
  BY <1>5, CompletionStep DEF SettleTarget
<1>6. CASE SettleSource
  BY <1>6, TryFailStep DEF SettleSource
<1> QED BY <1>1, <1>2, <1>3, <1>4, <1>5, <1>6 DEF Loop

LEMMA AdministratorStep ==
    ASSUME FundsInv, Administrator
    PROVE  Preserved
<1>1. CASE \E k \in Tasks : retryTask(k) \/ resumeReviewTask(k)
  BY <1>1, StepElsewhere DEF retryTask, resumeReviewTask, money
<1>2. CASE \E k \in Tasks : discardReviewTask(k)
  BY <1>2, TryFailStep, MarkBlockedStep DEF discardReviewTask
<1> QED BY <1>1, <1>2 DEF Administrator

LEMMA NextStep ==
    ASSUME FundsInv, [Next]_vars
    PROVE  Preserved
<1>1. CASE User
  BY <1>1, UserStep
<1>2. CASE \E h \in Handlers : Handler(h)
  BY <1>2, HandlerStep
<1>3. CASE Loop
  BY <1>3, LoopStep
<1>4. CASE Administrator
  BY <1>4, AdministratorStep
<1>5. CASE (\E k \in Tasks : LeaseExpires(k)) \/ (\E size \in Sizes : LateApply(size))
  BY <1>5, StepElsewhere DEF LeaseExpires, LateApply, money
<1>6. CASE UNCHANGED vars
  BY <1>6, StepElsewhere DEF vars, money
<1> QED BY <1>1, <1>2, <1>3, <1>4, <1>5, <1>6 DEF Next
-----------------------------------------------------------------------------
\* The wallet entries of a change always fit its status, saga_status and
\* fund_status: it is held once, and has one release at most, by settlement,
\* failure or cancellation.  (The business keys of the three differ, so nothing
\* in the database ensures it.)
THEOREM FundsCorrect == Spec => []FundsInv
<1>1. FundsInv /\ [Next]_vars => FundsInv'
  BY NextStep DEF Preserved
<1> QED BY InitFunds, <1>1, PTL DEF Spec

\* A change that has been charged for or released is final: no late handler,
\* compensation, observation or administrator changes its fund_status or writes
\* another wallet entry for it.
THEOREM SettledOnceCorrect == Spec => SettledOnce
<1>1. FundsInv /\ [Next]_vars => [FinalKept]_vars
  BY NextStep DEF Preserved
<1>2. [FinalKept]_vars =>
        [\A c \in Changes : change[c].fund \in {"settled", "released"} =>
            change'[c].fund = change[c].fund /\ EntriesOf(c)' = EntriesOf(c)]_vars
  BY DEF FinalKept
<1> QED BY FundsCorrect, <1>1, <1>2, PTL DEF Spec, SettledOnce

-----------------------------------------------------------------------------
(* Types: the rows of tasks and what handlers and loop are doing.          *)

Places ==
    {"idle", "claimed", "called", "applied", "settling", "finishing", "observing", "giving_up"}
Errors == {"none", "failed", "cancelled", "exhausted"}

HandlersInv ==
    /\ handler \in [Handlers -> HandlerRow]
    /\ \A h \in Handlers : handler[h].pc # "idle" => handler[h].task \in Tasks

LoopInv ==
    /\ loop \in LoopRow
    /\ loop.pc # "idle" => loop.change \in Changes

TasksInv == task \in [Tasks -> TaskRow] /\ lock \in Tasks \cup {None} /\ outdated \subseteq Tasks

ControlInv == TasksInv /\ HandlersInv /\ LoopInv

SizesInv ==
    /\ inst \in [status : {"running", "destroy_scheduled"}, size : Sizes]
    /\ container \in Sizes /\ late \subseteq Sizes

LEMMA GotoKept ==
    ASSUME HandlersInv, NEW h \in Handlers, handler[h].pc # "idle",
           NEW pc \in Places, NEW err \in Errors, Goto(h, pc, err)
    PROVE  HandlersInv'
<1> DEFINE row == [pc |-> pc, task |-> handler[h].task, err |-> err]
<1>1. handler[h] \in HandlerRow /\ handler[h].task \in Tasks
  BY DEF HandlersInv
<1>2. row \in HandlerRow /\ row.task \in Tasks
  BY <1>1 DEF HandlerRow, Places, Errors
<1> DEFINE f == [handler EXCEPT ![h].pc = pc]
<1>3. /\ f[h] = [pc |-> pc, task |-> handler[h].task, err |-> handler[h].err]
      /\ DOMAIN f = Handlers /\ \A g \in Handlers \ {h} : f[g] = handler[g]
  BY <1>1 DEF HandlersInv, HandlerRow
<1>4. handler' = [f EXCEPT ![h].err = err]
  BY DEF Goto
<1> HIDE DEF f
<1>5. handler' = [f EXCEPT ![h] = row]
  <2>1. handler' = [f EXCEPT ![h] = [f[h] EXCEPT !.err = err]]
    BY <1>4
  <2>2. [f[h] EXCEPT !.err = err] = row
    BY <1>3
  <2> QED BY <2>1, <2>2
<1> HIDE DEF row
<1>6. \A g \in Handlers : handler'[g] = IF g = h THEN row ELSE handler[g]
  BY <1>3, <1>5
<1>7. handler' = [g \in Handlers |-> handler'[g]]
  BY <1>3, <1>5
<1> QED BY <1>2, <1>6, <1>7 DEF HandlersInv

LEMMA LeaveKept ==
    ASSUME HandlersInv, NEW h \in Handlers, Leave(h)
    PROVE  HandlersInv'
<1>1. IdleHandler \in HandlerRow /\ IdleHandler.pc = "idle"
  BY DEF IdleHandler, HandlerRow
<1> HIDE DEF IdleHandler
<1> QED BY <1>1 DEF HandlersInv, Leave

\* One column of a task.
LEMMA TaskKept ==
    ASSUME TasksInv, NEW k \in Tasks, NEW r \in TaskRow, task' = [task EXCEPT ![k] = r]
    PROVE  task' \in [Tasks -> TaskRow]
BY DEF TasksInv

LEMMA StatusKept ==
    ASSUME TasksInv, NEW k \in Tasks, NEW s \in TaskStatus,
           task' = [task EXCEPT ![k].status = s]
    PROVE  task' \in [Tasks -> TaskRow]
<1>1. task[k] \in TaskRow
  BY DEF TasksInv
<1>2. [task[k] EXCEPT !.status = s] \in TaskRow
  BY <1>1 DEF TaskRow
<1>3. task' = [task EXCEPT ![k] = [task[k] EXCEPT !.status = s]]
  OBVIOUS
<1> QED BY <1>2, <1>3, TaskKept

LEMMA IdleKept == ASSUME LoopInv, loop' = IdleLoop PROVE LoopInv'
<1>1. IdleLoop \in LoopRow /\ IdleLoop.pc = "idle"
  BY DEF IdleLoop, LoopRow
<1> QED BY <1>1 DEF LoopInv

LEMMA LookKept == ASSUME LoopInv, NEW c \in Changes, NEW t \in BOOLEAN, LookAt(c, t) PROVE LoopInv'
<1>1. loop' = [pc |-> "inspect", change |-> c, seen |-> None, token |-> t]
  BY DEF LookAt, IdleLoop
<1> QED BY <1>1 DEF LoopInv, LoopRow

LEMMA LoopPcKept ==
    ASSUME LoopInv, loop.pc # "idle", NEW pc \in {"inspect", "resume", "settle", "close"},
           loop' = [loop EXCEPT !.pc = pc]
    PROVE  LoopInv'
BY DEF LoopInv, LoopRow

LEMMA TaskNames ==
    /\ \A c \in Changes : Resize(c) \in Tasks /\ Compensation(c) \in Tasks
    /\ \A k \in Tasks : k[2] \in Changes /\ k[1] \in {"resize", "compensate-resize"}
    /\ \A k \in Tasks : k[1] = "resize" => k = Resize(k[2])
BY DEF Tasks, Resize, Compensation

LEMMA SupersedeKept == ASSUME TasksInv, Supersede({}) PROVE outdated' \subseteq Tasks
BY DEF Supersede, Born, TasksInv

\* A step of handler h that leaves its task where it is, or leaves it.
LEMMA HandlerMoves ==
    ASSUME HandlersInv, NEW h \in Handlers, handler[h].pc # "idle",
           \/ Leave(h)
           \/ \E pc \in Places, err \in Errors : Goto(h, pc, err)
    PROVE  HandlersInv'
BY GotoKept, LeaveKept

LEMMA CompletionMoves ==
    ASSUME NEW c, NEW STATE owned, NEW ACTION done, NEW ACTION error,
           completePlanChange(c, owned, done, error)
    PROVE  /\ done \/ error
           /\ inst' = inst \/ inst' = [inst EXCEPT !.size = Resources[change[c].target]]
BY DEF completePlanChange, Complete

LEMMA SizeOfPlan == ASSUME NEW p \in Plans PROVE Resources[p] \in Sizes
BY PlanChangeAssumption DEF PlanChangeAssumption, Sizes, Range

LEMMA InstSized ==
    ASSUME SizesInv, NEW s \in Sizes, inst' = [inst EXCEPT !.size = s]
    PROVE  inst' \in [status : {"running", "destroy_scheduled"}, size : Sizes]
           /\ inst'.status = inst.status
BY DEF SizesInv

TypeInv == ControlInv /\ SizesInv /\ change \in [Changes -> ChangeRow]

LEMMA RowOf == ASSUME TypeInv, NEW c \in Changes
               PROVE  /\ change[c].source \in Sizes /\ change[c].target \in Plans
                      /\ TargetSize(c) \in Sizes
BY SizeOfPlan DEF TypeInv, ChangeRow, TargetSize

LEMMA CompletionSized ==
    ASSUME TypeInv, NEW c \in Changes, NEW STATE owned, NEW ACTION done, NEW ACTION error,
           completePlanChange(c, owned, done, error), UNCHANGED node
    PROVE  SizesInv'
<1>1. Resources[change[c].target] \in Sizes
  BY RowOf DEF TargetSize
<1>2. inst' \in [status : {"running", "destroy_scheduled"}, size : Sizes]
  BY <1>1, CompletionMoves, InstSized DEF SizesInv, TypeInv
<1> QED BY <1>2 DEF SizesInv, TypeInv, node

LEMMA SizeAsked == ASSUME TypeInv, NEW k \in Tasks PROVE SizeFor(k) \in Sizes
BY TaskNames, RowOf DEF SizeFor

LEMMA UserTypes == ASSUME TypeInv, User PROVE ControlInv' /\ SizesInv'
<1> USE DEF TypeInv, ControlInv
<1>1. ASSUME NEW c \in Changes, CancelObserved(c) PROVE ControlInv' /\ SizesInv'
  BY <1>1, SupersedeKept DEF CancelObserved, node, TasksInv, HandlersInv, LoopInv, SizesInv
<1>2. ASSUME NEW c \in Changes, RequestCompensation(c) PROVE ControlInv' /\ SizesInv'
  <2>1. outdated' \subseteq Tasks
    BY <1>2, SupersedeKept DEF RequestCompensation, TasksInv
  <2>2. ASSUME NEW k \in Tasks, NEW s \in {"pending", "cancelled"}
        PROVE  [task[k] EXCEPT !.status = s] \in TaskRow /\ task[k] \in TaskRow
    BY DEF TasksInv, TaskRow, TaskStatus
  <2>3. task' \in [Tasks -> TaskRow]
    BY <1>2, <2>2 DEF RequestCompensation
  <2> QED BY <1>2, <2>1, <2>3 DEF RequestCompensation, node, TasksInv, HandlersInv, LoopInv, SizesInv
<1>3. ASSUME NEW c \in Changes, NEW p \in Plans, createPlanChange(c, p) PROVE ControlInv' /\ SizesInv'
  <2>1. Resize(c) \in Tasks /\ "pending" \in TaskStatus
    BY TaskNames DEF TaskStatus
  <2>2. task' \in [Tasks -> TaskRow]
    BY <1>3, <2>1, StatusKept DEF createPlanChange
  <2> QED BY <1>3, <2>2, SupersedeKept
          DEF createPlanChange, node, TasksInv, HandlersInv, LoopInv, SizesInv
<1>4. CASE \E i \in DOMAIN orders : renewWithWallet(i)
  BY <1>4 DEF renewWithWallet, queue, node, TasksInv, HandlersInv, LoopInv, SizesInv
<1>5. CASE refundOrder
  BY <1>5 DEF refundOrder, queue, node, TasksInv, HandlersInv, LoopInv, SizesInv
<1>6. CASE NewerIntent
  BY <1>6, SupersedeKept DEF NewerIntent, node, TasksInv, HandlersInv, LoopInv, SizesInv
<1> QED BY <1>1, <1>2, <1>3, <1>4, <1>5, <1>6 DEF User

LEMMA AbandonsSized ==
    ASSUME TypeInv, NEW h \in Handlers, handler[h].pc # "idle", Abandons(h) PROVE late' \subseteq Sizes
<1>1. SizeFor(handler[h].task) \in Sizes
  BY SizeAsked DEF TypeInv, ControlInv, HandlersInv
<1> QED BY <1>1 DEF Abandons, TypeInv, SizesInv

\* What a handler does after its claim.
LEMMA HandlerTypes ==
    ASSUME TypeInv, NEW h \in Handlers, handler[h].pc # "idle",
           \/ CallAgent(h) \/ AgentApplies(h) \/ AgentAnswers(h) \/ AgentFails(h)
           \/ SettleResize(h) \/ SettleCompensation(h)
           \/ finishTask(h) \/ markResizeTaskObserving(h) \/ failDeployment(h)
           \/ Crash(h)
    PROVE  ControlInv' /\ SizesInv'
<1> DEFINE k == handler[h].task
<1> USE DEF TypeInv, ControlInv
<1>0. k \in Tasks /\ k[2] \in Changes /\ handler[h].err \in Errors
  BY TaskNames DEF HandlersInv, HandlerRow, Errors
<1> HIDE DEF k
<1>1. HandlersInv'
  <2>1. CASE CallAgent(h) \/ AgentApplies(h) \/ AgentAnswers(h)
    BY <2>1, HandlerMoves DEF CallAgent, AgentApplies, AgentAnswers, Places, Errors
  <2>2. CASE AgentFails(h)
    BY <2>2, HandlerMoves DEF AgentFails, Places, Errors
  <2>3. CASE SettleResize(h)
    <3>1. Goto(h, "finishing", "none") \/ Goto(h, "finishing", "failed")
      BY <2>3 DEF SettleResize, completePlanChange
    <3> QED BY <3>1, HandlerMoves DEF Places, Errors
  <2>4. CASE SettleCompensation(h)
    BY <2>4, HandlerMoves DEF SettleCompensation, Places, Errors
  <2>5. CASE finishTask(h)
    BY <2>5, HandlerMoves DEF finishTask, Places, Errors
  <2>6. CASE markResizeTaskObserving(h)
    BY <2>6, <1>0, HandlerMoves DEF markResizeTaskObserving, Places
  <2>7. CASE failDeployment(h) \/ Crash(h)
    BY <2>7, HandlerMoves DEF failDeployment, Crash
  <2> QED BY <2>1, <2>2, <2>3, <2>4, <2>5, <2>6, <2>7
<1>2. TasksInv' /\ LoopInv'
  <2>1. CASE finishTask(h)
    <3> DEFINE next == FinishStatus(k, handler[h].err)
               row == [task[k] EXCEPT !.status = next, !.owner = None]
    <3>1. next \in TaskStatus
      BY DEF FinishStatus, TaskStatus
    <3>2. task[k] \in TaskRow
      BY <1>0 DEF TasksInv
    <3> HIDE DEF next
    <3>3. row \in TaskRow
      BY <3>1, <3>2 DEF TaskRow
    <3>4. task' = task \/ task' = [task EXCEPT ![k] = row]
      BY <2>1 DEF finishTask, k, next
    <3>5. lock' \in {lock, None} /\ outdated' = outdated /\ loop' = loop
      BY <2>1 DEF finishTask
    <3> HIDE DEF row
    <3> QED BY <1>0, <3>3, <3>4, <3>5, TaskKept DEF TasksInv, LoopInv
  <2>2. CASE ~ finishTask(h)
    BY <2>2 DEF CallAgent, AgentApplies, AgentAnswers, AgentFails, SettleResize, SettleCompensation,
                markResizeTaskObserving, failDeployment, Crash, queue, TasksInv, LoopInv
  <2> QED BY <2>1, <2>2
<1>3. SizesInv'
  <2>1. CASE AgentApplies(h)
    BY <2>1, <1>0, SizeAsked DEF AgentApplies, SizesInv, k
  <2>2. CASE AgentFails(h) \/ Crash(h)
    BY <2>2, AbandonsSized DEF AgentFails, Crash, SizesInv
  <2>3. CASE SettleResize(h)
    BY <2>3, <1>0, CompletionSized DEF SettleResize, k
  <2>4. CASE SettleCompensation(h)
    <3>1. change[k[2]].source \in Sizes
      BY <1>0, RowOf
    <3>2. inst' = inst \/ inst' = [inst EXCEPT !.size = change[k[2]].source]
      BY <2>4 DEF SettleCompensation, k
    <3> QED BY <2>4, <3>1, <3>2, InstSized DEF SettleCompensation, SizesInv, node
  <2>5. CASE \/ CallAgent(h) \/ AgentAnswers(h) \/ finishTask(h)
             \/ markResizeTaskObserving(h) \/ failDeployment(h)
    BY <2>5 DEF CallAgent, AgentAnswers, finishTask, markResizeTaskObserving, failDeployment,
                node, SizesInv
  <2> QED BY <2>1, <2>2, <2>3, <2>4, <2>5
<1> QED BY <1>1, <1>2, <1>3

LEMMA ClaimTypes ==
    ASSUME TypeInv, NEW h \in Handlers, NEW k \in Tasks, claimTask(h, k)
    PROVE  ControlInv' /\ SizesInv'
<1> DEFINE n == IF task[k].attempts < MaxAttempts THEN task[k].attempts + 1 ELSE MaxAttempts
           row == [status |-> "running", owner |-> h, attempts |-> n]
           mine == [pc |-> "claimed", task |-> k, err |-> "none"]
<1>1. task[k].attempts \in 0..MaxAttempts /\ MaxAttempts \in Nat
  BY PlanChangeAssumption DEF TypeInv, ControlInv, TasksInv, TaskRow, PlanChangeAssumption
<1>2. n \in 0..MaxAttempts
  BY <1>1
<1> HIDE DEF n
<1>3. row \in TaskRow /\ mine \in HandlerRow
  BY <1>2 DEF TaskRow, TaskStatus, HandlerRow
<1>4. task' = [task EXCEPT ![k] = row] /\ handler' = [handler EXCEPT ![h] = mine]
  BY DEF claimTask, n
<1>5. mine.task \in Tasks
  OBVIOUS
<1> HIDE DEF row, mine
<1>6. HandlersInv'
  BY <1>3, <1>4, <1>5 DEF TypeInv, ControlInv, HandlersInv
<1>7. TasksInv' /\ LoopInv' /\ SizesInv'
  BY <1>3, <1>4, TaskKept DEF claimTask, TypeInv, ControlInv, TasksInv, LoopInv, SizesInv, node
<1> QED BY <1>6, <1>7 DEF ControlInv

LEMMA LoopTypes == ASSUME TypeInv, Loop PROVE ControlInv' /\ SizesInv'
<1> USE DEF TypeInv, ControlInv
<1>1. ASSUME NEW k \in Tasks, recoverExpiredTaskLeases(k) PROVE ControlInv' /\ SizesInv'
  <2>1. task' \in [Tasks -> TaskRow]
    BY <1>1, StatusKept DEF recoverExpiredTaskLeases, TaskStatus
  <2>2. LoopInv'
    BY <1>1, TaskNames, LookKept DEF recoverExpiredTaskLeases, LoopInv
  <2> QED BY <1>1, <2>1, <2>2 DEF recoverExpiredTaskLeases, TasksInv, HandlersInv, SizesInv, node
<1>2. ASSUME NEW c \in Changes, reconcileBlockedPlanChanges(c) PROVE ControlInv' /\ SizesInv'
  <2>1. LoopInv'
    BY <1>2, LookKept DEF reconcileBlockedPlanChanges
  <2> QED BY <1>2, <2>1 DEF reconcileBlockedPlanChanges, TasksInv, HandlersInv, SizesInv, queue, node
<1>3. CASE Inspect
  <2>1. CASE loop' = [loop EXCEPT !.pc = "resume", !.seen = container]
    <3>1. container \in Sizes /\ loop.change \in Changes /\ loop \in LoopRow
      BY <1>3 DEF Inspect, SizesInv, LoopInv
    <3>2. loop' = [pc |-> "resume", change |-> loop.change, seen |-> container, token |-> loop.token]
      BY <2>1, <3>1 DEF LoopRow
    <3> QED BY <1>3, <3>1, <3>2 DEF Inspect, LoopRow, LoopInv, TasksInv, HandlersInv, SizesInv, queue, node
  <2>2. CASE loop' = IdleLoop
    BY <1>3, <2>2, IdleKept DEF Inspect, TasksInv, HandlersInv, SizesInv, queue, node
  <2> QED BY <1>3, <2>1, <2>2 DEF Inspect
<1>4. CASE InspectFails \/ LoopCrash
  BY <1>4, IdleKept DEF InspectFails, LoopCrash, TasksInv, HandlersInv, SizesInv, queue, node
<1>5. CASE resumeBlockedPlanChange
  <2>1. LoopInv'
    BY <1>5, IdleKept, LoopPcKept DEF resumeBlockedPlanChange
  <2> QED BY <1>5, <2>1 DEF resumeBlockedPlanChange, TasksInv, HandlersInv, SizesInv, queue, node
<1>6. CASE SettleTarget
  <2>1. loop.change \in Changes /\ loop.pc # "idle"
    BY <1>6 DEF SettleTarget, LoopInv
  <2>2. loop' = [loop EXCEPT !.pc = "close"] \/ loop' = IdleLoop
    BY <1>6 DEF SettleTarget, completePlanChange
  <2>3. LoopInv'
    BY <2>1, <2>2, IdleKept, LoopPcKept
  <2>4. SizesInv'
    BY <1>6, <2>1, CompletionSized DEF SettleTarget
  <2> QED BY <1>6, <2>3, <2>4 DEF SettleTarget, TasksInv, HandlersInv, queue
<1>7. CASE SettleSource
  <2>1. LoopInv'
    BY <1>7, LoopPcKept DEF SettleSource
  <2> QED BY <1>7, <2>1 DEF SettleSource, TasksInv, HandlersInv, SizesInv, queue, node
<1>8. CASE CloseTask
  <2> DEFINE k == Resize(loop.change)
             s == IF task[k].status = "needs_review"
                  THEN IF loop.seen = TargetSize(loop.change) THEN "succeeded" ELSE "failed"
                  ELSE task[k].status
  <2>1. k \in Tasks
    BY <1>8, TaskNames DEF CloseTask, LoopInv
  <2>2. task[k] \in TaskRow
    BY <2>1 DEF TasksInv
  <2> HIDE DEF k
  <2>3. s \in TaskStatus
    BY <2>2 DEF TaskRow, TaskStatus
  <2>4. task' = [task EXCEPT ![k].status = s]
    BY <1>8 DEF CloseTask, k
  <2> HIDE DEF s
  <2>5. task' \in [Tasks -> TaskRow]
    BY <2>1, <2>3, <2>4, StatusKept
  <2> QED BY <1>8, <2>5, IdleKept DEF CloseTask, TasksInv, HandlersInv, SizesInv, node
<1> QED BY <1>1, <1>2, <1>3, <1>4, <1>5, <1>6, <1>7, <1>8 DEF Loop

LEMMA AdministratorTypes == ASSUME TypeInv, Administrator PROVE ControlInv' /\ SizesInv'
<1> USE DEF TypeInv, ControlInv
<1>1. ASSUME NEW k \in Tasks, retryTask(k) PROVE ControlInv' /\ SizesInv'
  <2> DEFINE row == IF k[1] = "resize" THEN [task[k] EXCEPT !.status = "needs_review"]
                    ELSE [task[k] EXCEPT !.status = "pending", !.attempts = 0]
  <2>1. task[k] \in TaskRow /\ 0 \in 0..MaxAttempts
    BY PlanChangeAssumption DEF TasksInv, PlanChangeAssumption
  <2>2. row \in TaskRow
    BY <2>1 DEF TaskRow, TaskStatus
  <2>3. task' = [task EXCEPT ![k] = row]
    BY <1>1 DEF retryTask
  <2> HIDE DEF row
  <2> QED BY <1>1, <2>2, <2>3, TaskKept DEF retryTask, TasksInv, HandlersInv, LoopInv, SizesInv, node
<1>2. ASSUME NEW k \in Tasks, resumeReviewTask(k) PROVE ControlInv' /\ SizesInv'
  <2>1. task' \in [Tasks -> TaskRow]
    BY <1>2, StatusKept DEF resumeReviewTask, TaskStatus
  <2> QED BY <1>2, <2>1 DEF resumeReviewTask, Unlock, TasksInv, HandlersInv, LoopInv, SizesInv, node
<1>3. ASSUME NEW k \in Tasks, discardReviewTask(k) PROVE ControlInv' /\ SizesInv'
  <2>1. PICK next \in DiscardedStatus(task[k].status) : task' = [task EXCEPT ![k].status = next]
    BY <1>3 DEF discardReviewTask
  <2>2. next \in TaskStatus
    BY DEF DiscardedStatus, TaskStatus
  <2>3. task' \in [Tasks -> TaskRow]
    BY <2>1, <2>2, StatusKept
  <2> QED BY <1>3, <2>3 DEF discardReviewTask, Unlock, TasksInv, HandlersInv, LoopInv, SizesInv, node
<1> QED BY <1>1, <1>2, <1>3 DEF Administrator

LEMMA ControlTypes == ASSUME TypeInv, [Next]_vars PROVE ControlInv' /\ SizesInv'
<1>1. CASE User
  BY <1>1, UserTypes
<1>2. ASSUME NEW h \in Handlers, Handler(h) PROVE ControlInv' /\ SizesInv'
  <2>1. CASE \E k \in Tasks : claimTask(h, k)
    BY <2>1, ClaimTypes
  <2>2. CASE ~ \E k \in Tasks : claimTask(h, k)
    <3>1. handler[h].pc # "idle"
      BY <1>2, <2>2 DEF Handler, CallAgent, AgentApplies, AgentAnswers, AgentFails, SettleResize,
            SettleCompensation, finishTask, markResizeTaskObserving, failDeployment, Crash
    <3> QED BY <1>2, <2>2, <3>1, HandlerTypes DEF Handler
  <2> QED BY <2>1, <2>2
<1>3. CASE Loop
  BY <1>3, LoopTypes
<1>4. CASE Administrator
  BY <1>4, AdministratorTypes
<1>5. ASSUME NEW k \in Tasks, LeaseExpires(k) PROVE ControlInv' /\ SizesInv'
  <2>1. task[k] \in TaskRow
    BY DEF TypeInv, ControlInv, TasksInv
  <2>2. [task[k] EXCEPT !.owner = None] \in TaskRow
    BY <2>1 DEF TaskRow
  <2>3. task' = [task EXCEPT ![k] = [task[k] EXCEPT !.owner = None]]
    BY <1>5 DEF LeaseExpires
  <2>4. task' \in [Tasks -> TaskRow]
    BY <2>2, <2>3, TaskKept DEF TypeInv, ControlInv
  <2> QED BY <1>5, <2>4 DEF LeaseExpires, TypeInv, ControlInv, TasksInv, HandlersInv, LoopInv, SizesInv, node
<1>6. ASSUME NEW size \in Sizes, LateApply(size) PROVE ControlInv' /\ SizesInv'
  BY <1>6 DEF LateApply, TypeInv, ControlInv, TasksInv, HandlersInv, LoopInv, SizesInv, queue
<1>7. CASE UNCHANGED vars
  BY <1>7 DEF vars, TypeInv, ControlInv, TasksInv, HandlersInv, LoopInv, SizesInv, queue, node
<1> QED BY <1>1, <1>2, <1>3, <1>4, <1>5, <1>6, <1>7 DEF Next

-----------------------------------------------------------------------------
(* Money.                                                                  *)

\* What a change reserves is the price of its replacement orders.  An order
\* that was exchanged has come back to the wallet under its own key, and one
\* that was refunded leaves an instance that no change is settled for.
Books ==
    /\ \A c \in Changes :
        /\ change[c].items \subseteq DOMAIN orders
        /\ change[c].reserve = Cardinality(change[c].items) * Price[change[c].target]
    /\ \A i \in DOMAIN orders :
        /\ orders[i].status = "exchanged" /\ orders[i].paid > 0 => <<"order", i>> \in ledger
        /\ orders[i].status = "refunded" => ~ Usable

MoneyInv ==
    /\ change \in [Changes -> ChangeRow] /\ orders \in Seq(OrderRow)
    /\ balance \in Nat /\ ledger \subseteq Entries
    /\ Books

Paid == [i \in DOMAIN orders |-> orders[i].paid]

LEMMA ActiveSum == ActiveValue = SumFunctionOnSet(Paid, Active)
BY DEF ActiveValue, Paid

LEMMA OrdersKnown ==
    ASSUME orders \in Seq(OrderRow)
    PROVE  /\ Len(orders) \in Nat /\ DOMAIN orders = 1..Len(orders)
           /\ \A S \in SUBSET DOMAIN orders :
                IsFiniteSet(S) /\ \A i \in S : Paid[i] = orders[i].paid /\ orders[i].paid \in Nat
           /\ \A i \in DOMAIN orders : orders[i] \in OrderRow
           /\ Active \in SUBSET DOMAIN orders
<1>1. /\ Len(orders) \in Nat /\ DOMAIN orders = 1..Len(orders)
      /\ \A i \in DOMAIN orders : orders[i] \in OrderRow
  BY LenProperties, ElementOfSeq
<1>2. IsFiniteSet(DOMAIN orders)
  BY <1>1, FS_Interval
<1>3. \A i \in DOMAIN orders : orders[i].paid \in Nat
  BY <1>1 DEF OrderRow
<1> QED BY <1>1, <1>2, <1>3, FS_Subset DEF Paid, Active

LEMMA ActiveNat == ASSUME orders \in Seq(OrderRow) PROVE ActiveValue \in Nat
<1>1. IsFiniteSet(Active) /\ \A i \in Active : Paid[i] \in Nat
  BY OrdersKnown
<1> QED BY <1>1, ActiveSum, SumNat

LEMMA CountNat == ASSUME MoneyInv, NEW c \in Changes
                  PROVE  /\ Cardinality(change[c].items) \in Nat /\ Price[change[c].target] \in Nat
                         /\ change[c].reserve \in Nat /\ change[c].target \in Plans
<1>1. change[c] \in ChangeRow
  BY DEF MoneyInv
<1>2. change[c].target \in Plans /\ Price[change[c].target] \in Nat
  BY <1>1, PlanChangeAssumption DEF ChangeRow, PlanChangeAssumption
<1>3. Cardinality(change[c].items) \in Nat
  BY OrdersKnown, FS_CardinalityType DEF MoneyInv, Books
<1>4. \A m, n \in Nat : m * n \in Nat
  OBVIOUS
<1> QED BY <1>2, <1>3, <1>4 DEF MoneyInv, Books

\* What a step has to show: the invariant again, and a step of the sale.
Moved == MoneyInv' /\ [Sale!Next]_(Sale!vars)

\* Phase and hold of a change in terms of its row.
PhaseOf(fund) ==
    CASE fund = "none" -> "none" [] fund = "settled" -> "charged"
      [] fund = "released" -> "returned" [] OTHER -> "held"

EscrowOf(row) == IF Held(row) THEN row.reserve ELSE 0

Escrow == [c \in Changes |-> EscrowOf(change[c])]

\* A step between the orders and the wallet.
LEMMA TradeStep ==
    ASSUME SalePhase' = SalePhase, Escrow' = Escrow,
           balance' + ActiveValue' = balance + ActiveValue, balance' \in Nat
    PROVE  Sale!Next
BY DEF Sale!Next, Sale!Trade, SalePhase, Escrow, EscrowOf

\* A step of one change.
LEMMA SaleStep ==
    ASSUME NEW c \in Changes, NEW STATE row, DOMAIN change = Changes,
           change' = [change EXCEPT ![c] = row]
    PROVE  /\ SalePhase' = [SalePhase EXCEPT ![c] = PhaseOf(row.fund)]
           /\ SalePhase[c] = PhaseOf(change[c].fund)
           /\ Escrow' = [Escrow EXCEPT ![c] = EscrowOf(row)] /\ Escrow[c] = EscrowOf(change[c])
<1>1. change'[c] = row /\ \A d \in Changes \ {c} : change'[d] = change[d]
  OBVIOUS
<1> QED BY <1>1 DEF SalePhase, Escrow, PhaseOf, EscrowOf, Held

\* A step that moves no money, and puts no refunded instance back into use.
LEMMA StillMoved ==
    ASSUME MoneyInv, UNCHANGED <<change, money>>, Usable' => Usable
    PROVE  Moved
<1>1. MoneyInv'
  BY DEF MoneyInv, Books, money
<1>2. UNCHANGED Sale!vars
  BY DEF Sale!vars, SalePhase, ActiveValue, Active, money, Held
<1> QED BY <1>1, <1>2 DEF Moved

\* A row that keeps what is held for it.
LEMMA RowMoved ==
    ASSUME MoneyInv, NEW c, NEW STATE row, change' = [change EXCEPT ![c] = row],
           UNCHANGED money, Usable' => Usable,
           c \in Changes =>
               /\ row \in ChangeRow
               /\ row.items = change[c].items /\ row.target = change[c].target
               /\ row.reserve = change[c].reserve
               /\ (Held(change[c]) /\ Held(row)) \/ row.fund = change[c].fund
    PROVE  Moved
<1>1. CASE c \notin Changes
  <2>1. change' = change
    BY <1>1 DEF MoneyInv
  <2> QED BY <2>1, StillMoved
<1>2. CASE c \in Changes
  <2>1. change' \in [Changes -> ChangeRow]
    BY <1>2 DEF MoneyInv
  <2>2. \A d \in Changes : /\ change'[d].items = change[d].items
                           /\ change'[d].target = change[d].target
                           /\ change'[d].reserve = change[d].reserve
    BY <1>2 DEF MoneyInv
  <2>3. MoneyInv'
    BY <2>1, <2>2 DEF MoneyInv, Books, money
  <2>4. PhaseOf(row.fund) = PhaseOf(change[c].fund) /\ EscrowOf(row) = EscrowOf(change[c])
    BY <1>2 DEF PhaseOf, EscrowOf, Held
  <2>5. /\ SalePhase' = [SalePhase EXCEPT ![c] = PhaseOf(row.fund)]
        /\ SalePhase[c] = PhaseOf(change[c].fund)
        /\ Escrow' = [Escrow EXCEPT ![c] = EscrowOf(row)] /\ Escrow[c] = EscrowOf(change[c])
    BY <1>2, SaleStep DEF MoneyInv
  <2>6. SalePhase' = SalePhase /\ Escrow' = Escrow
    BY <2>4, <2>5 DEF SalePhase, Escrow
  <2>7. UNCHANGED Sale!vars
    BY <2>6 DEF Sale!vars, Escrow, EscrowOf, ActiveValue, Active, money
  <2> QED BY <2>3, <2>7 DEF Moved
<1> QED BY <1>1, <1>2

LEMMA ReleaseMoved ==
    ASSUME MoneyInv, FundsInv, NEW c \in Changes, Held(change[c]), NEW key \in {"fail", "cancel"},
           ReleaseFunds(c, key), Usable' => Usable
    PROVE  Moved
<1> DEFINE row == Released(change[c])
<1>1. /\ change' = [change EXCEPT ![c] = row] /\ orders' = orders
      /\ balance' = balance + change[c].reserve
      /\ ledger' = ledger \cup Enter(<<key, c>>, change[c].reserve)
  BY DEF ReleaseFunds
<1>2. /\ row \in ChangeRow /\ row.fund = "released" /\ row.items = change[c].items
      /\ row.target = change[c].target /\ row.reserve = change[c].reserve
  BY DEF MoneyInv, ChangeRow, Released
<1>3. change[c].reserve \in Nat
  BY CountNat
<1>4. Enter(<<key, c>>, change[c].reserve) \subseteq Entries
  BY DEF Enter, Entries
<1> HIDE DEF row
<1>5. MoneyInv'
  <2>1. change' \in [Changes -> ChangeRow]
    BY <1>1, <1>2 DEF MoneyInv
  <2>2. \A d \in Changes : /\ change'[d].items = change[d].items
                           /\ change'[d].target = change[d].target
                           /\ change'[d].reserve = change[d].reserve
    BY <1>1, <1>2 DEF MoneyInv
  <2>3. balance' \in Nat
    BY <1>1, <1>3 DEF MoneyInv
  <2>4. ledger' \subseteq Entries /\ ledger \subseteq ledger'
    <3>1. ledger \subseteq Entries
      BY DEF MoneyInv
    <3> QED BY <1>1, <1>4, <3>1
  <2> QED BY <1>1, <2>1, <2>2, <2>3, <2>4 DEF MoneyInv, Books
<1>6. /\ SalePhase' = [SalePhase EXCEPT ![c] = PhaseOf(row.fund)]
      /\ SalePhase[c] = PhaseOf(change[c].fund)
      /\ Escrow' = [Escrow EXCEPT ![c] = EscrowOf(row)] /\ Escrow[c] = EscrowOf(change[c])
  BY <1>1, SaleStep DEF MoneyInv
<1>7. PhaseOf(row.fund) = "returned" /\ PhaseOf(change[c].fund) = "held"
  BY <1>2 DEF PhaseOf, Held
<1>8. EscrowOf(row) = 0 /\ EscrowOf(change[c]) = change[c].reserve
  BY <1>2 DEF EscrowOf, Held
<1>9. Escrow'[c] = 0 /\ \A d \in Changes \ {c} : Escrow'[d] = Escrow[d]
  BY <1>6, <1>8 DEF Escrow
<1>10. ActiveValue' = ActiveValue
  BY <1>1 DEF ActiveValue, Active
<1>11. Sale!Return(c)
  <2>1. /\ SalePhase[c] = "held" /\ SalePhase' = [SalePhase EXCEPT ![c] = "returned"]
        /\ balance' = balance + Escrow[c]
    BY <1>1, <1>6, <1>7, <1>8
  <2> QED BY <2>1, <1>9, <1>10 DEF Sale!Return, Sale!Move, Escrow, EscrowOf
<1> QED BY <1>5, <1>11 DEF Moved, Sale!Next

LEMMA RowCreated ==
    ASSUME NEW s \in Sizes, NEW p \in Plans, NEW I \in SUBSET Nat, NEW n \in Nat
    PROVE  [NoChange EXCEPT !.status = "processing", !.saga = "applying", !.fund = "pending",
                            !.source = s, !.target = p, !.items = I, !.reserve = n] \in ChangeRow
<1> DEFINE a == [NoChange EXCEPT !.status = "processing", !.saga = "applying"]
           b == [a EXCEPT !.fund = "pending", !.source = s]
           d == [b EXCEPT !.target = p, !.items = I]
<1>1. NoChange \in ChangeRow
  BY SizeOfPlan, PlanChangeAssumption DEF NoChange, ChangeRow, PlanChangeAssumption
<1>2. a \in ChangeRow
  BY <1>1 DEF ChangeRow
<1> HIDE DEF a
<1>3. b \in ChangeRow
  BY <1>2 DEF ChangeRow
<1> HIDE DEF b
<1>4. d \in ChangeRow
  BY <1>3 DEF ChangeRow
<1> HIDE DEF d
<1>5. [d EXCEPT !.reserve = n] \in ChangeRow
  BY <1>4 DEF ChangeRow
<1> QED BY <1>5 DEF a, b, d

LEMMA CreateMoved ==
    ASSUME MoneyInv, FundsInv, SizesInv, NEW c \in Changes, NEW p \in Plans, createPlanChange(c, p)
    PROVE  Moved
<1> DEFINE n == Cardinality(Active)
           reserve == n * Price[p]
           row == [NoChange EXCEPT !.status = "processing", !.saga = "applying",
                                   !.fund = "pending", !.source = inst.size,
                                   !.target = p, !.items = Active, !.reserve = reserve]
<1>1. n \in Nat /\ Price[p] \in Nat /\ Active \in SUBSET Nat /\ Active \subseteq DOMAIN orders
  <2>1. Active \in SUBSET DOMAIN orders /\ IsFiniteSet(Active) /\ DOMAIN orders \subseteq Nat
    BY OrdersKnown DEF MoneyInv
  <2> QED BY <2>1, FS_CardinalityType, PlanChangeAssumption DEF PlanChangeAssumption
<1>2. reserve \in Nat
  <2>1. \A a, b \in Nat : a * b \in Nat
    OBVIOUS
  <2> QED BY <1>1, <2>1
<1>3. /\ balance' = balance - reserve /\ balance >= reserve /\ orders' = orders
      /\ ledger' = ledger \cup Enter(<<"hold", c>>, reserve) /\ inst' = inst
  BY DEF createPlanChange, Affordable
<1> HIDE DEF reserve
<1>4. change' = [change EXCEPT ![c] = row]
  BY DEF createPlanChange, reserve
<1>5. row \in ChangeRow
  <2>1. inst.size \in Sizes
    BY DEF SizesInv
  <2> QED BY <1>1, <1>2, <2>1, RowCreated
<1>6. row.fund = "pending" /\ row.items = Active /\ row.target = p /\ row.reserve = n * Price[p]
  BY DEF reserve, NoChange
<1>7. Enter(<<"hold", c>>, reserve) \subseteq Entries
  BY DEF Enter, Entries
<1> HIDE DEF row, n
<1>8. MoneyInv'
  <2>1. change' \in [Changes -> ChangeRow]
    BY <1>4, <1>5 DEF MoneyInv
  <2>2. \A d \in Changes : /\ change'[d].items \subseteq DOMAIN orders
                           /\ change'[d].reserve = Cardinality(change'[d].items) * Price[change'[d].target]
    BY <1>1, <1>4, <1>6 DEF MoneyInv, Books, n
  <2>3. balance' \in Nat
    BY <1>2, <1>3 DEF MoneyInv
  <2>4. ledger' \subseteq Entries /\ ledger \subseteq ledger'
    BY <1>3, <1>7 DEF MoneyInv
  <2> QED BY <1>3, <2>1, <2>2, <2>3, <2>4 DEF MoneyInv, Books, Usable
<1>9. /\ SalePhase' = [SalePhase EXCEPT ![c] = PhaseOf(row.fund)]
      /\ SalePhase[c] = PhaseOf(change[c].fund)
      /\ Escrow' = [Escrow EXCEPT ![c] = EscrowOf(row)] /\ Escrow[c] = EscrowOf(change[c])
  BY <1>4, SaleStep DEF MoneyInv
<1>10. PhaseOf(row.fund) = "held" /\ PhaseOf(change[c].fund) = "none"
  <2>1. change[c].fund = "none"
    BY DEF createPlanChange, FundsInv, WellFormed, FundStates
  <2> QED BY <1>6, <2>1 DEF PhaseOf
<1>11. EscrowOf(row) = reserve
  BY <1>6 DEF EscrowOf, Held, reserve
<1>12. Escrow'[c] = reserve /\ \A d \in Changes \ {c} : Escrow'[d] = Escrow[d]
  BY <1>9, <1>11 DEF Escrow
<1>13. ActiveValue' = ActiveValue
  BY <1>3 DEF ActiveValue, Active
<1>14. /\ SalePhase[c] = "none" /\ SalePhase' = [SalePhase EXCEPT ![c] = "held"]
       /\ Escrow'[c] >= 0 /\ balance' = balance - Escrow'[c] /\ balance' >= 0
  BY <1>2, <1>3, <1>8, <1>9, <1>10, <1>12 DEF MoneyInv
<1>15. Sale!Hold(c)
  BY <1>12, <1>13, <1>14 DEF Sale!Hold, Sale!Move, Escrow, EscrowOf
<1> QED BY <1>8, <1>15 DEF Moved, Sale!Next

LEMMA PlanRenewed ==
    ASSUME MoneyInv, NEW i \in DOMAIN orders PROVE RenewalPlan(i) \in Plans
<1> DEFINE R == {j \in DOMAIN orders : orders[j].exchange # None}
<1>1. \A j \in DOMAIN orders : orders[j].plan \in Plans
  BY OrdersKnown DEF MoneyInv, OrderRow
<1>2. CASE R # {}
  <2>1. IsFiniteSet(R) /\ R \subseteq Int
    BY OrdersKnown DEF MoneyInv
  <2>2. \E j \in R : \A k \in R : j >= k
    BY <1>2, <2>1, FiniteMax
  <2>3. \E j \in R : \A k \in R : k <= j
    BY <2>1, <2>2
  <2>4. (CHOOSE j \in R : \A k \in R : k <= j) \in R
    BY <2>3
  <2> QED BY <1>1, <1>2, <2>4 DEF RenewalPlan
<1> QED BY <1>1, <1>2 DEF RenewalPlan

LEMMA PriceNat == ASSUME NEW p \in Plans PROVE Price[p] \in Nat
BY PlanChangeAssumption DEF PlanChangeAssumption

LEMMA ActiveOrderRow == ASSUME NEW p \in Plans, NEW x \in Changes \cup {None}
                        PROVE  ActiveOrder(p, x) \in OrderRow
BY PriceNat DEF ActiveOrder, OrderRow

LEMMA RenewMoved ==
    ASSUME MoneyInv, NEW i \in DOMAIN orders, renewWithWallet(i)
    PROVE  Moved
<1> DEFINE p == RenewalPlan(i)
           row == ActiveOrder(p, None)
           n == Len(orders) + 1
<1>1. p \in Plans /\ Price[p] \in Nat
  BY PlanRenewed, PriceNat
<1>2. /\ balance' = balance - Price[p] /\ balance >= Price[p] /\ orders' = Append(orders, row)
      /\ change' = change /\ ledger' = ledger /\ inst' = inst
  BY DEF renewWithWallet, Affordable
<1>3. row \in OrderRow /\ row.status = "active" /\ row.paid = Price[p]
  BY <1>1, ActiveOrderRow DEF ActiveOrder
<1> HIDE DEF p, row
<1>4. /\ orders' \in Seq(OrderRow) /\ DOMAIN orders' = DOMAIN orders \cup {n} /\ n \notin DOMAIN orders
      /\ \A j \in DOMAIN orders : orders'[j] = orders[j]
      /\ orders'[n] = row
  <2>1. /\ Len(orders) \in Nat /\ DOMAIN orders = 1..Len(orders)
        /\ orders' \in Seq(OrderRow) /\ Len(orders') = Len(orders) + 1
        /\ \A j \in 1..Len(orders) : orders'[j] = orders[j]
        /\ orders'[Len(orders) + 1] = row
    BY <1>2, <1>3, OrdersKnown, AppendProperties DEF MoneyInv
  <2>2. DOMAIN orders' = 1..Len(orders')
    BY <2>1, LenProperties
  <2> QED BY <2>1, <2>2
<1> HIDE DEF n
<1>5. MoneyInv'
  <2>1. balance' \in Nat
    BY <1>1, <1>2 DEF MoneyInv
  <2>2. Books'
    BY <1>2, <1>3, <1>4 DEF MoneyInv, Books, Usable
  <2> QED BY <1>2, <1>4, <2>1, <2>2 DEF MoneyInv
<1>6. Active' = Active \cup {n} /\ n \notin Active
  BY <1>3, <1>4 DEF Active
<1>7. /\ IsFiniteSet(Active) /\ \A j \in Active : Paid[j] \in Int /\ Paid'[j] = Paid[j]
      /\ Paid'[n] = Price[p]
  <2>1. IsFiniteSet(Active) /\ \A j \in Active : j \in DOMAIN orders /\ orders[j].paid \in Nat
    BY OrdersKnown DEF MoneyInv
  <2>2. \A j \in DOMAIN orders' : Paid'[j] = orders'[j].paid
    BY DEF Paid
  <2>3. \A j \in DOMAIN orders : Paid[j] = orders[j].paid
    BY DEF Paid
  <2> QED BY <1>3, <1>4, <2>1, <2>2, <2>3
<1>8. ActiveValue' = Price[p] + ActiveValue
  <2>1. ActiveValue' = SumFunctionOnSet(Paid', Active')
    BY DEF ActiveValue, Paid
  <2>2. \A j \in Active \cup {n} : Paid'[j] \in Int
    BY <1>1, <1>7
  <2>3. SumFunctionOnSet(Paid', Active \cup {n}) = Paid'[n] + SumFunctionOnSet(Paid', Active)
    BY <1>6, <1>7, <2>2, SumAdd
  <2>4. SumFunctionOnSet(Paid', Active) = SumFunctionOnSet(Paid, Active)
    BY <1>7, SumSame
  <2> QED BY <1>6, <1>7, <2>1, <2>3, <2>4, ActiveSum
<1>9. ActiveValue \in Nat /\ balance \in Nat
  BY ActiveNat DEF MoneyInv
<1>10. SalePhase' = SalePhase /\ Escrow' = Escrow
  BY <1>2 DEF SalePhase, Escrow, EscrowOf, Held
<1>11. balance' + ActiveValue' = balance + ActiveValue
  BY <1>1, <1>2, <1>8, <1>9
<1>12. Sale!Next
  BY <1>5, <1>10, <1>11, TradeStep DEF MoneyInv
<1> QED BY <1>5, <1>12 DEF Moved

LEMMA RefundMoved == ASSUME MoneyInv, refundOrder PROVE Moved
<1>1. /\ balance' = balance + ActiveValue /\ change' = change /\ ledger' = ledger
      /\ orders' = [i \in DOMAIN orders |->
            IF i \in Active THEN [orders[i] EXCEPT !.status = "refunded"] ELSE orders[i]]
      /\ ~ Usable'
  BY DEF refundOrder, Usable, MoneyInv
<1>2. /\ Len(orders) \in Nat /\ DOMAIN orders = 1..Len(orders)
      /\ \A i \in DOMAIN orders : orders[i] \in OrderRow
  BY OrdersKnown DEF MoneyInv
<1>3. \A i \in DOMAIN orders : orders'[i] \in OrderRow /\ orders'[i].status # "active"
  BY <1>1, <1>2 DEF OrderRow, Active
<1>4. \A i \in DOMAIN orders : /\ orders'[i].paid = orders[i].paid
                               /\ orders'[i].status = "exchanged" => orders[i].status = "exchanged"
  BY <1>1, <1>2 DEF OrderRow
<1>5. DOMAIN orders' = DOMAIN orders /\ orders' \in Seq(OrderRow)
  <2>1. orders' \in [1..Len(orders) -> OrderRow]
    BY <1>1, <1>2, <1>3
  <2> QED BY <1>1, <1>2, <2>1, SeqDef
<1>6. Active' = {}
  BY <1>3, <1>5 DEF Active
<1>7. ActiveValue' = 0
  BY <1>6, SumEmpty DEF ActiveValue
<1>8. ActiveValue \in Nat /\ balance \in Nat
  BY ActiveNat DEF MoneyInv
<1>9. MoneyInv'
  <2>1. Books'
    BY <1>1, <1>4, <1>5 DEF MoneyInv, Books
  <2> QED BY <1>1, <1>5, <1>8, <2>1 DEF MoneyInv
<1>10. SalePhase' = SalePhase /\ Escrow' = Escrow
  BY <1>1 DEF SalePhase, Escrow, EscrowOf, Held
<1>11. balance' + ActiveValue' = balance + ActiveValue
  BY <1>1, <1>7, <1>8
<1>12. Sale!Next
  BY <1>9, <1>10, <1>11, TradeStep DEF MoneyInv
<1> QED BY <1>9, <1>12 DEF Moved

\* The rows of orders after a settlement: the old ones, then the replacements.
LEMMA OrdersExtended ==
    ASSUME orders \in Seq(OrderRow), NEW f \in [DOMAIN orders -> OrderRow],
           NEW n \in Nat, NEW g \in [1..n -> OrderRow], orders' = f \o g
    PROVE  /\ orders' \in Seq(OrderRow)
           /\ DOMAIN orders' = DOMAIN orders \cup (Len(orders) + 1 .. Len(orders) + n)
           /\ \A i \in DOMAIN orders : orders'[i] = f[i]
           /\ \A i \in Len(orders) + 1 .. Len(orders) + n :
                i \notin DOMAIN orders /\ \E k \in 1..n : orders'[i] = g[k]
<1> DEFINE m == Len(orders)
<1>1. m \in Nat /\ DOMAIN orders = 1..m
  BY OrdersKnown
<1>2. f \in Seq(OrderRow) /\ g \in Seq(OrderRow)
  BY <1>1, SeqDef
<1>3. Len(f) = m /\ Len(g) = n
  <2>1. Len(f) \in Nat /\ 1..Len(f) = 1..m /\ Len(g) \in Nat /\ 1..Len(g) = 1..n
    BY <1>1, <1>2, LenProperties
  <2> QED BY <1>1, <2>1
<1> HIDE DEF m
<1>4. /\ orders' \in Seq(OrderRow) /\ Len(orders') = m + n
      /\ \A i \in 1..m + n : orders'[i] = IF i <= m THEN f[i] ELSE g[i - m]
  BY <1>2, <1>3, ConcatProperties
<1>5. DOMAIN orders' = 1..m + n
  BY <1>4, LenProperties
<1>6. 1..m + n = (1..m) \cup (m + 1 .. m + n)
  BY <1>1
<1>7. \A i \in 1..m : orders'[i] = f[i]
  BY <1>1, <1>4
<1>8. ASSUME NEW i \in m + 1 .. m + n
      PROVE  i \notin 1..m /\ i - m \in 1..n /\ orders'[i] = g[i - m]
  <2>1. i \in 1..m + n /\ ~ (i <= m) /\ i - m \in 1..n
    BY <1>1, <1>8
  <2> QED BY <1>1, <1>4, <2>1
<1> QED BY <1>1, <1>4, <1>5, <1>6, <1>7, <1>8 DEF m

\* The value of the orders around a settlement.
LEMMA Exchange ==
    ASSUME MoneyInv, NEW c \in Changes, NEW STATE owned, Completable(c, owned), Complete(c)
    PROVE  LET items == change[c].items
               p == change[c].target
               refund == SumFunctionOnSet([i \in DOMAIN orders |-> orders[i].paid], items) IN
           /\ refund \in Nat
           /\ ActiveValue' = (ActiveValue - refund) + Cardinality(items) * Price[p]
           /\ orders' \in Seq(OrderRow) /\ DOMAIN orders \subseteq DOMAIN orders'
           /\ \A i \in DOMAIN orders' :
                orders'[i].status # "active" =>
                    /\ i \in DOMAIN orders /\ orders'[i].paid = orders[i].paid
                    /\ orders'[i].status # orders[i].status =>
                            i \in items /\ orders'[i].status = "exchanged"
<1> DEFINE items == change[c].items
           p == change[c].target
           n == Cardinality(items)
           f == [i \in DOMAIN orders |->
                    IF i \in items /\ orders[i].status = "active"
                    THEN [orders[i] EXCEPT !.status = "exchanged"] ELSE orders[i]]
           row == ActiveOrder(p, c)
           g == [j \in 1..n |-> row]
           New == Len(orders) + 1 .. Len(orders) + n
           Rest == Active \ items
           Gone == Active \cap items
           Past == items \ Active
<1>1. n \in Nat /\ Price[p] \in Nat /\ p \in Plans /\ items \in SUBSET DOMAIN orders
  BY CountNat DEF MoneyInv, Books
<1>2. orders' = f \o g
  BY DEF Complete
<1>3. row \in OrderRow /\ row.status = "active" /\ row.paid = Price[p]
  BY <1>1, ActiveOrderRow DEF ActiveOrder
<1>4. /\ Len(orders) \in Nat /\ DOMAIN orders = 1..Len(orders)
      /\ \A i \in DOMAIN orders : orders[i] \in OrderRow
  BY OrdersKnown DEF MoneyInv
<1>5. /\ f \in [DOMAIN orders -> OrderRow]
      /\ \A i \in DOMAIN orders : /\ f[i].paid = orders[i].paid
                                  /\ f[i].status = IF i \in Gone THEN "exchanged" ELSE orders[i].status
  BY <1>4 DEF OrderRow, Active
<1> HIDE DEF row
<1>6. g \in [1..n -> OrderRow] /\ \A k \in 1..n : g[k] = row
  BY <1>3
<1> HIDE DEF f, g, p
<1>7. /\ orders' \in Seq(OrderRow)
      /\ DOMAIN orders' = DOMAIN orders \cup New
      /\ \A i \in DOMAIN orders : orders'[i] = f[i]
      /\ \A i \in New : i \notin DOMAIN orders /\ \E k \in 1..n : orders'[i] = g[k]
  <2>1. orders \in Seq(OrderRow)
    BY DEF MoneyInv
  <2> HIDE DEF n
  <2> QED BY <1>1, <1>2, <1>5, <1>6, <2>1, OrdersExtended
<1>8. \A i \in New : orders'[i] = row
  BY <1>6, <1>7
<1>9. IsFiniteSet(New) /\ Cardinality(New) = n
  <2> DEFINE a == Len(orders) + 1
             b == Len(orders) + n
  <2>1. a \in Int /\ b \in Int /\ (IF a > b THEN 0 ELSE b - a + 1) = n
    BY <1>1, <1>4
  <2> HIDE DEF a, b, n
  <2>2. IsFiniteSet(a..b) /\ Cardinality(a..b) = n
    BY <2>1, FS_Interval
  <2> QED BY <2>2 DEF a, b
<1> HIDE DEF New, n, items
<1>10. Active' = Rest \cup New /\ Rest \cap New = {}
  <2>1. ASSUME NEW i \in DOMAIN orders' PROVE i \in Active' <=> i \in Rest \cup New
    <3>1. CASE i \in New
      BY <1>3, <1>8, <3>1, <2>1 DEF Active
    <3>2. CASE i \in DOMAIN orders /\ i \notin New
      BY <1>5, <1>7, <3>2, <2>1 DEF Active
    <3> QED BY <1>7, <3>1, <3>2
  <2> QED BY <1>7, <2>1 DEF Active
<1>11. /\ IsFiniteSet(Rest) /\ IsFiniteSet(Gone) /\ IsFiniteSet(Past)
       /\ \A i \in DOMAIN orders : Paid[i] = orders[i].paid /\ Paid[i] \in Nat
       /\ \A i \in DOMAIN orders' : Paid'[i] = orders'[i].paid
       /\ Rest \subseteq DOMAIN orders /\ Gone \subseteq DOMAIN orders /\ Past \subseteq DOMAIN orders
  <2>1. \A S \in SUBSET DOMAIN orders :
            IsFiniteSet(S) /\ \A i \in S : Paid[i] = orders[i].paid /\ orders[i].paid \in Nat
    BY OrdersKnown DEF MoneyInv
  <2>2. Rest \in SUBSET DOMAIN orders /\ Gone \in SUBSET DOMAIN orders /\ Past \in SUBSET DOMAIN orders
    BY <1>1 DEF Active
  <2>3. \A i \in DOMAIN orders' : Paid'[i] = orders'[i].paid
    BY DEF Paid
  <2> QED BY <2>1, <2>2, <2>3
<1>12. \A i \in Past : Paid[i] = 0
  <2> SUFFICES ASSUME NEW i \in Past PROVE Paid[i] = 0
    OBVIOUS
  <2>1. i \in DOMAIN orders /\ orders[i].status \in {"exchanged", "refunded"}
    BY <1>4, <1>11 DEF OrderRow, Active
  <2>2. orders[i].status # "refunded"
    BY <2>1 DEF Completable, MoneyInv, Books
  <2>3. orders[i].paid > 0 => <<"order", i>> \in ledger
    BY <2>1, <2>2 DEF MoneyInv, Books
  <2>4. orders[i].paid > 0 => <<"order", i>> \notin ledger
    BY DEF Completable, NewEntry, items
  <2> QED BY <1>11, <2>1, <2>3, <2>4
<1> DEFINE refund == SumFunctionOnSet(Paid, items)
<1>13. refund = SumFunctionOnSet(Paid, Gone) /\ refund \in Nat
  <2>1. SumFunctionOnSet(Paid, Past) = 0
    <3>1. IsFiniteSet(Past) /\ Cardinality(Past) \in Nat
      BY <1>11, FS_CardinalityType
    <3>2. SumFunctionOnSet(Paid, Past) = Cardinality(Past) * 0
      BY <1>12, <3>1, SumConstant
    <3> QED BY <3>1, <3>2
  <2>2. items = Gone \cup Past /\ Gone \cap Past = {}
    OBVIOUS
  <2>3. SumFunctionOnSet(Paid, Gone) \in Nat
    BY <1>11, SumNat
  <2>4. SumFunctionOnSet(Paid, Gone \cup Past)
            = SumFunctionOnSet(Paid, Gone) + SumFunctionOnSet(Paid, Past)
    BY <1>11, <2>2, SumUnion
  <2> QED BY <2>1, <2>2, <2>3, <2>4
<1>14. ActiveValue = SumFunctionOnSet(Paid, Rest) + refund
  <2>1. Active = Rest \cup Gone /\ Rest \cap Gone = {}
    OBVIOUS
  <2>2. SumFunctionOnSet(Paid, Rest \cup Gone)
            = SumFunctionOnSet(Paid, Rest) + SumFunctionOnSet(Paid, Gone)
    BY <1>11, <2>1, SumUnion
  <2> QED BY <1>13, <2>1, <2>2, ActiveSum
<1>15. ActiveValue' = SumFunctionOnSet(Paid, Rest) + n * Price[p]
  <2>1. ActiveValue' = SumFunctionOnSet(Paid', Active')
    BY DEF ActiveValue, Paid
  <2>2. \A i \in New : Paid'[i] = Price[p]
    BY <1>3, <1>7, <1>8, <1>11
  <2>3. \A i \in Rest : Paid'[i] = Paid[i]
    BY <1>5, <1>7, <1>11
  <2>4. SumFunctionOnSet(Paid', New) = n * Price[p]
    BY <1>1, <1>9, <2>2, SumConstant
  <2>5. SumFunctionOnSet(Paid', Rest) = SumFunctionOnSet(Paid, Rest)
    BY <1>11, <2>3, SumSame
  <2>6. \A i \in Rest \cup New : Paid'[i] \in Int
    BY <1>1, <1>11, <2>2, <2>3
  <2>7. SumFunctionOnSet(Paid', Rest \cup New)
            = SumFunctionOnSet(Paid', Rest) + SumFunctionOnSet(Paid', New)
    BY <1>9, <1>10, <1>11, <2>6, SumUnion
  <2> QED BY <1>10, <2>1, <2>4, <2>5, <2>7
<1>16. ActiveValue' = (ActiveValue - refund) + n * Price[p]
  <2>1. SumFunctionOnSet(Paid, Rest) \in Nat
    BY <1>11, SumNat
  <2>2. n * Price[p] \in Int
    BY <1>1
  <2> HIDE DEF refund
  <2> QED BY <1>13, <1>14, <1>15, <2>1, <2>2
<1>17. ASSUME NEW i \in DOMAIN orders', orders'[i].status # "active"
       PROVE  /\ i \in DOMAIN orders /\ orders'[i].paid = orders[i].paid
              /\ orders'[i].status # orders[i].status => i \in items /\ orders'[i].status = "exchanged"
  <2>1. i \notin New
    BY <1>3, <1>8, <1>17
  <2> QED BY <1>5, <1>7, <1>17, <2>1
<1>18. refund = SumFunctionOnSet([i \in DOMAIN orders |-> orders[i].paid], items)
  BY DEF Paid
<1> HIDE DEF refund
<1> QED BY <1>7, <1>13, <1>16, <1>17, <1>18 DEF items, p, n

LEMMA CompleteMoved ==
    ASSUME MoneyInv, FundsInv, NEW c \in Changes, NEW STATE owned,
           change[c].status = "processing", Completable(c, owned), Complete(c)
    PROVE  Moved
<1> DEFINE items == change[c].items
           p == change[c].target
           cost == Cardinality(items) * Price[p]
           refund == SumFunctionOnSet([i \in DOMAIN orders |-> orders[i].paid], items)
           row == [change[c] EXCEPT !.status = "succeeded", !.saga = "settled", !.fund = "settled"]
           back == UNION {Enter(<<"order", i>>, orders[i].paid) : i \in items}
<1>1. /\ change' = [change EXCEPT ![c] = row]
      /\ balance' = balance + change[c].reserve - cost + refund
      /\ ledger' = ledger \cup Enter(<<"release", c>>, change[c].reserve) \cup back
  BY DEF Complete
<1>2. /\ refund \in Nat
      /\ ActiveValue' = (ActiveValue - refund) + cost
      /\ orders' \in Seq(OrderRow) /\ DOMAIN orders \subseteq DOMAIN orders'
      /\ \A i \in DOMAIN orders' :
            orders'[i].status # "active" =>
                /\ i \in DOMAIN orders /\ orders'[i].paid = orders[i].paid
                /\ orders'[i].status # orders[i].status =>
                        i \in items /\ orders'[i].status = "exchanged"
  BY Exchange
<1>3. /\ row \in ChangeRow /\ row.fund = "settled" /\ row.items = items
      /\ row.target = p /\ row.reserve = change[c].reserve
  BY DEF MoneyInv, ChangeRow
<1>4. change[c].reserve = cost /\ cost \in Nat /\ balance \in Nat /\ ActiveValue \in Nat
  <2>1. change[c].reserve = cost /\ change[c].reserve \in Nat
    BY CountNat DEF MoneyInv, Books
  <2> QED BY <2>1, ActiveNat DEF MoneyInv
<1>5. items \subseteq DOMAIN orders /\ DOMAIN orders \subseteq Nat /\ Usable
  BY OrdersKnown DEF MoneyInv, Books, Completable
<1>6. \A i \in items : orders[i].paid > 0 => <<"order", i>> \in back
  BY DEF Enter
<1>7. back \subseteq Entries /\ Enter(<<"release", c>>, change[c].reserve) \subseteq Entries
  BY <1>5 DEF Enter, Entries
<1> HIDE DEF row, back, refund, cost
<1>8. balance' = balance + refund /\ balance' \in Nat
  BY <1>1, <1>2, <1>4
<1>9. MoneyInv'
  <2>1. change' \in [Changes -> ChangeRow]
    BY <1>1, <1>3 DEF MoneyInv
  <2>2. \A d \in Changes : /\ change'[d].items = change[d].items
                           /\ change'[d].target = change[d].target
                           /\ change'[d].reserve = change[d].reserve
    BY <1>1, <1>3 DEF MoneyInv
  <2>3. \A d \in Changes :
            /\ change'[d].items \subseteq DOMAIN orders'
            /\ change'[d].reserve = Cardinality(change'[d].items) * Price[change'[d].target]
    <3>1. \A d \in Changes :
            /\ change[d].items \subseteq DOMAIN orders
            /\ change[d].reserve = Cardinality(change[d].items) * Price[change[d].target]
      BY DEF MoneyInv, Books
    <3> QED BY <1>2, <2>2, <3>1
  <2>4. ASSUME NEW i \in DOMAIN orders'
        PROVE  /\ orders'[i].status = "exchanged" /\ orders'[i].paid > 0 => <<"order", i>> \in ledger'
               /\ orders'[i].status # "refunded"
    <3>1. \A j \in DOMAIN orders :
            /\ orders[j].status = "exchanged" /\ orders[j].paid > 0 => <<"order", j>> \in ledger
            /\ orders[j].status # "refunded"
      BY <1>5 DEF MoneyInv, Books
    <3> QED BY <1>1, <1>2, <1>6, <3>1
  <2>5. ledger' \subseteq Entries
    BY <1>1, <1>7 DEF MoneyInv
  <2> QED BY <1>2, <1>8, <2>1, <2>3, <2>4, <2>5 DEF MoneyInv, Books
<1>10. /\ SalePhase' = [SalePhase EXCEPT ![c] = PhaseOf(row.fund)]
       /\ SalePhase[c] = PhaseOf(change[c].fund)
       /\ Escrow' = [Escrow EXCEPT ![c] = EscrowOf(row)] /\ Escrow[c] = EscrowOf(change[c])
  BY <1>1, SaleStep DEF MoneyInv
<1>11. Held(change[c])
  BY DEF FundsInv, WellFormed, FundStates, Held
<1>12. /\ PhaseOf(row.fund) = "charged" /\ PhaseOf(change[c].fund) = "held"
       /\ EscrowOf(row) = 0 /\ EscrowOf(change[c]) = cost
  BY <1>3, <1>4, <1>11 DEF PhaseOf, EscrowOf, Held
<1>13. Escrow'[c] = 0 /\ \A d \in Changes \ {c} : Escrow'[d] = Escrow[d]
  BY <1>10, <1>12 DEF Escrow
<1>14. /\ SalePhase[c] = "held" /\ SalePhase' = [SalePhase EXCEPT ![c] = "charged"]
       /\ balance' + ActiveValue' = balance + ActiveValue + Escrow[c] /\ balance' >= 0
  BY <1>2, <1>4, <1>8, <1>10, <1>12
<1>15. Sale!Charge(c)
  BY <1>13, <1>14 DEF Sale!Charge, Sale!Move, Escrow, EscrowOf
<1> QED BY <1>9, <1>15 DEF Moved, Sale!Next

LEMMA MarkBlockedMoved ==
    ASSUME MoneyInv, FundsInv, NEW c, MarkBlocked(c), Usable' => Usable PROVE Moved
<1> DEFINE row == Blocked(change[c])
<1>1. change' = [change EXCEPT ![c] = row] /\ UNCHANGED money
  BY DEF MarkBlocked
<1>2. c \in Changes =>
        /\ row \in ChangeRow
        /\ row.items = change[c].items /\ row.target = change[c].target
        /\ row.reserve = change[c].reserve
  BY DEF MoneyInv, ChangeRow, Blocked, Verifying
<1>3. c \in Changes => (Held(change[c]) /\ Held(row)) \/ row.fund = change[c].fund
  <2>1. CASE c \in Changes /\ change[c].status = "processing"
    <3>1. Held(change[c])
      BY <2>1 DEF FundsInv, WellFormed, FundStates, Held
    <3>2. row.fund = "blocked"
      BY <2>1 DEF Blocked, Verifying, MoneyInv, ChangeRow
    <3> QED BY <3>1, <3>2 DEF Held
  <2>2. CASE change[c].status # "processing"
    BY <2>2 DEF Blocked
  <2> QED BY <2>1, <2>2
<1> HIDE DEF row
<1> QED BY <1>1, <1>2, <1>3, RowMoved

LEMMA TryFailMoved ==
    ASSUME MoneyInv, FundsInv, NEW c \in Changes, TryFail(c), Usable' => Usable PROVE Moved
<1>1. CASE change[c].status = "processing" /\ ReleaseFunds(c, "fail")
  <2>1. Held(change[c])
    BY <1>1 DEF FundsInv, WellFormed, FundStates, Held
  <2> QED BY <1>1, <2>1, ReleaseMoved
<1>2. CASE UNCHANGED <<change, money>>
  BY <1>2, StillMoved
<1> QED BY <1>1, <1>2 DEF TryFail, failPlanChange

LEMMA CancelMoved ==
    ASSUME MoneyInv, FundsInv, NEW c \in Changes, cancelPlanChangeSettlementTx(c), Usable' => Usable,
           change[c].status \in {"processing", "needs_review"} \/ change[c].saga = "compensating"
    PROVE  Moved
<1>1. Held(change[c])
  BY DEF FundsInv, WellFormed, FundStates, Held
<1>2. CASE ReleaseFunds(c, "cancel")
  BY <1>1, <1>2, ReleaseMoved
<1>3. CASE UNCHANGED <<change, money>>
  BY <1>3, StillMoved
<1> QED BY <1>2, <1>3 DEF cancelPlanChangeSettlementTx

LEMMA CompletionMoved ==
    ASSUME MoneyInv, FundsInv, NEW c \in Changes, NEW STATE owned, NEW ACTION done, NEW ACTION error,
           completePlanChange(c, owned, done, error)
    PROVE  Moved
<1>1. CASE UNCHANGED <<change, money, inst>>
  BY <1>1, StillMoved DEF Usable
<1>2. CASE change[c].status = "processing" /\ Completable(c, owned) /\ Complete(c)
  BY <1>2, CompleteMoved
<1>3. CASE MarkBlocked(c) /\ inst' = inst
  BY <1>3, MarkBlockedMoved DEF Usable
<1> QED BY <1>1, <1>2, <1>3 DEF completePlanChange

AllInv == TypeInv /\ FundsInv /\ MoneyInv

LEMMA UserMoved == ASSUME AllInv, User PROVE Moved
<1> USE DEF AllInv
<1>1. ASSUME NEW c \in Changes, CancelObserved(c) PROVE Moved
  <2>1. /\ cancelPlanChangeSettlementTx(c) /\ inst' = inst
        /\ change[c].status \in {"processing", "needs_review"}
    BY <1>1 DEF CancelObserved, Cancellable
  <2> QED BY <2>1, CancelMoved DEF Usable
<1>2. ASSUME NEW c \in Changes, RequestCompensation(c) PROVE Moved
  <2> DEFINE row == [change[c] EXCEPT !.status = "needs_review", !.saga = "compensating",
                                      !.fund = "reserved"]
  <2>1. change' = [change EXCEPT ![c] = row] /\ UNCHANGED money /\ inst' = inst
    BY <1>2 DEF RequestCompensation
  <2>2. /\ row \in ChangeRow /\ row.fund = "reserved"
        /\ row.items = change[c].items /\ row.target = change[c].target
        /\ row.reserve = change[c].reserve
    BY DEF MoneyInv, ChangeRow
  <2>3. Held(change[c])
    BY <1>2 DEF RequestCompensation, Cancellable, FundsInv, WellFormed, FundStates, Held
  <2> HIDE DEF row
  <2>4. Held(row)
    BY <2>2 DEF Held
  <2> QED BY <2>1, <2>2, <2>3, <2>4, RowMoved DEF Usable
<1>3. ASSUME NEW c \in Changes, NEW p \in Plans, createPlanChange(c, p) PROVE Moved
  BY <1>3, CreateMoved DEF TypeInv
<1>4. ASSUME NEW i \in DOMAIN orders, renewWithWallet(i) PROVE Moved
  BY <1>4, RenewMoved
<1>5. CASE refundOrder
  BY <1>5, RefundMoved
<1>6. CASE NewerIntent
  BY <1>6, StillMoved DEF NewerIntent, Usable
<1> QED BY <1>1, <1>2, <1>3, <1>4, <1>5, <1>6 DEF User

LEMMA HandlerMoved == ASSUME AllInv, NEW h \in Handlers, Handler(h) PROVE Moved
<1> USE DEF AllInv
<1>0. handler[h].pc # "idle" => handler[h].task[2] \in Changes
  BY TaskNames DEF TypeInv, ControlInv, HandlersInv
<1>1. CASE \/ \E k \in Tasks : claimTask(h, k)
           \/ CallAgent(h) \/ AgentApplies(h) \/ AgentAnswers(h) \/ AgentFails(h)
           \/ finishTask(h) \/ Crash(h)
  <2>1. UNCHANGED <<change, money, inst>>
    BY <1>1 DEF claimTask, CallAgent, AgentApplies, AgentAnswers, AgentFails, finishTask, Crash
  <2> QED BY <2>1, StillMoved DEF Usable
<1>2. CASE SettleResize(h)
  BY <1>0, <1>2, CompletionMoved DEF SettleResize
<1>3. CASE SettleCompensation(h)
  <2> DEFINE c == handler[h].task[2]
  <2>1. c \in Changes
    BY <1>0, <1>3 DEF SettleCompensation
  <2>2. inst' = inst \/ inst' = [inst EXCEPT !.size = change[c].source]
    BY <1>3 DEF SettleCompensation
  <2>3. Usable' => Usable
    BY <2>1, <2>2, RowOf, InstSized DEF Usable, TypeInv
  <2>4. CASE change[c].saga = "compensating" /\ cancelPlanChangeSettlementTx(c)
    BY <2>1, <2>3, <2>4, CancelMoved
  <2>5. CASE MarkBlocked(c)
    BY <2>1, <2>3, <2>5, MarkBlockedMoved
  <2> QED BY <1>3, <2>4, <2>5 DEF SettleCompensation
<1>4. CASE markResizeTaskObserving(h)
  <2>1. inst' = inst
    BY <1>4 DEF markResizeTaskObserving
  <2> QED BY <1>4, <2>1, MarkBlockedMoved, StillMoved DEF markResizeTaskObserving, Usable
<1>5. CASE failDeployment(h)
  <2>1. inst' = inst /\ handler[h].task[2] \in Changes
    BY <1>0, <1>5 DEF failDeployment
  <2> QED BY <1>5, <2>1, TryFailMoved, StillMoved DEF failDeployment, Usable
<1> QED BY <1>1, <1>2, <1>3, <1>4, <1>5 DEF Handler

\* What stays of a row that is observed, resumed or blocked.
SameDeal(r, s) == s \in ChangeRow /\ s.items = r.items /\ s.target = r.target /\ s.reserve = r.reserve

LEMMA RowsAlike ==
    ASSUME NEW r \in ChangeRow, NEW o \in Sizes
    PROVE  /\ SameDeal(r, [r EXCEPT !.observed = o]) /\ [r EXCEPT !.observed = o].fund = r.fund
           /\ SameDeal(r, [r EXCEPT !.status = "processing"])
           /\ [r EXCEPT !.status = "processing"].fund = r.fund
           /\ SameDeal(r, Blocked(r))
BY DEF SameDeal, ChangeRow, Blocked, Verifying

LEMMA LoopMoved == ASSUME AllInv, Loop PROVE Moved
<1> USE DEF AllInv
<1>0. loop.pc # "idle" => loop.change \in Changes
  BY DEF TypeInv, ControlInv, LoopInv
<1>1. CASE \/ \E k \in Tasks : recoverExpiredTaskLeases(k)
           \/ \E c \in Changes : reconcileBlockedPlanChanges(c)
           \/ CloseTask \/ LoopCrash
  <2>1. UNCHANGED <<change, money, inst>>
    BY <1>1 DEF recoverExpiredTaskLeases, reconcileBlockedPlanChanges, CloseTask, LoopCrash
  <2> QED BY <2>1, StillMoved DEF Usable
<1>2. CASE Inspect
  <2> DEFINE c == loop.change
             b == Blocked(change[c])
             seen == [change[c] EXCEPT !.observed = container]
             odd == [b EXCEPT !.observed = container]
  <2>1. c \in Changes /\ container \in Sizes /\ inst' = inst /\ UNCHANGED money
    BY <1>0, <1>2 DEF Inspect, TypeInv, SizesInv
  <2>2. change' = [change EXCEPT ![c] = seen] \/ change' = [change EXCEPT ![c] = odd]
    BY <1>2 DEF Inspect
  <2>0. change[c] \in ChangeRow
    BY <2>1 DEF MoneyInv
  <2>3. SameDeal(change[c], b)
    BY <2>0, <2>1, RowsAlike
  <2>4. (Held(change[c]) /\ Held(b)) \/ b.fund = change[c].fund
    <3>1. CASE change[c].status = "processing"
      <4>1. Held(change[c])
        BY <2>1, <3>1 DEF FundsInv, WellFormed, FundStates, Held
      <4>2. b.fund = "blocked"
        BY <2>1, <3>1 DEF Blocked, Verifying, MoneyInv, ChangeRow
      <4> QED BY <4>1, <4>2 DEF Held
    <3>2. CASE change[c].status # "processing"
      BY <3>2 DEF Blocked
    <3> QED BY <3>1, <3>2
  <2> HIDE DEF b
  <2>5. SameDeal(b, odd) /\ odd.fund = b.fund
    BY <2>1, <2>3, RowsAlike DEF SameDeal
  <2>6. SameDeal(change[c], seen) /\ seen.fund = change[c].fund
    BY <2>0, <2>1, RowsAlike
  <2>7. Held(odd) <=> Held(b)
    BY <2>5 DEF Held
  <2> HIDE DEF odd, seen
  <2>8. CASE change' = [change EXCEPT ![c] = seen]
    BY <2>1, <2>6, <2>8, RowMoved DEF Usable, SameDeal
  <2>9. CASE change' = [change EXCEPT ![c] = odd]
    BY <2>1, <2>3, <2>4, <2>5, <2>7, <2>9, RowMoved DEF Usable, SameDeal
  <2> QED BY <2>2, <2>8, <2>9
<1>3. CASE InspectFails
  BY <1>3, MarkBlockedMoved DEF InspectFails, Usable
<1>4. CASE resumeBlockedPlanChange
  <2> DEFINE c == loop.change
             row == [change[c] EXCEPT !.status = "processing"]
  <2>1. c \in Changes /\ inst' = inst /\ UNCHANGED money
    BY <1>0, <1>4 DEF resumeBlockedPlanChange
  <2>2. change' = [change EXCEPT ![c] = row] \/ change' = change
    BY <1>4 DEF resumeBlockedPlanChange
  <2>3. change[c] \in ChangeRow /\ \E o \in Sizes : TRUE
    BY <2>1 DEF MoneyInv, TypeInv, SizesInv
  <2>4. SameDeal(change[c], row) /\ row.fund = change[c].fund
    BY <2>3, RowsAlike
  <2> HIDE DEF row
  <2> QED BY <2>1, <2>2, <2>4, RowMoved, StillMoved DEF Usable, SameDeal
<1>5. CASE SettleTarget
  BY <1>0, <1>5, CompletionMoved DEF SettleTarget
<1>6. CASE SettleSource
  BY <1>0, <1>6, TryFailMoved DEF SettleSource, Usable
<1> QED BY <1>1, <1>2, <1>3, <1>4, <1>5, <1>6 DEF Loop

LEMMA NextMoved == ASSUME AllInv, [Next]_vars PROVE Moved
<1>1. CASE User
  BY <1>1, UserMoved
<1>2. CASE \E h \in Handlers : Handler(h)
  BY <1>2, HandlerMoved
<1>3. CASE Loop
  BY <1>3, LoopMoved
<1>4. ASSUME NEW k \in Tasks, retryTask(k) \/ resumeReviewTask(k) PROVE Moved
  <2>1. UNCHANGED <<change, money, inst>>
    BY <1>4 DEF retryTask, resumeReviewTask
  <2> QED BY <2>1, StillMoved DEF Usable, AllInv
<1>5. ASSUME NEW k \in Tasks, discardReviewTask(k) PROVE Moved
  <2>1. k[2] \in Changes /\ inst' = inst
    BY <1>5, TaskNames DEF discardReviewTask
  <2> QED BY <1>5, <2>1, TryFailMoved, MarkBlockedMoved DEF discardReviewTask, Usable, AllInv
<1>6. CASE \/ \E k \in Tasks : LeaseExpires(k)
           \/ \E size \in Sizes : LateApply(size)
           \/ UNCHANGED vars
  <2>1. UNCHANGED <<change, money, inst>>
    BY <1>6 DEF LeaseExpires, LateApply, vars
  <2> QED BY <2>1, StillMoved DEF Usable, AllInv
<1> QED BY <1>1, <1>2, <1>3, <1>4, <1>5, <1>6 DEF Next, Administrator

LEMMA InitAll == ASSUME Init PROVE AllInv /\ Sale!Init
<1>1. FirstPlan \in Plans /\ Price[FirstPlan] \in Nat /\ Resources[FirstPlan] \in Sizes /\ Funds \in Nat
  BY PlanChangeAssumption, PriceNat, SizeOfPlan DEF PlanChangeAssumption
<1> DEFINE row == ActiveOrder(FirstPlan, None)
<1>2. row \in OrderRow /\ row.status = "active" /\ row.paid = Price[FirstPlan]
  BY <1>1, ActiveOrderRow DEF ActiveOrder
<1>3. /\ orders = <<row>> /\ orders \in Seq(OrderRow) /\ DOMAIN orders = {1} /\ orders[1] = row
      /\ Active = {1}
  <2>1. orders = <<row>>
    BY DEF Init
  <2> HIDE DEF row
  <2>2. orders \in Seq(OrderRow) /\ DOMAIN orders = {1} /\ orders[1] = row
    BY <1>2, <2>1
  <2> QED BY <1>2, <2>1, <2>2 DEF Active
<1> HIDE DEF row
<1>4. NoChange \in ChangeRow /\ NoChange.items = {} /\ NoChange.reserve = 0 /\ NoChange.fund = "none"
      /\ NoChange.target = FirstPlan
  BY <1>1 DEF NoChange, ChangeRow
<1>5. MoneyInv
  <2>1. Cardinality({}) * Price[FirstPlan] = 0
    BY <1>1, FS_EmptySet
  <2>2. \A c \in Changes : change[c] = NoChange
    BY DEF Init
  <2>3. Books
    BY <1>2, <1>3, <1>4, <2>1, <2>2 DEF Books
  <2> QED BY <1>1, <1>3, <1>4, <2>3 DEF Init, MoneyInv
<1>6. TypeInv
  <2>1. TasksInv
    BY PlanChangeAssumption DEF Init, TasksInv, TaskRow, TaskStatus, PlanChangeAssumption
  <2>2. HandlersInv
    BY DEF Init, HandlersInv, HandlerRow, IdleHandler
  <2>3. LoopInv /\ SizesInv
    BY <1>1 DEF Init, LoopInv, LoopRow, IdleLoop, SizesInv
  <2> QED BY <1>5, <2>1, <2>2, <2>3 DEF TypeInv, ControlInv, MoneyInv
<1>7. ActiveValue = Price[FirstPlan]
  <2>1. Paid[1] = Price[FirstPlan]
    BY <1>2, <1>3 DEF Paid
  <2>2. SumFunctionOnSet(Paid, {1}) = Paid[1]
    BY <1>1, <2>1, SumSingleton
  <2> QED BY <1>3, <2>1, <2>2, ActiveSum
<1>8. Sale!Init
  <2>1. \A c \in Changes : change[c].fund = "none"
    BY <1>4 DEF Init
  <2> QED BY <1>1, <1>7, <2>1 DEF Sale!Init, SalePhase, Held, Init
<1> QED BY <1>5, <1>6, <1>8, InitFunds DEF AllInv

LEMMA AllKept == ASSUME AllInv, [Next]_vars PROVE AllInv'
<1>1. ControlInv' /\ SizesInv'
  BY ControlTypes DEF AllInv
<1>2. MoneyInv'
  BY NextMoved DEF Moved
<1>3. FundsInv'
  BY NextStep DEF AllInv, Preserved
<1> QED BY <1>1, <1>2, <1>3 DEF AllInv, TypeInv, MoneyInv

LEMMA AllAlways == Spec => []AllInv
<1>1. Init => AllInv
  BY InitAll
<1>2. AllInv /\ [Next]_vars => AllInv'
  BY AllKept
<1> QED BY <1>1, <1>2, PTL DEF Spec

\* Every reachable state is well typed; in particular the wallet is never
\* overdrawn.
THEOREM TypeCorrect == Spec => []TypeOK
<1>1. AllInv => TypeOK
  BY DEF AllInv, TypeInv, ControlInv, TasksInv, HandlersInv, LoopInv, SizesInv, MoneyInv, TypeOK
<1> QED BY <1>1, AllAlways, PTL

\* The saga implements the sale: whatever handlers, loop, nodes, users and
\* administrators do, wallet, orders and reservations of the instance only move
\* as PlanSale allows.
THEOREM MoneyCorrect == Spec => MoneyConserved
<1>1. Init => Sale!Init
  BY InitAll
<1>2. AllInv /\ [Next]_vars => [Sale!Next]_(Sale!vars)
  BY NextMoved DEF Moved
<1> QED BY <1>1, <1>2, AllAlways, PTL DEF Spec, MoneyConserved, Sale!Spec
-----------------------------------------------------------------------------
(* Resources.                                                              *)

\* The course of fund_status.
Later(fund) ==
    CASE fund = "pending"  -> {"pending", "blocked", "reserved", "settled", "released"}
      [] fund = "blocked"  -> {"blocked", "reserved", "settled", "released"}
      [] fund = "reserved" -> {"reserved", "released"}
      [] OTHER             -> {fund}

\* What a step leaves of a change, unless it makes it.
Follows(r, s) ==
    /\ s.source = r.source /\ s.target = r.target /\ s.items = r.items
    /\ s.fund \in Later(r.fund)

LEMMA FollowsItself == ASSUME NEW r PROVE Follows(r, r)
BY DEF Follows, Later

LEMMA FollowsRow ==
    ASSUME AllInv, NEW d, NEW STATE row, change' = [change EXCEPT ![d] = row],
           d \in Changes => Follows(change[d], row)
    PROVE  \A c \in Changes : Follows(change[c], change'[c])
BY FollowsItself DEF AllInv, TypeInv

LEMMA RowFields ==
    ASSUME NEW r \in ChangeRow
    PROVE  /\ r.status = "processing" /\ r.fund \in {"pending", "blocked"} => Follows(r, Blocked(r))
           /\ r.status # "processing" => Blocked(r) = r
           /\ \A o : Follows(r, [r EXCEPT !.observed = o])
           /\ Follows(r, [r EXCEPT !.status = "processing"])
           /\ r.fund \in {"pending", "blocked", "reserved"} => Follows(r, Released(r))
           /\ r.fund \in {"pending", "blocked"} =>
                /\ Follows(r, [r EXCEPT !.status = "needs_review", !.saga = "compensating",
                                        !.fund = "reserved"])
                /\ Follows(r, [r EXCEPT !.status = "succeeded", !.saga = "settled", !.fund = "settled"])
<1>1. Follows(r, [r EXCEPT !.status = "processing"]) /\ \A o : Follows(r, [r EXCEPT !.observed = o])
  BY DEF Follows, Later, ChangeRow
<1>2. r.fund \in {"pending", "blocked", "reserved"} => Follows(r, Released(r))
  BY DEF Follows, Later, ChangeRow, Released
<1>3. r.status = "processing" /\ r.fund \in {"pending", "blocked"} => Follows(r, Blocked(r))
  BY DEF Follows, Later, ChangeRow, Blocked, Verifying
<1>4. r.fund \in {"pending", "blocked"} =>
        /\ Follows(r, [r EXCEPT !.status = "needs_review", !.saga = "compensating",
                                !.fund = "reserved"])
        /\ Follows(r, [r EXCEPT !.status = "succeeded", !.saga = "settled", !.fund = "settled"])
  BY DEF Follows, Later, ChangeRow
<1>5. r.status # "processing" => Blocked(r) = r
  BY DEF Blocked
<1> QED BY <1>1, <1>2, <1>3, <1>4, <1>5

LEMMA Funds3 ==
    ASSUME AllInv, NEW c \in Changes
    PROVE  /\ change[c] \in ChangeRow
           /\ change[c].status = "processing" => change[c].fund \in {"pending", "blocked"}
           /\ change[c].status \in {"processing", "needs_review"} /\ change[c].saga # "compensating" =>
                change[c].fund \in {"pending", "blocked"}
           /\ change[c].saga = "compensating" => change[c].fund = "reserved"
           /\ change[c].status = "none" <=> change[c].fund = "none"
BY DEF AllInv, FundsInv, WellFormed, FundStates, TypeInv

AllFollow == \A c \in Changes : Follows(change[c], change'[c])

LEMMA SameFollow == ASSUME change' = change PROVE AllFollow
BY FollowsItself DEF AllFollow

LEMMA MarkFollow == ASSUME AllInv, NEW d \in Changes, MarkBlocked(d) PROVE AllFollow
<1>1. Follows(change[d], Blocked(change[d]))
  BY Funds3, RowFields, FollowsItself
<1> QED BY <1>1, FollowsRow DEF MarkBlocked, AllFollow

LEMMA ReleaseFollow ==
    ASSUME AllInv, NEW d \in Changes, change[d].fund \in {"pending", "blocked", "reserved"},
           NEW key, ReleaseFunds(d, key)
    PROVE  AllFollow
<1>1. Follows(change[d], Released(change[d]))
  BY Funds3, RowFields
<1> QED BY <1>1, FollowsRow DEF ReleaseFunds, AllFollow

LEMMA TryFailFollow == ASSUME AllInv, NEW d \in Changes, TryFail(d) PROVE AllFollow
<1>1. CASE change[d].status = "processing" /\ ReleaseFunds(d, "fail")
  BY <1>1, Funds3, ReleaseFollow
<1>2. CASE change' = change
  BY <1>2, SameFollow
<1> QED BY <1>1, <1>2 DEF TryFail, failPlanChange

LEMMA CancelFollow ==
    ASSUME AllInv, NEW d \in Changes, cancelPlanChangeSettlementTx(d),
           change[d].fund \in {"pending", "blocked", "reserved"}
    PROVE  AllFollow
<1>1. CASE ReleaseFunds(d, "cancel")
  BY <1>1, ReleaseFollow
<1>2. CASE change' = change
  BY <1>2, SameFollow
<1> QED BY <1>1, <1>2 DEF cancelPlanChangeSettlementTx

LEMMA CompletionFollow ==
    ASSUME AllInv, NEW d \in Changes, NEW STATE owned, NEW ACTION done, NEW ACTION error,
           completePlanChange(d, owned, done, error)
    PROVE  AllFollow
<1>1. CASE change' = change
  BY <1>1, SameFollow
<1>2. CASE change[d].status = "processing" /\ Complete(d)
  <2> DEFINE row == [change[d] EXCEPT !.status = "succeeded", !.saga = "settled", !.fund = "settled"]
  <2>1. Follows(change[d], row)
    BY <1>2, Funds3, RowFields
  <2>2. change' = [change EXCEPT ![d] = row]
    BY <1>2 DEF Complete
  <2> HIDE DEF row
  <2> QED BY <2>1, <2>2, FollowsRow DEF AllFollow
<1>3. CASE MarkBlocked(d)
  BY <1>3, MarkFollow
<1> QED BY <1>1, <1>2, <1>3 DEF completePlanChange

LEMMA NextFollows ==
    ASSUME AllInv, [Next]_vars
    PROVE  AllFollow \/ \E c \in Changes, p \in Plans : createPlanChange(c, p)
<1>0. /\ loop.pc # "idle" => loop.change \in Changes
      /\ \A h \in Handlers : handler[h].pc # "idle" => handler[h].task[2] \in Changes
      /\ \A k \in Tasks : k[2] \in Changes
  BY TaskNames DEF AllInv, TypeInv, ControlInv, LoopInv, HandlersInv
<1>1. CASE \/ \E i \in DOMAIN orders : renewWithWallet(i)
           \/ refundOrder \/ NewerIntent
           \/ \E h \in Handlers :
                \/ \E k \in Tasks : claimTask(h, k)
                \/ CallAgent(h) \/ AgentApplies(h) \/ AgentAnswers(h) \/ AgentFails(h)
                \/ finishTask(h) \/ Crash(h)
           \/ \E k \in Tasks : \/ recoverExpiredTaskLeases(k) \/ retryTask(k) \/ resumeReviewTask(k)
                               \/ LeaseExpires(k)
           \/ \E c \in Changes : reconcileBlockedPlanChanges(c)
           \/ CloseTask \/ LoopCrash \/ (\E size \in Sizes : LateApply(size)) \/ UNCHANGED vars
  <2>1. change' = change
    BY <1>1 DEF renewWithWallet, refundOrder, NewerIntent, claimTask, CallAgent, AgentApplies,
          AgentAnswers, AgentFails, finishTask, Crash, recoverExpiredTaskLeases, retryTask,
          resumeReviewTask, LeaseExpires, reconcileBlockedPlanChanges, CloseTask, LoopCrash,
          LateApply, vars
  <2> QED BY <2>1, SameFollow
<1>2. ASSUME NEW c \in Changes, CancelObserved(c) PROVE AllFollow
  BY <1>2, Funds3, CancelFollow DEF CancelObserved, Cancellable
<1>3. ASSUME NEW c \in Changes, RequestCompensation(c) PROVE AllFollow
  <2> DEFINE row == [change[c] EXCEPT !.status = "needs_review", !.saga = "compensating",
                                      !.fund = "reserved"]
  <2>1. Follows(change[c], row)
    BY <1>3, Funds3, RowFields DEF RequestCompensation, Cancellable
  <2>2. change' = [change EXCEPT ![c] = row]
    BY <1>3 DEF RequestCompensation
  <2> HIDE DEF row
  <2> QED BY <2>1, <2>2, FollowsRow DEF AllFollow
<1>4. ASSUME NEW h \in Handlers, SettleResize(h) PROVE AllFollow
  BY <1>0, <1>4, CompletionFollow DEF SettleResize
<1>5. ASSUME NEW h \in Handlers, SettleCompensation(h) PROVE AllFollow
  <2>1. handler[h].task[2] \in Changes
    BY <1>0, <1>5 DEF SettleCompensation
  <2> QED BY <1>5, <2>1, Funds3, CancelFollow, MarkFollow DEF SettleCompensation
<1>6. ASSUME NEW h \in Handlers, markResizeTaskObserving(h) \/ failDeployment(h) PROVE AllFollow
  BY <1>0, <1>6, MarkFollow, TryFailFollow, SameFollow DEF markResizeTaskObserving, failDeployment
<1>7. ASSUME NEW k \in Tasks, discardReviewTask(k) PROVE AllFollow
  BY <1>0, <1>7, MarkFollow, TryFailFollow DEF discardReviewTask
<1>8. CASE Inspect
  <2> DEFINE c == loop.change
             b == Blocked(change[c])
             seen == [change[c] EXCEPT !.observed = container]
             odd == [b EXCEPT !.observed = container]
  <2>1. c \in Changes /\ (change' = [change EXCEPT ![c] = seen] \/ change' = [change EXCEPT ![c] = odd])
    BY <1>0, <1>8 DEF Inspect
  <2>2. Follows(change[c], seen)
    BY <2>1, Funds3, RowFields
  <2>3. b \in ChangeRow /\ Follows(change[c], b)
    BY <1>8, <2>1, Funds3, RowFields, RowsAlike, FollowsItself DEF SameDeal, AllInv, TypeInv, SizesInv
  <2> HIDE DEF b
  <2>4. /\ odd.source = b.source /\ odd.target = b.target /\ odd.items = b.items /\ odd.fund = b.fund
    BY <2>3 DEF ChangeRow
  <2>5. Follows(change[c], odd)
    BY <2>3, <2>4 DEF Follows
  <2> HIDE DEF odd, seen, c
  <2> QED BY <2>1, <2>2, <2>5, FollowsRow DEF AllFollow
<1>9. CASE InspectFails
  BY <1>0, <1>9, MarkFollow DEF InspectFails
<1>10. CASE resumeBlockedPlanChange
  <2> DEFINE c == loop.change
             row == [change[c] EXCEPT !.status = "processing"]
  <2>1. c \in Changes /\ (change' = [change EXCEPT ![c] = row] \/ change' = change)
    BY <1>0, <1>10 DEF resumeBlockedPlanChange
  <2>2. Follows(change[c], row)
    BY <2>1, Funds3, RowFields
  <2> HIDE DEF row, c
  <2> QED BY <2>1, <2>2, FollowsRow, SameFollow DEF AllFollow
<1>11. CASE SettleTarget \/ SettleSource
  BY <1>0, <1>11, CompletionFollow, TryFailFollow DEF SettleTarget, SettleSource
<1> QED BY <1>1, <1>2, <1>3, <1>4, <1>5, <1>6, <1>7, <1>8, <1>9, <1>10, <1>11
        DEF Next, User, Handler, Loop, Administrator

\* What a step of handler h does to the handlers.
Moves(h, pc, err) ==
    /\ handler'[h].pc = pc
    /\ pc # "idle" => handler'[h].err = err /\ handler'[h].task = handler[h].task
    /\ \A g \in Handlers \ {h} : handler'[g] = handler[g]

LEMMA GotoMoves ==
    ASSUME HandlersInv, NEW h \in Handlers, NEW pc, NEW err, Goto(h, pc, err)
    PROVE  Moves(h, pc, err)
<1>1. handler[h] \in HandlerRow
  BY DEF HandlersInv
<1> DEFINE f == [handler EXCEPT ![h].pc = pc]
<1>2. /\ f[h] = [pc |-> pc, task |-> handler[h].task, err |-> handler[h].err]
      /\ DOMAIN f = Handlers /\ \A g \in Handlers \ {h} : f[g] = handler[g]
  BY <1>1 DEF HandlersInv, HandlerRow
<1>3. handler' = [f EXCEPT ![h].err = err]
  BY DEF Goto
<1> HIDE DEF f
<1>4. handler'[h] = [f[h] EXCEPT !.err = err] /\ \A g \in Handlers \ {h} : handler'[g] = f[g]
  BY <1>2, <1>3
<1>5. handler'[h] = [pc |-> pc, task |-> handler[h].task, err |-> err]
  BY <1>2, <1>4
<1> QED BY <1>2, <1>4, <1>5 DEF Moves

LEMMA LeaveMoves ==
    ASSUME HandlersInv, NEW h \in Handlers, NEW err, Leave(h) PROVE Moves(h, "idle", err)
BY DEF Moves, Leave, HandlersInv, IdleHandler

\* Where a handler goes from where.
LEMMA HandlerGoes ==
    ASSUME HandlersInv, NEW h \in Handlers, Handler(h), ~ \E k \in Tasks : claimTask(h, k)
    PROVE  /\ handler[h].pc # "idle"
           /\ \E pc \in Places, err \in Errors :
                /\ Moves(h, pc, err)
                /\ \/ handler[h].pc = "claimed" /\ pc \in {"called", "finishing"} /\ CallAgent(h)
                   \/ handler[h].pc = "called" /\ pc = "applied" /\ AgentApplies(h)
                   \/ handler[h].pc = "applied" /\ pc = "settling" /\ AgentAnswers(h)
                   \/ handler[h].pc \in {"called", "applied"} /\ pc = "finishing" /\ AgentFails(h)
                   \/ handler[h].pc = "settling" /\ pc = "finishing" /\ SettleResize(h)
                   \/ handler[h].pc = "settling" /\ pc = "finishing" /\ SettleCompensation(h)
                   \/ handler[h].pc = "finishing" /\ pc \in {"idle", "observing"} /\ finishTask(h)
                   \/ handler[h].pc = "observing" /\ pc = "giving_up" /\ markResizeTaskObserving(h)
                   \/ handler[h].pc = "giving_up" /\ pc = "idle" /\ failDeployment(h)
                   \/ pc = "idle" /\ Crash(h)
<1>0. handler[h].err \in Errors
  BY DEF HandlersInv, HandlerRow, Errors
<1> USE DEF Places, Errors
<1>1. CASE CallAgent(h)
  BY <1>1, GotoMoves DEF CallAgent
<1>2. CASE AgentApplies(h)
  BY <1>2, GotoMoves DEF AgentApplies
<1>3. CASE AgentAnswers(h)
  BY <1>3, GotoMoves DEF AgentAnswers
<1>4. CASE AgentFails(h)
  BY <1>4, GotoMoves DEF AgentFails
<1>5. CASE SettleResize(h)
  <2>1. Goto(h, "finishing", "none") \/ Goto(h, "finishing", "failed")
    BY <1>5 DEF SettleResize, completePlanChange
  <2> QED BY <1>5, <2>1, GotoMoves DEF SettleResize
<1>6. CASE SettleCompensation(h)
  BY <1>6, GotoMoves DEF SettleCompensation
<1>7. CASE finishTask(h)
  BY <1>7, GotoMoves, LeaveMoves DEF finishTask
<1>8. CASE markResizeTaskObserving(h)
  BY <1>0, <1>8, GotoMoves DEF markResizeTaskObserving
<1>9. CASE failDeployment(h)
  BY <1>9, LeaveMoves DEF failDeployment
<1>10. CASE Crash(h)
  BY <1>10, LeaveMoves DEF Crash
<1> QED BY <1>1, <1>2, <1>3, <1>4, <1>5, <1>6, <1>7, <1>8, <1>9, <1>10 DEF Handler

\* Before the change is requested nothing runs.
Untouched ==
    /\ \A k \in Tasks : task[k].status = "none" /\ task[k].owner = None
    /\ late = {} /\ loop.pc = "idle"
    /\ \A h \in Handlers : handler[h].pc = "idle"

LEMMA OneChange ==
    ASSUME NEW c, Changes = {c}
    PROVE  /\ Tasks = {Resize(c), Compensation(c)} /\ Resize(c) # Compensation(c)
           /\ c \in Changes
           /\ Resize(c)[1] = "resize" /\ Resize(c)[2] = c
           /\ Compensation(c)[1] = "compensate-resize" /\ Compensation(c)[2] = c
BY DEF Tasks, Resize, Compensation

LEMMA UntouchedStep ==
    ASSUME AllInv, NEW c, Changes = {c}, change[c].fund = "none", Untouched, [Next]_vars
    PROVE  \/ \E p \in Plans : createPlanChange(c, p)
           \/ /\ UNCHANGED <<change, task, lock, inst, container, late, handler, loop>>
              /\ UNCHANGED orders \/ \E i \in DOMAIN orders : renewWithWallet(i)
           \/ refundOrder
<1>0. c \in Changes /\ change[c].status = "none"
  BY OneChange, Funds3
<1>1. CASE User
  <2>1. ~ CancelObserved(c) /\ ~ RequestCompensation(c)
    BY <1>0 DEF CancelObserved, RequestCompensation, Cancellable
  <2>2. CASE (\E i \in DOMAIN orders : renewWithWallet(i)) \/ NewerIntent
    BY <2>2 DEF renewWithWallet, NewerIntent, queue, node, money
  <2>3. CASE \E p \in Plans : createPlanChange(c, p)
    BY <2>3
  <2> QED BY <1>1, <2>1, <2>2, <2>3 DEF User
<1>2. ASSUME NEW h \in Handlers PROVE ~ Handler(h)
  BY DEF Handler, Untouched, claimTask, CallAgent, AgentApplies, AgentAnswers, AgentFails,
         SettleResize, SettleCompensation, finishTask, markResizeTaskObserving, failDeployment, Crash
<1>3. ~ Loop
  BY DEF Loop, Untouched, recoverExpiredTaskLeases, reconcileBlockedPlanChanges, Inspect,
         InspectFails, resumeBlockedPlanChange, SettleTarget, SettleSource, CloseTask, LoopCrash,
         Tasks, Resize
<1>4. ~ Administrator
  BY DEF Administrator, Untouched, retryTask, resumeReviewTask, discardReviewTask, DiscardedStatus
<1>5. \A k \in Tasks : ~ LeaseExpires(k)
  BY DEF LeaseExpires, Untouched
<1>6. \A size \in Sizes : ~ LateApply(size)
  BY DEF LateApply, Untouched
<1>7. CASE UNCHANGED vars
  BY <1>7 DEF vars, queue, node, money
<1> QED BY <1>1, <1>2, <1>3, <1>4, <1>5, <1>6, <1>7 DEF Next

\* While a change is pending or blocked there is no compensation, and what the
\* node answers, or the loop has seen and may settle, is still there.
Resizing(c) ==
    /\ task[Compensation(c)].status = "none"
    /\ late \subseteq {TargetSize(c)}
    /\ \A h \in Handlers :
        /\ handler[h].pc # "idle" => handler[h].task = Resize(c)
        /\ handler[h].pc \in {"applied", "settling"} => container = TargetSize(c)
    /\ loop.pc \in {"resume", "settle"} /\ loop.seen = TargetSize(c) => container = TargetSize(c)

Undecided(c) == change[c].fund \in {"pending", "blocked"}

TargetInv(c) ==
    /\ change[c].fund = "none" => Untouched
    /\ Undecided(c) => Resizing(c)

\* What such a change keeps while it stays undecided.
LEMMA Deciding ==
    ASSUME AllInv, NEW c \in Changes, AllFollow, Undecided(c)'
    PROVE  /\ Undecided(c) /\ change'[c].target = change[c].target
           /\ change'[c].source = change[c].source /\ TargetSize(c)' = TargetSize(c)
BY DEF AllFollow, Follows, Later, Undecided, TargetSize

LEMMA ResizingFrame ==
    ASSUME NEW c, Resizing(c), TargetSize(c)' = TargetSize(c),
           task'[Compensation(c)].status = task[Compensation(c)].status,
           UNCHANGED <<container, late, handler>>,
           loop' = loop \/ loop'.pc \notin {"resume", "settle"}
                        \/ (loop'.pc = "settle" /\ loop.pc = "resume" /\ loop'.seen = loop.seen)
                        \/ (loop'.pc = "resume" /\ loop'.seen = container)
    PROVE  Resizing(c)'
BY DEF Resizing

LEMMA ResizingUser ==
    ASSUME AllInv, NEW c, Changes = {c}, AllFollow, Undecided(c)', Resizing(c), User
    PROVE  Resizing(c)'
<1>0. c \in Changes /\ Undecided(c) /\ TargetSize(c)' = TargetSize(c) /\ change[c] \in ChangeRow
      /\ change[c].status # "none"
  BY OneChange, Deciding, Funds3 DEF Undecided
<1>1. ~ RequestCompensation(c)
  BY <1>0 DEF RequestCompensation, Undecided, AllInv, TypeInv, ChangeRow
<1>2. ~ \E p \in Plans : createPlanChange(c, p)
  BY <1>0 DEF createPlanChange
<1>3. UNCHANGED <<task, container, late, handler, loop>>
  BY <1>1, <1>2 DEF User, CancelObserved, renewWithWallet, refundOrder, NewerIntent, queue, node
<1> QED BY <1>0, <1>3, ResizingFrame

LEMMA ResizingHandler ==
    ASSUME AllInv, NEW c, Changes = {c}, AllFollow, Undecided(c)', Resizing(c),
           NEW h \in Handlers, Handler(h)
    PROVE  Resizing(c)'
<1>0. c \in Changes /\ Undecided(c) /\ TargetSize(c)' = TargetSize(c) /\ HandlersInv /\ TasksInv
  BY OneChange, Deciding DEF AllInv, TypeInv, ControlInv
<1>1. ASSUME NEW k \in Tasks, claimTask(h, k) PROVE Resizing(c)'
  <2>1. k = Resize(c) /\ k # Compensation(c)
    BY <1>1, OneChange DEF claimTask, Resizing
  <2>2. UNCHANGED <<container, late, loop>>
    BY <1>1 DEF claimTask, node
  <2>3. task'[Compensation(c)] = task[Compensation(c)]
    BY <1>0, <1>1, <2>1, OneChange DEF claimTask, TasksInv
  <2>4. handler'[h].pc = "claimed" /\ handler'[h].task = k /\ \A g \in Handlers \ {h} : handler'[g] = handler[g]
    BY <1>0, <1>1 DEF claimTask, HandlersInv
  <2> QED BY <1>0, <2>1, <2>2, <2>3, <2>4 DEF Resizing
<1>2. CASE ~ \E k \in Tasks : claimTask(h, k)
  <2>1. PICK pc \in Places, err \in Errors :
            /\ Moves(h, pc, err)
            /\ \/ handler[h].pc = "claimed" /\ pc \in {"called", "finishing"} /\ CallAgent(h)
               \/ handler[h].pc = "called" /\ pc = "applied" /\ AgentApplies(h)
               \/ handler[h].pc = "applied" /\ pc = "settling" /\ AgentAnswers(h)
               \/ handler[h].pc \in {"called", "applied"} /\ pc = "finishing" /\ AgentFails(h)
               \/ handler[h].pc = "settling" /\ pc = "finishing" /\ SettleResize(h)
               \/ handler[h].pc = "settling" /\ pc = "finishing" /\ SettleCompensation(h)
               \/ handler[h].pc = "finishing" /\ pc \in {"idle", "observing"} /\ finishTask(h)
               \/ handler[h].pc = "observing" /\ pc = "giving_up" /\ markResizeTaskObserving(h)
               \/ handler[h].pc = "giving_up" /\ pc = "idle" /\ failDeployment(h)
               \/ pc = "idle" /\ Crash(h)
    BY <1>0, <1>2, HandlerGoes
  <2>2. handler[h].pc # "idle" /\ handler[h].task = Resize(c)
    BY <1>0, <1>2, HandlerGoes DEF Resizing
  <2>3. SizeFor(handler[h].task) = TargetSize(c)
    BY <2>2, OneChange DEF SizeFor
  <2>4. task'[Compensation(c)].status = task[Compensation(c)].status /\ loop' = loop
    <3>1. CASE finishTask(h)
      BY <1>0, <2>2, <3>1, OneChange DEF finishTask, TasksInv
    <3>2. CASE ~ finishTask(h)
      BY <2>1, <3>2 DEF CallAgent, AgentApplies, AgentAnswers, AgentFails, SettleResize,
            SettleCompensation, markResizeTaskObserving, failDeployment, Crash, queue
    <3> QED BY <3>1, <3>2
  <2>5. late' \subseteq {TargetSize(c)}
    BY <2>1, <2>3 DEF CallAgent, AgentApplies, AgentAnswers, AgentFails, SettleResize, Abandons,
          SettleCompensation, finishTask, markResizeTaskObserving, failDeployment, Crash, node, Resizing
  <2>6. container' = container \/ container' = TargetSize(c)
    BY <2>1, <2>3 DEF CallAgent, AgentApplies, AgentAnswers, AgentFails, SettleResize,
          SettleCompensation, finishTask, markResizeTaskObserving, failDeployment, Crash, node
  <2>7. pc = "applied" => container' = TargetSize(c)
    BY <2>1, <2>3 DEF AgentApplies
  <2>8. pc = "settling" => handler[h].pc = "applied"
    BY <2>1
  <2>9. \A g \in Handlers :
            /\ handler'[g].pc # "idle" => handler'[g].task = Resize(c)
            /\ handler'[g].pc \in {"applied", "settling"} => container' = TargetSize(c)
    <3>1. CASE pc = "idle"
      BY <2>1, <2>6, <3>1 DEF Moves, Resizing
    <3>2. CASE pc # "idle"
      BY <2>1, <2>2, <2>6, <2>7, <2>8, <3>2 DEF Moves, Resizing
    <3> QED BY <3>1, <3>2
  <2> QED BY <1>0, <2>4, <2>5, <2>6, <2>9 DEF Resizing
<1> QED BY <1>1, <1>2

\* Where the loop goes from where.
LEMMA LoopGoes ==
    ASSUME LoopInv, Loop
    PROVE  \/ /\ loop' = loop /\ \E k \in Tasks : recoverExpiredTaskLeases(k) /\ k[1] # "resize"
           \/ /\ loop.pc = "idle" /\ loop'.pc = "inspect"
              /\ \/ \E k \in Tasks : recoverExpiredTaskLeases(k) /\ k[1] = "resize"
                 \/ \E c \in Changes : reconcileBlockedPlanChanges(c)
           \/ /\ loop.pc = "inspect" /\ Inspect
              /\ \/ loop'.pc = "resume" /\ loop'.seen = container
                 \/ loop'.pc = "idle"
           \/ /\ loop.pc = "resume" /\ resumeBlockedPlanChange
              /\ \/ loop'.pc = "settle" /\ loop'.seen = loop.seen
                 \/ loop'.pc = "idle"
           \/ /\ loop.pc = "settle" /\ loop'.pc \in {"close", "idle"}
              /\ SettleTarget \/ SettleSource
           \/ /\ loop.pc # "idle" /\ loop'.pc = "idle" /\ (InspectFails \/ CloseTask \/ LoopCrash)
<1>1. loop \in LoopRow
  BY DEF LoopInv
<1>2. CASE \E k \in Tasks : recoverExpiredTaskLeases(k)
  BY <1>1, <1>2 DEF recoverExpiredTaskLeases, LookAt, IdleLoop
<1>3. CASE \E c \in Changes : reconcileBlockedPlanChanges(c)
  BY <1>3 DEF reconcileBlockedPlanChanges, LookAt, IdleLoop
<1>4. CASE Inspect
  <2>1. CASE loop' = [loop EXCEPT !.pc = "resume", !.seen = container]
    BY <1>1, <1>4, <2>1 DEF Inspect, LoopRow
  <2>2. CASE loop' = IdleLoop
    BY <1>4, <2>2 DEF Inspect, IdleLoop
  <2> QED BY <1>4, <2>1, <2>2 DEF Inspect
<1>5. CASE resumeBlockedPlanChange
  <2>1. CASE loop' = [loop EXCEPT !.pc = "settle"]
    BY <1>1, <1>5, <2>1 DEF resumeBlockedPlanChange, LoopRow
  <2>2. CASE loop' = IdleLoop
    BY <1>5, <2>2 DEF resumeBlockedPlanChange, IdleLoop
  <2> QED BY <1>5, <2>1, <2>2 DEF resumeBlockedPlanChange
<1>6. CASE SettleTarget \/ SettleSource
  <2>1. loop.pc = "settle" /\ (loop' = [loop EXCEPT !.pc = "close"] \/ loop' = IdleLoop)
    BY <1>6 DEF SettleTarget, SettleSource, completePlanChange
  <2> QED BY <1>1, <1>6, <2>1 DEF LoopRow, IdleLoop
<1>7. CASE InspectFails \/ CloseTask \/ LoopCrash
  BY <1>7 DEF InspectFails, CloseTask, LoopCrash, IdleLoop
<1> QED BY <1>2, <1>3, <1>4, <1>5, <1>6, <1>7 DEF Loop

\* Tasks that are not the compensation.
LEMMA OtherTask ==
    ASSUME TasksInv, NEW c, Changes = {c}, NEW k \in Tasks, k # Compensation(c),
           task' = task \/ \E row : task' = [task EXCEPT ![k] = row]
    PROVE  task'[Compensation(c)] = task[Compensation(c)]
BY OneChange DEF TasksInv

LEMMA ResizingLoop ==
    ASSUME AllInv, NEW c, Changes = {c}, AllFollow, Undecided(c)', Resizing(c), Loop
    PROVE  Resizing(c)'
<1>0. c \in Changes /\ TargetSize(c)' = TargetSize(c) /\ TasksInv /\ LoopInv
  BY OneChange, Deciding DEF AllInv, TypeInv, ControlInv
<1>1. UNCHANGED <<container, late, handler>>
  BY DEF Loop, recoverExpiredTaskLeases, reconcileBlockedPlanChanges, Inspect, InspectFails,
         resumeBlockedPlanChange, SettleTarget, SettleSource, CloseTask, LoopCrash, node
<1>2. task'[Compensation(c)].status = task[Compensation(c)].status
  <2>1. ASSUME NEW k \in Tasks, recoverExpiredTaskLeases(k)
        PROVE  task'[Compensation(c)].status = task[Compensation(c)].status
    <3>1. k # Compensation(c)
      BY <2>1 DEF recoverExpiredTaskLeases, Resizing
    <3> QED BY <1>0, <2>1, <3>1, OneChange DEF recoverExpiredTaskLeases, TasksInv
  <2>2. CASE CloseTask
    <3>1. Resize(loop.change) = Resize(c)
      BY <1>0, <2>2 DEF CloseTask, LoopInv
    <3> QED BY <1>0, <2>2, <3>1, OneChange DEF CloseTask, TasksInv
  <2>3. CASE ~ CloseTask /\ ~ \E k \in Tasks : recoverExpiredTaskLeases(k)
    BY <2>3 DEF Loop, reconcileBlockedPlanChanges, Inspect, InspectFails,
         resumeBlockedPlanChange, SettleTarget, SettleSource, LoopCrash, queue
  <2> QED BY <2>1, <2>2, <2>3
<1>3. loop' = loop \/ loop'.pc \notin {"resume", "settle"}
                   \/ (loop'.pc = "settle" /\ loop.pc = "resume" /\ loop'.seen = loop.seen)
                   \/ (loop'.pc = "resume" /\ loop'.seen = container)
  <2>1. \/ loop' = loop \/ loop'.pc \in {"inspect", "idle", "close"}
        \/ loop.pc = "inspect" /\ loop'.pc = "resume" /\ loop'.seen = container
        \/ loop.pc = "resume" /\ loop'.pc = "settle" /\ loop'.seen = loop.seen
    BY <1>0, LoopGoes
  <2> QED BY <2>1
<1> QED BY <1>0, <1>1, <1>2, <1>3, ResizingFrame

LEMMA ResizingKept ==
    ASSUME AllInv, NEW c, Changes = {c}, AllFollow, Undecided(c)', Resizing(c), [Next]_vars
    PROVE  Resizing(c)'
<1>0. c \in Changes /\ TargetSize(c)' = TargetSize(c) /\ TasksInv
  BY OneChange, Deciding DEF AllInv, TypeInv, ControlInv
<1>1. ASSUME NEW k \in Tasks, retryTask(k) \/ resumeReviewTask(k) \/ discardReviewTask(k) \/ LeaseExpires(k)
      PROVE  Resizing(c)'
  <2>1. UNCHANGED <<container, late, handler, loop>>
    BY <1>1 DEF retryTask, resumeReviewTask, discardReviewTask, LeaseExpires, node
  <2>2. task'[Compensation(c)].status = task[Compensation(c)].status
    <3>1. CASE LeaseExpires(k)
      <4>1. task[Compensation(c)] \in TaskRow
        BY <1>0, OneChange DEF TasksInv
      <4>2. [task[Compensation(c)] EXCEPT !.owner = None].status = task[Compensation(c)].status
        BY <4>1 DEF TaskRow
      <4> QED BY <1>0, <3>1, <4>2, OneChange DEF LeaseExpires, TasksInv
    <3>2. CASE ~ LeaseExpires(k)
      <4>1. k # Compensation(c)
        BY <1>1, <3>2 DEF retryTask, resumeReviewTask, discardReviewTask, Resizing, DiscardedStatus
      <4>2. task' = task \/ \E row : task' = [task EXCEPT ![k] = row]
        BY <1>1, <3>2 DEF retryTask, resumeReviewTask, discardReviewTask
      <4> QED BY <1>0, <4>1, <4>2, OtherTask
    <3> QED BY <3>1, <3>2
  <2> QED BY <1>0, <2>1, <2>2, ResizingFrame
<1>2. ASSUME NEW size \in Sizes, LateApply(size) PROVE Resizing(c)'
  BY <1>0, <1>2 DEF LateApply, Resizing, queue
<1>3. CASE UNCHANGED vars
  BY <1>0, <1>3, ResizingFrame DEF vars, queue, node
<1> QED BY <1>1, <1>2, <1>3, ResizingUser, ResizingHandler, ResizingLoop DEF Next, Administrator

\* The row of a new change.
LEMMA CreatedRow ==
    ASSUME NEW s, NEW p, NEW I, NEW n
    PROVE  LET row == [NoChange EXCEPT !.status = "processing", !.saga = "applying", !.fund = "pending",
                                       !.source = s, !.target = p, !.items = I, !.reserve = n]
           IN  row.fund = "pending" /\ row.observed = None /\ row.source = s
               /\ row.target = p /\ row.items = I
<1> DEFINE a == [NoChange EXCEPT !.status = "processing", !.saga = "applying"]
           b == [a EXCEPT !.fund = "pending", !.source = s]
           d == [b EXCEPT !.target = p, !.items = I]
           row == [d EXCEPT !.reserve = n]
           columns == {"status", "saga", "fund", "observed", "source", "target", "items", "reserve"}
<1>1. DOMAIN a = columns /\ a.observed = None
  BY DEF NoChange
<1> HIDE DEF a
<1>2. DOMAIN b = columns /\ b.fund = "pending" /\ b.observed = None /\ b.source = s
  BY <1>1
<1> HIDE DEF b
<1>3. /\ DOMAIN d = columns /\ d.fund = "pending" /\ d.observed = None /\ d.source = s
      /\ d.target = p /\ d.items = I
  BY <1>2
<1> HIDE DEF d
<1>4. /\ row.fund = "pending" /\ row.observed = None /\ row.source = s
      /\ row.target = p /\ row.items = I
  BY <1>3
<1> QED BY <1>4 DEF d, b, a

LEMMA TargetKept ==
    ASSUME AllInv, NEW c, Changes = {c}, TargetInv(c), [Next]_vars PROVE TargetInv(c)'
<1>0. c \in Changes /\ TasksInv
  BY OneChange DEF AllInv, TypeInv, ControlInv
<1>1. CASE change[c].fund = "none"
  <2>1. ASSUME NEW p \in Plans, createPlanChange(c, p) PROVE TargetInv(c)'
    <3>1. change'[c].fund = "pending"
      <4> DEFINE row == [NoChange EXCEPT !.status = "processing", !.saga = "applying",
                             !.fund = "pending", !.source = inst.size,
                             !.target = p, !.items = Active,
                             !.reserve = Cardinality(Active) * Price[p]]
      <4>1. change' = [change EXCEPT ![c] = row]
        BY <2>1 DEF createPlanChange
      <4>2. row.fund = "pending"
        BY CreatedRow
      <4> HIDE DEF row
      <4> QED BY <1>0, <4>1, <4>2 DEF AllInv, TypeInv
    <3>2. UNCHANGED <<container, late, handler, loop>> /\ Untouched
      BY <1>1, <2>1 DEF createPlanChange, node, TargetInv
    <3>3. task'[Compensation(c)] = task[Compensation(c)]
      BY <1>0, <2>1, OneChange DEF createPlanChange, TasksInv
    <3>4. Resizing(c)'
      BY <1>0, <3>2, <3>3, OneChange DEF Resizing, Untouched
    <3> QED BY <3>1, <3>4 DEF TargetInv
  <2>2. CASE refundOrder \/ UNCHANGED <<change, task, container, late, handler, loop>>
    <3>1. UNCHANGED <<change, task, container, late, handler, loop>>
      BY <2>2 DEF refundOrder, queue, node
    <3> QED BY <1>1, <3>1 DEF TargetInv, Untouched, Undecided
  <2> QED BY <1>1, <2>1, <2>2, UntouchedStep DEF TargetInv
<1>2. CASE change[c].fund # "none"
  <2>1. AllFollow
    BY <1>0, <1>2, NextFollows, Funds3 DEF createPlanChange
  <2>2. change'[c].fund # "none"
    BY <1>0, <1>2, <2>1 DEF AllFollow, Follows, Later
  <2>3. Undecided(c)' => Undecided(c)
    BY <1>0, <2>1, Deciding
  <2> QED BY <2>1, <2>2, <2>3, ResizingKept DEF TargetInv
<1> QED BY <1>1, <1>2

\* The columns of a change that a mark, a release or a settlement writes.
LEMMA RowFunds ==
    ASSUME NEW r \in ChangeRow
    PROVE  /\ Blocked(r).fund \in {r.fund, "blocked"}
           /\ Released(r).fund = "released" /\ Released(r).observed = r.observed
           /\ Blocked(r).observed = r.observed
           /\ [r EXCEPT !.status = "succeeded", !.saga = "settled", !.fund = "settled"].fund = "settled"
           /\ [r EXCEPT !.status = "succeeded", !.saga = "settled", !.fund = "settled"].observed = r.observed
           /\ [r EXCEPT !.status = "needs_review", !.saga = "compensating",
                        !.fund = "reserved"].fund = "reserved"
           /\ [r EXCEPT !.status = "needs_review", !.saga = "compensating",
                        !.fund = "reserved"].observed = r.observed
           /\ [r EXCEPT !.status = "processing"].fund = r.fund
           /\ [r EXCEPT !.status = "processing"].observed = r.observed
           /\ \A o : [r EXCEPT !.observed = o].fund = r.fund /\ [r EXCEPT !.observed = o].observed = o
<1>1. Blocked(r).fund \in {r.fund, "blocked"} /\ Blocked(r).observed = r.observed
  BY DEF Blocked, Verifying, ChangeRow
<1>2. Released(r).fund = "released" /\ Released(r).observed = r.observed
  BY DEF Released, ChangeRow
<1>3. /\ [r EXCEPT !.status = "succeeded", !.saga = "settled", !.fund = "settled"].fund = "settled"
      /\ [r EXCEPT !.status = "succeeded", !.saga = "settled", !.fund = "settled"].observed = r.observed
  BY DEF ChangeRow
<1>4. /\ [r EXCEPT !.status = "needs_review", !.saga = "compensating", !.fund = "reserved"].fund = "reserved"
      /\ [r EXCEPT !.status = "needs_review", !.saga = "compensating",
                   !.fund = "reserved"].observed = r.observed
  BY DEF ChangeRow
<1>5. /\ [r EXCEPT !.status = "processing"].fund = r.fund
      /\ [r EXCEPT !.status = "processing"].observed = r.observed
      /\ \A o : [r EXCEPT !.observed = o].fund = r.fund /\ [r EXCEPT !.observed = o].observed = o
  BY DEF ChangeRow
<1> QED BY <1>1, <1>2, <1>3, <1>4, <1>5

\* Another fund_status for c.
Turns(c) == change'[c].fund # change[c].fund

LEMMA OneRow ==
    ASSUME AllInv, NEW c \in Changes, NEW d \in Changes, NEW row, change' = [change EXCEPT ![d] = row]
    PROVE  /\ c # d => change'[c] = change[c]
           /\ c = d => change'[c] = row
BY DEF AllInv, TypeInv

LEMMA MarkTurns ==
    ASSUME AllInv, NEW c \in Changes, NEW d \in Changes, MarkBlocked(d)
    PROVE  Turns(c) => change'[c].fund = "blocked"
<1> DEFINE row == Blocked(change[d])
<1>1. change' = [change EXCEPT ![d] = row] /\ row.fund \in {change[d].fund, "blocked"}
  BY Funds3, RowFunds DEF MarkBlocked
<1> HIDE DEF row
<1> QED BY <1>1, OneRow DEF Turns

LEMMA ReleaseTurns ==
    ASSUME AllInv, NEW c \in Changes, NEW d \in Changes, NEW key, ReleaseFunds(d, key)
    PROVE  Turns(c) => change'[c].fund = "released" /\ c = d
<1> DEFINE row == Released(change[d])
<1>1. change' = [change EXCEPT ![d] = row] /\ row.fund = "released"
  BY Funds3, RowFunds DEF ReleaseFunds
<1> HIDE DEF row
<1> QED BY <1>1, OneRow DEF Turns

LEMMA TryFailTurns ==
    ASSUME AllInv, NEW c \in Changes, NEW d \in Changes, TryFail(d)
    PROVE  Turns(c) => change'[c].fund = "released" /\ c = d /\ change[c].status = "processing"
BY ReleaseTurns DEF TryFail, failPlanChange, Turns

LEMMA CompletionTurns ==
    ASSUME AllInv, NEW c \in Changes, NEW d \in Changes, NEW STATE owned, NEW ACTION done, NEW ACTION error,
           completePlanChange(d, owned, done, error)
    PROVE  Turns(c) => \/ change'[c].fund = "blocked"
                       \/ /\ change'[c].fund = "settled" /\ c = d /\ change[c].status = "processing"
                          /\ Completable(c, owned) /\ Complete(c)
<1>1. CASE change[d].status = "processing" /\ Completable(d, owned) /\ Complete(d)
  <2> DEFINE row == [change[d] EXCEPT !.status = "succeeded", !.saga = "settled", !.fund = "settled"]
  <2>1. change' = [change EXCEPT ![d] = row] /\ row.fund = "settled"
    BY <1>1, Funds3, RowFunds DEF Complete
  <2> HIDE DEF row
  <2>2. Turns(c) => change'[c].fund = "settled" /\ c = d
    BY <2>1, OneRow DEF Turns
  <2> QED BY <1>1, <2>2
<1>2. CASE MarkBlocked(d)
  BY <1>2, MarkTurns
<1>3. CASE change' = change
  BY <1>3 DEF Turns
<1> QED BY <1>1, <1>2, <1>3 DEF completePlanChange

\* Who settles, and who releases.
Settling(c) ==
    /\ change'[c].fund = "settled" /\ change[c].status = "processing" /\ Complete(c)
    /\ \/ \E h \in Handlers : SettleResize(h) /\ handler[h].task = Resize(c)
                              /\ Completable(c, Owns(h) /\ lock = handler[h].task)
       \/ SettleTarget /\ loop.change = c

Releasing(c) ==
    /\ change'[c].fund = "released"
    /\ \/ CancelObserved(c)
       \/ change[c].saga = "compensating"
            /\ \E h \in Handlers : SettleCompensation(h) /\ handler[h].task = Compensation(c)
       \/ change[c].status = "processing"
            /\ \/ \E h \in Handlers : failDeployment(h) /\ handler[h].task[2] = c
               \/ SettleSource /\ loop.change = c
               \/ \E k \in Tasks : discardReviewTask(k)

LEMMA WhoTurns ==
    ASSUME AllInv, NEW c \in Changes, [Next]_vars, Turns(c)
    PROVE  \/ change'[c].fund \in {"pending", "blocked"}
           \/ change'[c].fund = "reserved" /\ RequestCompensation(c)
           \/ Settling(c) \/ Releasing(c)
<1>0. /\ loop.pc # "idle" => loop.change \in Changes
      /\ \A h \in Handlers : handler[h].pc # "idle" => handler[h].task \in Tasks
      /\ \A k \in Tasks : /\ k[2] \in Changes
                          /\ k[1] = "resize" => k = Resize(k[2])
                          /\ k[1] # "resize" => k = Compensation(k[2])
  BY DEF AllInv, TypeInv, ControlInv, LoopInv, HandlersInv, Tasks, Resize, Compensation
<1>1. CASE \/ \E i \in DOMAIN orders : renewWithWallet(i)
           \/ refundOrder \/ NewerIntent
           \/ \E h \in Handlers :
                \/ \E k \in Tasks : claimTask(h, k)
                \/ CallAgent(h) \/ AgentApplies(h) \/ AgentAnswers(h) \/ AgentFails(h)
                \/ finishTask(h) \/ Crash(h)
           \/ \E k \in Tasks : \/ recoverExpiredTaskLeases(k) \/ retryTask(k) \/ resumeReviewTask(k)
                               \/ LeaseExpires(k)
           \/ \E d \in Changes : reconcileBlockedPlanChanges(d)
           \/ CloseTask \/ LoopCrash \/ (\E size \in Sizes : LateApply(size)) \/ UNCHANGED vars
  <2>1. change' = change
    BY <1>1 DEF renewWithWallet, refundOrder, NewerIntent, claimTask, CallAgent, AgentApplies,
          AgentAnswers, AgentFails, finishTask, Crash, recoverExpiredTaskLeases, retryTask,
          resumeReviewTask, LeaseExpires, reconcileBlockedPlanChanges, CloseTask, LoopCrash,
          LateApply, vars
  <2> QED BY <2>1 DEF Turns
<1>2. ASSUME NEW d \in Changes, CancelObserved(d) PROVE Releasing(c)
  <2>1. cancelPlanChangeSettlementTx(d)
    BY <1>2 DEF CancelObserved
  <2>2. change'[c].fund = "released" /\ c = d
    BY <2>1, ReleaseTurns DEF cancelPlanChangeSettlementTx, Turns
  <2> QED BY <1>2, <2>2 DEF Releasing
<1>3. ASSUME NEW d \in Changes, RequestCompensation(d) PROVE change'[c].fund = "reserved" /\ c = d
  <2> DEFINE row == [change[d] EXCEPT !.status = "needs_review", !.saga = "compensating",
                                      !.fund = "reserved"]
  <2>1. change' = [change EXCEPT ![d] = row] /\ row.fund = "reserved"
    BY <1>3, Funds3, RowFunds DEF RequestCompensation
  <2> HIDE DEF row
  <2> QED BY <2>1, OneRow DEF Turns
<1>4. ASSUME NEW h \in Handlers, SettleResize(h) PROVE change'[c].fund = "blocked" \/ Settling(c)
  <2>1. handler[h].task = Resize(handler[h].task[2]) /\ handler[h].task[2] \in Changes
    BY <1>0, <1>4 DEF SettleResize
  <2>2. \/ change'[c].fund = "blocked"
        \/ /\ change'[c].fund = "settled" /\ c = handler[h].task[2] /\ change[c].status = "processing"
           /\ Completable(c, Owns(h) /\ lock = handler[h].task) /\ Complete(c)
    BY <1>4, <2>1, CompletionTurns DEF SettleResize
  <2> QED BY <1>4, <2>1, <2>2 DEF Settling
<1>5. ASSUME NEW h \in Handlers, SettleCompensation(h) PROVE change'[c].fund = "blocked" \/ Releasing(c)
  <2> DEFINE d == handler[h].task[2]
  <2>1. d \in Changes /\ handler[h].task = Compensation(d)
    BY <1>0, <1>5 DEF SettleCompensation
  <2>2. CASE change[d].saga = "compensating" /\ cancelPlanChangeSettlementTx(d)
    <3>1. change'[c].fund = "released" /\ c = d
      BY <2>1, <2>2, ReleaseTurns DEF cancelPlanChangeSettlementTx, Turns
    <3> QED BY <1>5, <2>1, <2>2, <3>1 DEF Releasing
  <2>3. CASE MarkBlocked(d)
    BY <2>1, <2>3, MarkTurns
  <2> QED BY <1>5, <2>2, <2>3 DEF SettleCompensation
<1>6. ASSUME NEW h \in Handlers, markResizeTaskObserving(h) PROVE change'[c].fund = "blocked"
  BY <1>0, <1>6, MarkTurns DEF markResizeTaskObserving, Turns
<1>7. ASSUME NEW h \in Handlers, failDeployment(h) PROVE Releasing(c)
  <2>1. TryFail(handler[h].task[2]) /\ handler[h].task[2] \in Changes
    BY <1>0, <1>7 DEF failDeployment, Turns
  <2>2. change'[c].fund = "released" /\ c = handler[h].task[2] /\ change[c].status = "processing"
    BY <2>1, TryFailTurns
  <2> QED BY <1>7, <2>2 DEF Releasing
<1>8. ASSUME NEW k \in Tasks, discardReviewTask(k) PROVE change'[c].fund = "blocked" \/ Releasing(c)
  BY <1>0, <1>8, MarkTurns, TryFailTurns DEF discardReviewTask, Releasing
<1>9. CASE Inspect
  <2> DEFINE d == loop.change
             b == Blocked(change[d])
             seen == [change[d] EXCEPT !.observed = container]
             odd == [b EXCEPT !.observed = container]
  <2>1. d \in Changes /\ (change' = [change EXCEPT ![d] = seen] \/ change' = [change EXCEPT ![d] = odd])
    BY <1>0, <1>9 DEF Inspect
  <2>2. change[d] \in ChangeRow /\ seen.fund = change[d].fund
    BY <2>1, Funds3, RowFunds
  <2>3. b \in ChangeRow /\ b.fund \in {change[d].fund, "blocked"}
    BY <1>9, <2>2, RowsAlike, RowFunds DEF SameDeal, AllInv, TypeInv, SizesInv
  <2> HIDE DEF b
  <2>4. odd.fund = b.fund
    BY <2>3, RowFunds
  <2> HIDE DEF odd, seen, d
  <2> QED BY <2>1, <2>2, <2>3, <2>4, OneRow DEF Turns
<1>10. CASE InspectFails
  BY <1>0, <1>10, MarkTurns DEF InspectFails
<1>11. CASE resumeBlockedPlanChange
  <2> DEFINE d == loop.change
             row == [change[d] EXCEPT !.status = "processing"]
  <2>1. d \in Changes /\ (change' = [change EXCEPT ![d] = row] \/ change' = change)
    BY <1>0, <1>11 DEF resumeBlockedPlanChange
  <2>2. row.fund = change[d].fund
    BY <2>1, Funds3, RowFunds
  <2> HIDE DEF row, d
  <2> QED BY <2>1, <2>2, OneRow DEF Turns
<1>12. CASE SettleTarget
  <2>1. loop.change \in Changes
    BY <1>0, <1>12 DEF SettleTarget
  <2>2. \/ change'[c].fund = "blocked"
        \/ /\ change'[c].fund = "settled" /\ c = loop.change /\ change[c].status = "processing"
           /\ Complete(c)
    BY <1>12, <2>1, CompletionTurns DEF SettleTarget
  <2> QED BY <1>12, <2>2 DEF Settling
<1>13. CASE SettleSource
  <2>1. loop.change \in Changes /\ TryFail(loop.change)
    BY <1>0, <1>13 DEF SettleSource
  <2> QED BY <1>13, <2>1, TryFailTurns DEF Releasing
<1>14. ASSUME NEW d \in Changes, NEW p \in Plans, createPlanChange(d, p) PROVE change'[c].fund = "pending"
  <2> DEFINE row == [NoChange EXCEPT !.status = "processing", !.saga = "applying",
                             !.fund = "pending", !.source = inst.size,
                             !.target = p, !.items = Active,
                             !.reserve = Cardinality(Active) * Price[p]]
  <2>1. change' = [change EXCEPT ![d] = row]
    BY <1>14 DEF createPlanChange
  <2>2. row.fund = "pending"
    BY CreatedRow
  <2> HIDE DEF row
  <2> QED BY <2>1, <2>2, OneRow DEF Turns
<1> QED BY <1>1, <1>2, <1>3, <1>4, <1>5, <1>6, <1>7, <1>8, <1>9, <1>10, <1>11, <1>12, <1>13, <1>14
        DEF Next, User, Handler, Loop, Administrator

LEMMA InitTarget == ASSUME Init, NEW c, Changes = {c} PROVE TargetInv(c)
BY DEF Init, TargetInv, Undecided, Untouched, NoChange, IdleLoop, IdleHandler

LEMMA SettledThere ==
    ASSUME AllInv, NEW c, Changes = {c}, TargetInv(c), [Next]_vars, Becomes(c, "settled")
    PROVE  container = TargetSize(c)
<1>1. c \in Changes /\ Turns(c) /\ change'[c].fund = "settled"
  BY OneChange DEF Turns, Becomes
<1>2. Settling(c)
  BY <1>1, WhoTurns DEF Releasing
<1>3. Resizing(c)
  BY <1>1, <1>2, Funds3 DEF Settling, TargetInv, Undecided
<1>4. CASE \E h \in Handlers : SettleResize(h)
  BY <1>3, <1>4 DEF Resizing, SettleResize
<1>5. CASE SettleTarget /\ loop.change = c
  BY <1>3, <1>5 DEF Resizing, SettleTarget
<1> QED BY <1>2, <1>4, <1>5 DEF Settling

\* A change that is the only one is only charged for while the container has
\* the target resources, whatever fails, is late, is retried or is discarded.
THEOREM TargetCorrect ==
    ASSUME NEW one, Changes = {one}
    PROVE  Spec => SettledOnTarget
<1> DEFINE Inv == AllInv /\ TargetInv(one)
<1>1. Init => Inv
  BY InitAll, InitTarget
<1>2. Inv /\ [Next]_vars => Inv'
  BY AllKept, TargetKept
<1>3. Inv /\ [Next]_vars =>
        [\A c \in Changes : Becomes(c, "settled") => container = TargetSize(c)]_vars
  BY SettledThere
<1> HIDE DEF Inv
<1> QED BY <1>1, <1>2, <1>3, PTL DEF Spec, SettledOnTarget

\* A step that neither observes nor resumes c.
Unresumed(r, s) == s.observed = r.observed /\ (s.status = "processing" => r.status = "processing")

Quiet(c) == Unresumed(change[c], change'[c])

LEMMA RowQuiet ==
    ASSUME NEW r \in ChangeRow
    PROVE  /\ Unresumed(r, r) /\ Unresumed(r, Blocked(r)) /\ Unresumed(r, Released(r))
           /\ Unresumed(r, [r EXCEPT !.status = "succeeded", !.saga = "settled", !.fund = "settled"])
           /\ Unresumed(r, [r EXCEPT !.status = "needs_review", !.saga = "compensating",
                                     !.fund = "reserved"])
           /\ Blocked(r).status # "processing"
<1>1. Unresumed(r, Blocked(r)) /\ Blocked(r).status # "processing"
  BY DEF Blocked, Verifying, ChangeRow, Unresumed
<1>2. Unresumed(r, Released(r)) /\ Unresumed(r, r)
  BY DEF Released, ChangeRow, Unresumed
<1>3. Unresumed(r, [r EXCEPT !.status = "succeeded", !.saga = "settled", !.fund = "settled"])
  BY DEF ChangeRow, Unresumed
<1>4. Unresumed(r, [r EXCEPT !.status = "needs_review", !.saga = "compensating", !.fund = "reserved"])
  BY DEF ChangeRow, Unresumed
<1> QED BY <1>1, <1>2, <1>3, <1>4

LEMMA QuietRow ==
    ASSUME AllInv, NEW c \in Changes, NEW d \in Changes, NEW row, change' = [change EXCEPT ![d] = row],
           Unresumed(change[d], row)
    PROVE  Quiet(c)
BY OneRow DEF Quiet, Unresumed

LEMMA SameQuiet == ASSUME change' = change, NEW c PROVE Quiet(c)
BY DEF Quiet, Unresumed

LEMMA MarkQuiet == ASSUME AllInv, NEW c \in Changes, NEW d \in Changes, MarkBlocked(d) PROVE Quiet(c)
BY Funds3, RowQuiet, QuietRow DEF MarkBlocked

LEMMA ReleaseQuiet ==
    ASSUME AllInv, NEW c \in Changes, NEW d \in Changes, NEW key, ReleaseFunds(d, key) PROVE Quiet(c)
BY Funds3, RowQuiet, QuietRow DEF ReleaseFunds

LEMMA TryFailQuiet == ASSUME AllInv, NEW c \in Changes, NEW d \in Changes, TryFail(d) PROVE Quiet(c)
BY ReleaseQuiet, SameQuiet DEF TryFail, failPlanChange

LEMMA CancelQuiet ==
    ASSUME AllInv, NEW c \in Changes, NEW d \in Changes, cancelPlanChangeSettlementTx(d) PROVE Quiet(c)
BY ReleaseQuiet, SameQuiet DEF cancelPlanChangeSettlementTx

LEMMA CompletionQuiet ==
    ASSUME AllInv, NEW c \in Changes, NEW d \in Changes, NEW STATE owned, NEW ACTION done, NEW ACTION error,
           completePlanChange(d, owned, done, error)
    PROVE  Quiet(c)
<1>1. CASE Complete(d)
  <2> DEFINE row == [change[d] EXCEPT !.status = "succeeded", !.saga = "settled", !.fund = "settled"]
  <2>1. change' = [change EXCEPT ![d] = row] /\ Unresumed(change[d], row)
    BY <1>1, Funds3, RowQuiet DEF Complete
  <2> HIDE DEF row
  <2> QED BY <2>1, QuietRow
<1> QED BY <1>1, MarkQuiet, SameQuiet DEF completePlanChange

LEMMA NextQuiet ==
    ASSUME AllInv, NEW c \in Changes, [Next]_vars
    PROVE  \/ Quiet(c)
           \/ loop.pc = "inspect" /\ loop.change = c /\ Inspect
           \/ loop.pc = "resume" /\ resumeBlockedPlanChange /\ change'[c].observed = change[c].observed
           \/ \E p \in Plans : createPlanChange(c, p)
<1>0. /\ loop.pc # "idle" => loop.change \in Changes
      /\ \A h \in Handlers : handler[h].pc # "idle" => handler[h].task[2] \in Changes
      /\ \A k \in Tasks : k[2] \in Changes
  BY TaskNames DEF AllInv, TypeInv, ControlInv, LoopInv, HandlersInv
<1>1. CASE \/ \E i \in DOMAIN orders : renewWithWallet(i)
           \/ refundOrder \/ NewerIntent
           \/ \E h \in Handlers :
                \/ \E k \in Tasks : claimTask(h, k)
                \/ CallAgent(h) \/ AgentApplies(h) \/ AgentAnswers(h) \/ AgentFails(h)
                \/ finishTask(h) \/ Crash(h)
           \/ \E k \in Tasks : \/ recoverExpiredTaskLeases(k) \/ retryTask(k) \/ resumeReviewTask(k)
                               \/ LeaseExpires(k)
           \/ \E d \in Changes : reconcileBlockedPlanChanges(d)
           \/ CloseTask \/ LoopCrash \/ (\E size \in Sizes : LateApply(size)) \/ UNCHANGED vars
  <2>1. change' = change
    BY <1>1 DEF renewWithWallet, refundOrder, NewerIntent, claimTask, CallAgent, AgentApplies,
          AgentAnswers, AgentFails, finishTask, Crash, recoverExpiredTaskLeases, retryTask,
          resumeReviewTask, LeaseExpires, reconcileBlockedPlanChanges, CloseTask, LoopCrash,
          LateApply, vars
  <2> QED BY <2>1, SameQuiet
<1>2. ASSUME NEW d \in Changes, CancelObserved(d) PROVE Quiet(c)
  BY <1>2, CancelQuiet DEF CancelObserved
<1>3. ASSUME NEW d \in Changes, RequestCompensation(d) PROVE Quiet(c)
  <2> DEFINE row == [change[d] EXCEPT !.status = "needs_review", !.saga = "compensating",
                                      !.fund = "reserved"]
  <2>1. change' = [change EXCEPT ![d] = row] /\ Unresumed(change[d], row)
    BY <1>3, Funds3, RowQuiet DEF RequestCompensation
  <2> HIDE DEF row
  <2> QED BY <2>1, QuietRow
<1>4. ASSUME NEW h \in Handlers, SettleResize(h) PROVE Quiet(c)
  BY <1>0, <1>4, CompletionQuiet DEF SettleResize
<1>5. ASSUME NEW h \in Handlers, SettleCompensation(h) PROVE Quiet(c)
  <2>1. handler[h].task[2] \in Changes
    BY <1>0, <1>5 DEF SettleCompensation
  <2> QED BY <1>5, <2>1, CancelQuiet, MarkQuiet DEF SettleCompensation
<1>6. ASSUME NEW h \in Handlers, markResizeTaskObserving(h) \/ failDeployment(h) PROVE Quiet(c)
  BY <1>0, <1>6, MarkQuiet, TryFailQuiet, SameQuiet DEF markResizeTaskObserving, failDeployment
<1>7. ASSUME NEW k \in Tasks, discardReviewTask(k) PROVE Quiet(c)
  BY <1>0, <1>7, MarkQuiet, TryFailQuiet DEF discardReviewTask
<1>8. CASE Inspect
  <2>1. CASE loop.change = c
    BY <1>8, <2>1 DEF Inspect
  <2>2. CASE loop.change # c
    <3>1. change'[c] = change[c]
      BY <1>0, <1>8, <2>2 DEF Inspect, AllInv, TypeInv
    <3> QED BY <3>1 DEF Quiet, Unresumed
  <2> QED BY <1>8, <2>1, <2>2
<1>9. CASE InspectFails
  BY <1>0, <1>9, MarkQuiet DEF InspectFails
<1>10. CASE resumeBlockedPlanChange
  <2> DEFINE d == loop.change
             row == [change[d] EXCEPT !.status = "processing"]
  <2>1. d \in Changes /\ (change' = [change EXCEPT ![d] = row] \/ change' = change)
    BY <1>0, <1>10 DEF resumeBlockedPlanChange
  <2>2. row.observed = change[d].observed
    BY <2>1, Funds3, RowFunds
  <2> HIDE DEF row, d
  <2>3. change'[c].observed = change[c].observed
    BY <2>1, <2>2, OneRow
  <2> QED BY <1>10, <2>3 DEF resumeBlockedPlanChange
<1>11. CASE SettleTarget \/ SettleSource
  BY <1>0, <1>11, CompletionQuiet, TryFailQuiet DEF SettleTarget, SettleSource
<1>12. ASSUME NEW d \in Changes, NEW p \in Plans, createPlanChange(d, p), d # c PROVE Quiet(c)
  <2>1. change'[c] = change[c]
    BY <1>12 DEF createPlanChange, AllInv, TypeInv
  <2> QED BY <2>1 DEF Quiet, Unresumed
<1> QED BY <1>1, <1>2, <1>3, <1>4, <1>5, <1>6, <1>7, <1>8, <1>9, <1>10, <1>11, <1>12
        DEF Next, User, Handler, Loop, Administrator

\* Surroundings in which no handler stalls past its lease or is overtaken by the
\* loop, no abandoned request takes effect, no blocking is lost, and no
\* administrator revives or discards a task.
Calm == Events \cap {"stall", "overtake", "late", "markfail", "resume", "discard"} = {}

Executing(h) == handler[h].pc \in {"claimed", "called", "applied", "settling", "finishing"}

\* A handler that executes a task owns it and holds the lock, so it is the only one.
Exclusive ==
    /\ late = {}
    /\ \A h \in Handlers :
        /\ Executing(h) => Owns(h) /\ lock = handler[h].task
        /\ handler[h].pc \in {"applied", "settling"} => container = SizeFor(handler[h].task)

LEMMA Alone ==
    ASSUME Exclusive, NEW g \in Handlers, NEW h \in Handlers, Executing(g), Executing(h)
    PROVE  g = h
BY DEF Exclusive, Owns

\* A step that does not touch the execution.
LEMMA ExclusiveFrame ==
    ASSUME AllInv, AllFollow, Exclusive, UNCHANGED <<handler, container, late>>,
           \A h \in Handlers : Executing(h) =>
                /\ lock' = lock
                /\ task'[handler[h].task].status = "running"
                /\ task'[handler[h].task].owner = task[handler[h].task].owner
    PROVE  Exclusive'
<1>1. \A h \in Handlers : Executing(h)' <=> Executing(h)
  BY DEF Executing
<1>2. \A h \in Handlers : handler[h].pc # "idle" => handler[h].task[2] \in Changes
  BY TaskNames DEF AllInv, TypeInv, ControlInv, HandlersInv
<1>3. \A d \in Changes : change'[d].target = change[d].target /\ change'[d].source = change[d].source
  BY DEF AllFollow, Follows
<1>4. \A h \in Handlers : handler[h].pc \in {"applied", "settling"} =>
            SizeFor(handler[h].task)' = SizeFor(handler[h].task)
  BY <1>2, <1>3 DEF SizeFor, TargetSize
<1> QED BY <1>1, <1>4 DEF Exclusive, Owns

LEMMA ExclusiveHandler ==
    ASSUME AllInv, Calm, AllFollow, Exclusive, NEW h \in Handlers, Handler(h)
    PROVE  Exclusive'
<1>0. HandlersInv /\ TasksInv /\ (handler[h].pc # "idle" => handler[h].task \in Tasks)
  BY DEF AllInv, TypeInv, ControlInv, HandlersInv
<1>1. ASSUME NEW k \in Tasks, claimTask(h, k) PROVE Exclusive'
  <2>1. UNCHANGED <<container, late>> /\ lock' = k /\ lock = None
    BY <1>1 DEF claimTask, node
  <2>2. \A g \in Handlers : ~ Executing(g) /\ handler[g].pc \notin {"applied", "settling"}
    <3>1. None \notin Tasks
      BY PlanChangeAssumption DEF PlanChangeAssumption, Tasks
    <3>2. \A g \in Handlers : Executing(g) => handler[g].task \in Tasks /\ handler[g].task = None
      BY <1>0, <2>1 DEF Exclusive, Executing, HandlersInv
    <3> QED BY <3>1, <3>2 DEF Executing
  <2>3. handler'[h].pc = "claimed" /\ handler'[h].task = k /\ \A g \in Handlers \ {h} : handler'[g] = handler[g]
    BY <1>0, <1>1 DEF claimTask, HandlersInv
  <2>4. task'[k].status = "running" /\ task'[k].owner = h
    BY <1>0, <1>1 DEF claimTask, TasksInv
  <2>5. \A g \in Handlers : (Executing(g)' <=> g = h) /\ handler'[g].pc \notin {"applied", "settling"}
    BY <2>2, <2>3 DEF Executing
  <2> QED BY <2>1, <2>3, <2>4, <2>5 DEF Exclusive, Owns
<1>2. CASE ~ \E k \in Tasks : claimTask(h, k)
  <2> DEFINE k == handler[h].task
  <2>1. PICK pc \in Places, err \in Errors :
            /\ Moves(h, pc, err)
            /\ \/ handler[h].pc = "claimed" /\ pc \in {"called", "finishing"} /\ CallAgent(h)
               \/ handler[h].pc = "called" /\ pc = "applied" /\ AgentApplies(h)
               \/ handler[h].pc = "applied" /\ pc = "settling" /\ AgentAnswers(h)
               \/ handler[h].pc \in {"called", "applied"} /\ pc = "finishing" /\ AgentFails(h)
               \/ handler[h].pc = "settling" /\ pc = "finishing" /\ SettleResize(h)
               \/ handler[h].pc = "settling" /\ pc = "finishing" /\ SettleCompensation(h)
               \/ handler[h].pc = "finishing" /\ pc \in {"idle", "observing"} /\ finishTask(h)
               \/ handler[h].pc = "observing" /\ pc = "giving_up" /\ markResizeTaskObserving(h)
               \/ handler[h].pc = "giving_up" /\ pc = "idle" /\ failDeployment(h)
               \/ pc = "idle" /\ Crash(h)
    BY <1>0, <1>2, HandlerGoes
  <2>2. k \in Tasks
    BY <1>0, <1>2, HandlerGoes
  <2>3. late' = {}
    BY <2>1 DEF CallAgent, AgentApplies, AgentAnswers, AgentFails, SettleResize, Abandons, Calm,
          SettleCompensation, finishTask, markResizeTaskObserving, failDeployment, Crash, node, Exclusive
  <2>4. /\ pc = "applied" => container' = SizeFor(k)
        /\ pc # "applied" => container' = container
    BY <2>1 DEF CallAgent, AgentApplies, AgentAnswers, AgentFails, SettleResize,
          SettleCompensation, finishTask, markResizeTaskObserving, failDeployment, Crash, node
  <2>5. ~ finishTask(h) => UNCHANGED <<task, lock>>
    BY <2>1 DEF CallAgent, AgentApplies, AgentAnswers, AgentFails, SettleResize,
          SettleCompensation, markResizeTaskObserving, failDeployment, Crash, queue
  <2>6. Executing(h)' => Executing(h) /\ ~ finishTask(h) /\ handler'[h].task = k
    BY <2>1 DEF Moves, Executing, finishTask
  <2>7. ASSUME NEW g \in Handlers, g # h, Executing(g), handler'[g] = handler[g]
        PROVE  /\ lock' = handler[g].task /\ task'[handler[g].task].status = "running"
               /\ task'[handler[g].task].owner = g /\ pc # "applied"
    <3>1. ~ Executing(h)
      BY <2>7, Alone
    <3>2. ~ finishTask(h) /\ pc # "applied"
      BY <2>1, <3>1 DEF Executing, finishTask
    <3> QED BY <2>5, <2>7, <3>2 DEF Exclusive, Owns
  <2>8. \A g \in Handlers \ {h} : handler'[g] = handler[g]
    BY <2>1 DEF Moves
  <2>9. ASSUME NEW g \in Handlers, Executing(g)'
        PROVE  /\ lock' = handler'[g].task /\ task'[handler'[g].task].status = "running"
               /\ task'[handler'[g].task].owner = g
    <3>1. CASE g = h
      <4>1. Owns(h) /\ lock = k /\ UNCHANGED <<task, lock>> /\ handler'[h].task = k
        BY <2>5, <2>6, <2>9, <3>1 DEF Exclusive
      <4> QED BY <3>1, <4>1 DEF Owns
    <3>2. CASE g # h
      BY <2>7, <2>8, <2>9, <3>2 DEF Executing
    <3> QED BY <3>1, <3>2
  <2>0. \A d \in Changes : change'[d].target = change[d].target /\ change'[d].source = change[d].source
    BY DEF AllFollow, Follows
  <2>10. ASSUME NEW g \in Handlers, handler'[g].pc \in {"applied", "settling"}
         PROVE  container' = SizeFor(handler[g].task)'
    <3>1. CASE g = h
      <4>1. handler'[h].task = k /\ handler'[h].pc = pc
        BY <2>1, <2>10, <3>1 DEF Moves
      <4>2. container' = SizeFor(k)
        BY <2>1, <2>4, <2>10, <3>1, <4>1 DEF Exclusive
      <4>3. k[2] \in Changes
        BY <2>2, TaskNames
      <4> QED BY <2>0, <3>1, <4>1, <4>2, <4>3 DEF SizeFor, TargetSize
    <3>2. CASE g # h
      <4>1. handler'[g] = handler[g] /\ Executing(g) /\ handler[g].task[2] \in Changes
        BY <1>0, <2>8, <2>10, <3>2, TaskNames DEF Executing, HandlersInv
      <4>2. container' = container /\ container = SizeFor(handler[g].task)
        BY <2>4, <2>7, <2>10, <3>2, <4>1 DEF Exclusive
      <4> QED BY <2>0, <4>1, <4>2 DEF SizeFor, TargetSize
    <3> QED BY <3>1, <3>2
  <2> QED BY <2>3, <2>9, <2>10 DEF Exclusive, Owns, SizeFor, TargetSize
<1> QED BY <1>1, <1>2

LEMMA Runs ==
    ASSUME AllInv, Exclusive, NEW h \in Handlers, Executing(h)
    PROVE  /\ handler[h].task \in Tasks /\ task[handler[h].task] \in TaskRow
           /\ task[handler[h].task].status = "running"
           /\ task[handler[h].task].owner = h /\ h # None
           /\ lock = handler[h].task
BY PlanChangeAssumption
   DEF PlanChangeAssumption, Exclusive, Executing, Owns, AllInv, TypeInv, ControlInv, TasksInv, HandlersInv

LEMMA ExclusiveKept ==
    ASSUME AllInv, Calm, NEW c, Changes = {c}, TargetInv(c), change[c].fund # "none", AllFollow,
           Exclusive, [Next]_vars
    PROVE  Exclusive'
<1>0. /\ c \in Changes /\ change[c].status # "none" /\ change[c] \in ChangeRow
      /\ task \in [Tasks -> TaskRow] /\ LoopInv
  BY OneChange, Funds3 DEF AllInv, TypeInv, ControlInv, TasksInv
<1> DEFINE Same == \A h \in Handlers : Executing(h) =>
                        /\ lock' = lock
                        /\ task'[handler[h].task].status = "running"
                        /\ task'[handler[h].task].owner = task[handler[h].task].owner
<1>1. CASE \/ CancelObserved(c) \/ (\E i \in DOMAIN orders : renewWithWallet(i))
           \/ refundOrder \/ NewerIntent
           \/ (\E d \in Changes : reconcileBlockedPlanChanges(d))
           \/ Inspect \/ InspectFails \/ resumeBlockedPlanChange \/ SettleTarget \/ SettleSource
           \/ LoopCrash \/ UNCHANGED vars
  <2>1. UNCHANGED <<task, lock, handler, container, late>>
    BY <1>1 DEF CancelObserved, renewWithWallet, refundOrder, NewerIntent,
           reconcileBlockedPlanChanges, Inspect, InspectFails, resumeBlockedPlanChange, SettleTarget,
           SettleSource, LoopCrash, vars, queue, node
  <2>2. Same
    BY <2>1, Runs
  <2> QED BY <2>1, <2>2, ExclusiveFrame
<1>2. CASE RequestCompensation(c)
  <2>1. UNCHANGED <<lock, handler, container, late>>
    BY <1>2 DEF RequestCompensation, node
  <2>2. Undecided(c)
    BY <1>0, <1>2, Funds3 DEF RequestCompensation, Cancellable, Undecided
  <2>3. \A h \in Handlers : Executing(h) => handler[h].task = Resize(c)
    BY <2>2 DEF TargetInv, Resizing, Executing
  <2>4. ASSUME NEW h \in Handlers, Executing(h) PROVE task'[handler[h].task] = task[handler[h].task]
    BY <1>2, <2>3, <2>4, OneChange, Runs DEF RequestCompensation
  <2>5. Same
    BY <2>1, <2>4, Runs
  <2> QED BY <2>1, <2>5, ExclusiveFrame
<1>3. ASSUME NEW k \in Tasks, recoverExpiredTaskLeases(k) PROVE Exclusive'
  <2>1. UNCHANGED <<lock, handler, container, late>>
    BY <1>3 DEF recoverExpiredTaskLeases, node
  <2>2. ASSUME NEW h \in Handlers, Executing(h) PROVE task'[handler[h].task] = task[handler[h].task]
    <3>1. k # handler[h].task /\ handler[h].task \in Tasks
      BY <1>3, <2>2, Runs DEF recoverExpiredTaskLeases
    <3> QED BY <1>0, <1>3, <3>1 DEF recoverExpiredTaskLeases
  <2>3. Same
    BY <2>1, <2>2, Runs
  <2> QED BY <2>1, <2>3, ExclusiveFrame
<1>4. CASE CloseTask
  <2>1. UNCHANGED <<lock, handler, container, late>>
    BY <1>4 DEF CloseTask, node
  <2>2. ASSUME NEW h \in Handlers, Executing(h)
        PROVE  /\ task'[handler[h].task].status = "running"
               /\ task'[handler[h].task].owner = task[handler[h].task].owner
    <3> DEFINE k == Resize(loop.change)
               row == [task[k] EXCEPT !.status = IF task[k].status = "needs_review"
                        THEN IF loop.seen = TargetSize(loop.change) THEN "succeeded" ELSE "failed"
                        ELSE task[k].status]
    <3>1. task' = [task EXCEPT ![k] = row]
      BY <1>4 DEF CloseTask
    <3>2. k \in Tasks
      BY <1>0, <1>4, TaskNames DEF CloseTask, LoopInv
    <3>3. task[k] \in TaskRow
      BY <1>0, <3>2
    <3>4. task[k].status = "running" => row.status = "running" /\ row.owner = task[k].owner
      BY <3>3 DEF TaskRow
    <3> HIDE DEF row, k
    <3> QED BY <1>0, <2>2, <3>1, <3>2, <3>4, Runs
  <2>3. Same
    BY <2>1, <2>2, Runs
  <2> QED BY <2>1, <2>3, ExclusiveFrame
<1>5. ASSUME NEW k \in Tasks, LeaseExpires(k) PROVE Exclusive'
  <2>1. UNCHANGED <<handler, container, late>>
    BY <1>5 DEF LeaseExpires, node
  <2>2. ASSUME NEW h \in Handlers, Executing(h)
        PROVE  task'[handler[h].task] = task[handler[h].task] /\ lock' = lock
    <3>1. k # handler[h].task /\ handler[h].task \in Tasks /\ lock # k
      BY <1>5, <2>2, Runs DEF LeaseExpires, Calm
    <3> QED BY <1>0, <1>5, <3>1 DEF LeaseExpires
  <2>3. Same
    BY <2>2, Runs
  <2> QED BY <2>1, <2>3, ExclusiveFrame
<1>6. ~ (\E p \in Plans : createPlanChange(c, p)) /\ ~ Administrator
      /\ ~ \E size \in Sizes : LateApply(size)
  BY <1>0 DEF createPlanChange, Administrator, retryTask, resumeReviewTask, discardReviewTask, Calm,
              LateApply, Exclusive
<1> QED BY <1>1, <1>2, <1>3, <1>4, <1>5, <1>6, ExclusiveHandler DEF Next, User, Loop

\* The loop looks at a resize that is under review, and not while a handler is
\* still busy with its failure, which by then has blocked the change.
Reviewed(c) ==
    /\ loop.pc # "idle" => task[Resize(c)].status = "needs_review"
    /\ \A h \in Handlers : handler[h].pc \in {"observing", "giving_up"} =>
        /\ loop.pc = "idle" /\ handler[h].task = Resize(c)
        /\ task[Resize(c)].status = "needs_review"
        /\ handler[h].pc = "giving_up" => change[c].status # "processing"

\* The resize will not be executed again.
Over(c) == task[Resize(c)].status \notin {"none", "pending", "running"}

\* What was observed is still so while the change is undecided.
Observed(c) ==
    /\ change[c].observed # None =>
        /\ Over(c)
        /\ Undecided(c) => container = change[c].observed
    /\ loop.pc \in {"resume", "settle"} =>
        change[c].observed = loop.seen /\ loop.seen \in {change[c].source, TargetSize(c)}

\* What a step does to the status of the resize.
LEMMA ResizeStatus ==
    ASSUME AllInv, Calm, NEW c, Changes = {c}, change[c].fund # "none", Exclusive, [Next]_vars
    PROVE  \/ task'[Resize(c)].status = task[Resize(c)].status
           \/ /\ task[Resize(c)].status = "pending"
              /\ \/ \E h \in Handlers : claimTask(h, Resize(c))
                 \/ RequestCompensation(c)
           \/ /\ task[Resize(c)].status = "running"
              /\ \/ recoverExpiredTaskLeases(Resize(c))
                 \/ \E h \in Handlers : finishTask(h) /\ handler[h].task = Resize(c)
           \/ /\ task[Resize(c)].status = "needs_review" /\ CloseTask
              /\ task'[Resize(c)].status \in {"succeeded", "failed"}
<1>0. /\ c \in Changes /\ change[c].status # "none" /\ task \in [Tasks -> TaskRow] /\ LoopInv
      /\ Resize(c) \in Tasks /\ task[Resize(c)] \in TaskRow
  BY OneChange, Funds3 DEF AllInv, TypeInv, ControlInv, TasksInv
<1>1. CASE RequestCompensation(c)
  <2>1. task[Resize(c)].status = "pending" \/ task'[Resize(c)] = task[Resize(c)]
    BY <1>0, <1>1, OneChange DEF RequestCompensation
  <2> QED BY <1>1, <2>1
<1>2. ASSUME NEW h \in Handlers, NEW k \in Tasks, claimTask(h, k)
      PROVE  \/ task'[Resize(c)] = task[Resize(c)]
             \/ task[Resize(c)].status = "pending" /\ claimTask(h, Resize(c))
  <2>1. CASE k = Resize(c)
    BY <1>2, <2>1 DEF claimTask
  <2>2. CASE k # Resize(c)
    BY <1>0, <1>2, <2>2 DEF claimTask
  <2> QED BY <2>1, <2>2
<1>3. ASSUME NEW k \in Tasks, recoverExpiredTaskLeases(k)
      PROVE  \/ task'[Resize(c)] = task[Resize(c)]
             \/ task[Resize(c)].status = "running" /\ recoverExpiredTaskLeases(Resize(c))
  <2>1. CASE k = Resize(c)
    BY <1>3, <2>1 DEF recoverExpiredTaskLeases
  <2>2. CASE k # Resize(c)
    BY <1>0, <1>3, <2>2 DEF recoverExpiredTaskLeases
  <2> QED BY <2>1, <2>2
<1>4. ASSUME NEW h \in Handlers, finishTask(h)
      PROVE  \/ task'[Resize(c)] = task[Resize(c)]
             \/ task[Resize(c)].status = "running" /\ handler[h].task = Resize(c)
  <2>1. CASE handler[h].task = Resize(c)
    BY <1>4, <2>1 DEF finishTask, Owns
  <2>2. CASE handler[h].task # Resize(c)
    BY <1>0, <1>4, <2>2 DEF finishTask
  <2> QED BY <2>1, <2>2
<1>5. ASSUME NEW k \in Tasks, LeaseExpires(k)
      PROVE  task'[Resize(c)].status = task[Resize(c)].status
  <2>1. [task[Resize(c)] EXCEPT !.owner = None].status = task[Resize(c)].status
    BY <1>0 DEF TaskRow
  <2> QED BY <1>0, <1>5, <2>1 DEF LeaseExpires
<1>6. CASE CloseTask
  <2> DEFINE next == IF loop.seen = TargetSize(loop.change) THEN "succeeded" ELSE "failed"
             now == IF task[Resize(c)].status = "needs_review" THEN next ELSE task[Resize(c)].status
  <2>1. Resize(loop.change) = Resize(c)
    BY <1>0, <1>6 DEF CloseTask, LoopInv
  <2>2. task' = [task EXCEPT ![Resize(c)].status = now]
    BY <1>6, <2>1 DEF CloseTask
  <2>3. next \in {"succeeded", "failed"}
    OBVIOUS
  <2> HIDE DEF next
  <2>4. task'[Resize(c)].status = now
    BY <1>0, <2>2 DEF TaskRow
  <2> QED BY <1>6, <2>3, <2>4
<1>7. CASE \/ CancelObserved(c) \/ (\E i \in DOMAIN orders : renewWithWallet(i))
           \/ refundOrder \/ NewerIntent
           \/ (\E d \in Changes : reconcileBlockedPlanChanges(d))
           \/ Inspect \/ InspectFails \/ resumeBlockedPlanChange \/ SettleTarget \/ SettleSource
           \/ LoopCrash \/ UNCHANGED vars
           \/ \E h \in Handlers :
                \/ CallAgent(h) \/ AgentApplies(h) \/ AgentAnswers(h) \/ AgentFails(h)
                \/ SettleResize(h) \/ SettleCompensation(h)
                \/ markResizeTaskObserving(h) \/ failDeployment(h) \/ Crash(h)
  <2>1. task' = task
    BY <1>7 DEF CancelObserved, renewWithWallet, refundOrder, NewerIntent,
           reconcileBlockedPlanChanges, Inspect, InspectFails, resumeBlockedPlanChange, SettleTarget,
           SettleSource, LoopCrash, vars, queue, CallAgent, AgentApplies, AgentAnswers, AgentFails,
           SettleResize, SettleCompensation, markResizeTaskObserving, failDeployment, Crash
  <2> QED BY <2>1
<1>8. ~ (\E p \in Plans : createPlanChange(c, p)) /\ ~ Administrator
      /\ ~ \E size \in Sizes : LateApply(size)
  BY <1>0 DEF createPlanChange, Administrator, retryTask, resumeReviewTask, discardReviewTask, Calm,
              LateApply, Exclusive
<1> QED BY <1>1, <1>2, <1>3, <1>4, <1>5, <1>6, <1>7, <1>8 DEF Next, User, Handler, Loop

\* Only the loop moves the loop, and only handlers move handlers.
LEMMA Elsewhere ==
    ASSUME [Next]_vars
    PROVE  /\ Loop \/ loop' = loop
           /\ (\E h \in Handlers : Handler(h)) \/ handler' = handler
           /\ container' # container => (\E h \in Handlers : AgentApplies(h))
                                        \/ (\E size \in Sizes : LateApply(size))
<1>1. CASE User
  BY <1>1 DEF User, CancelObserved, RequestCompensation, createPlanChange, renewWithWallet,
              refundOrder, NewerIntent, node
<1>2. ASSUME NEW h \in Handlers, Handler(h)
      PROVE  loop' = loop /\ (container' # container => AgentApplies(h))
  BY <1>2 DEF Handler, claimTask, CallAgent, AgentApplies, AgentAnswers, AgentFails, SettleResize,
         SettleCompensation, finishTask, markResizeTaskObserving, failDeployment, Crash, node
<1>3. CASE Loop
  BY <1>3 DEF Loop, recoverExpiredTaskLeases, reconcileBlockedPlanChanges, Inspect, InspectFails,
         resumeBlockedPlanChange, SettleTarget, SettleSource, CloseTask, LoopCrash, node
<1>4. CASE Administrator
  BY <1>4 DEF Administrator, retryTask, resumeReviewTask, discardReviewTask, node
<1>5. CASE \E k \in Tasks : LeaseExpires(k)
  BY <1>5 DEF LeaseExpires, node
<1>6. CASE \E size \in Sizes : LateApply(size)
  BY <1>6 DEF LateApply
<1>7. CASE UNCHANGED vars
  BY <1>7 DEF vars, node
<1> QED BY <1>1, <1>2, <1>3, <1>4, <1>5, <1>6, <1>7 DEF Next

LEMMA ObservedNow ==
    ASSUME AllInv, Inspect, loop.change \in Changes
    PROVE  change'[loop.change].observed = container /\ UNCHANGED <<task, container>>
<1> DEFINE d == loop.change
           b == Blocked(change[d])
           seen == [change[d] EXCEPT !.observed = container]
           odd == [b EXCEPT !.observed = container]
<1>1. /\ change' = [change EXCEPT ![d] = seen] \/ change' = [change EXCEPT ![d] = odd]
      /\ UNCHANGED <<task, container>>
  BY DEF Inspect, queue, node
<1>2. seen.observed = container
  BY Funds3, RowFunds
<1>3. b \in ChangeRow
  BY Funds3, RowsAlike DEF SameDeal, AllInv, TypeInv, SizesInv
<1> HIDE DEF b
<1>4. odd.observed = container
  BY <1>3, RowFunds
<1> HIDE DEF odd, seen
<1> QED BY <1>1, <1>2, <1>4 DEF AllInv, TypeInv

LEMMA ObservedKept ==
    ASSUME AllInv, Calm, NEW c, Changes = {c}, TargetInv(c), change[c].fund # "none", AllFollow,
           Exclusive, Reviewed(c), Observed(c), [Next]_vars
    PROVE  Observed(c)'
<1>0. /\ c \in Changes /\ change[c].status # "none" /\ LoopInv
      /\ \A p \in Plans : ~ createPlanChange(c, p)
      /\ loop.pc # "idle" => loop.change = c
  BY OneChange, Funds3 DEF AllInv, TypeInv, ControlInv, LoopInv, createPlanChange
<1>1. CASE Inspect
  <2>1. change'[c].observed = container /\ UNCHANGED <<task, container>> /\ loop.pc = "inspect"
    BY <1>0, <1>1, ObservedNow DEF Inspect
  <2>2. \/ loop'.pc \notin {"resume", "settle"}
        \/ loop'.seen = container /\ container \in {change[c].source, TargetSize(c)}
    <3>0. loop.change = c /\ (loop' = IdleLoop \/ container \in {change[c].source, TargetSize(c)})
      BY <1>0, <1>1 DEF Inspect
    <3>1. loop \in LoopRow
      BY <1>0 DEF LoopInv
    <3>2. CASE loop' = [loop EXCEPT !.pc = "resume", !.seen = container]
      <4>1. loop'.pc = "resume" /\ loop'.seen = container
        BY <3>1, <3>2 DEF LoopRow
      <4> QED BY <3>0, <4>1 DEF IdleLoop
    <3>3. CASE loop' = IdleLoop
      BY <3>3 DEF IdleLoop
    <3> QED BY <1>1, <3>0, <3>2, <3>3 DEF Inspect, IdleLoop
  <2>3. task[Resize(c)].status = "needs_review"
    BY <2>1 DEF Reviewed
  <2>4. change'[c].source = change[c].source /\ TargetSize(c)' = TargetSize(c)
    BY <1>0 DEF AllFollow, Follows, TargetSize
  <2> QED BY <2>1, <2>2, <2>3, <2>4 DEF Observed, Over
<1>2. CASE ~ Inspect
  <2>1. change'[c].observed = change[c].observed
    BY <1>0, <1>2, NextQuiet DEF Quiet, Unresumed
  <2>2. change[c].observed # None => Over(c)'
    <3>1. \/ task'[Resize(c)].status = task[Resize(c)].status
          \/ task[Resize(c)].status \in {"pending", "running"}
          \/ task'[Resize(c)].status \in {"succeeded", "failed"}
      BY ResizeStatus
    <3> QED BY <3>1 DEF Observed, Over
  <2>3. Undecided(c)' => Undecided(c)
    BY <1>0, Deciding
  <2>4. change[c].observed # None /\ Undecided(c) => container' = container
    <3>1. SUFFICES ASSUME Over(c), Undecided(c), NEW h \in Handlers, AgentApplies(h) PROVE FALSE
      BY Elsewhere DEF Observed, LateApply, Exclusive
    <3>2. Executing(h) /\ handler[h].task = Resize(c)
      BY <3>1 DEF AgentApplies, Executing, TargetInv, Resizing
    <3> QED BY <3>1, <3>2, Runs DEF Over
  <2>5. loop'.pc \in {"resume", "settle"} => loop.pc \in {"resume", "settle"} /\ loop'.seen = loop.seen
    <3>1. \/ loop' = loop \/ loop'.pc \in {"inspect", "idle", "close"}
          \/ loop.pc = "resume" /\ loop'.pc = "settle" /\ loop'.seen = loop.seen
      BY <1>0, <1>2, Elsewhere, LoopGoes
    <3> QED BY <3>1
  <2>6. change'[c].source = change[c].source /\ TargetSize(c)' = TargetSize(c)
    BY <1>0 DEF AllFollow, Follows, TargetSize
  <2> QED BY <2>1, <2>2, <2>3, <2>4, <2>5, <2>6 DEF Observed
<1> QED BY <1>1, <1>2

LEMMA ReviewedLoop ==
    ASSUME AllInv, Calm, NEW c, Changes = {c}, change[c].fund # "none", Exclusive, Reviewed(c), [Next]_vars,
           loop'.pc # "idle"
    PROVE  task'[Resize(c)].status = "needs_review"
<1>0. c \in Changes /\ LoopInv /\ task \in [Tasks -> TaskRow] /\ Resize(c) \in Tasks
  BY OneChange DEF AllInv, TypeInv, ControlInv, TasksInv
<1>1. CASE loop.pc # "idle"
  <2>1. task[Resize(c)].status = "needs_review"
    BY <1>1 DEF Reviewed
  <2>2. ~ CloseTask
    BY DEF CloseTask, IdleLoop
  <2> QED BY <2>1, <2>2, ResizeStatus
<1>2. CASE loop.pc = "idle"
  <2>1. \/ \E k \in Tasks : recoverExpiredTaskLeases(k) /\ k[1] = "resize"
        \/ \E d \in Changes : reconcileBlockedPlanChanges(d)
    BY <1>0, <1>2, Elsewhere, LoopGoes
  <2>2. ASSUME NEW k \in Tasks, recoverExpiredTaskLeases(k), k[1] = "resize"
        PROVE  task'[Resize(c)].status = "needs_review"
    <3>1. k = Resize(c) /\ task[k] \in TaskRow
      BY <1>0, <2>2, OneChange
    <3>2. [task[k] EXCEPT !.status = "needs_review"].status = "needs_review"
      BY <3>1 DEF TaskRow
    <3> QED BY <1>0, <2>2, <3>1, <3>2 DEF recoverExpiredTaskLeases
  <2>3. ASSUME NEW d \in Changes, reconcileBlockedPlanChanges(d)
        PROVE  task'[Resize(c)].status = "needs_review"
    BY <2>3 DEF reconcileBlockedPlanChanges, queue
  <2> QED BY <2>1, <2>2, <2>3
<1> QED BY <1>1, <1>2

LEMMA ReviewedHandler ==
    ASSUME AllInv, Calm, NEW c, Changes = {c}, change[c].fund # "none", Exclusive, Reviewed(c), [Next]_vars,
           NEW h \in Handlers, handler'[h].pc \in {"observing", "giving_up"}
    PROVE  /\ loop'.pc = "idle" /\ handler'[h].task = Resize(c)
           /\ task'[Resize(c)].status = "needs_review"
           /\ handler'[h].pc = "giving_up" => change'[c].status # "processing"
<1>0. /\ c \in Changes /\ change[c].status # "none" /\ LoopInv /\ HandlersInv
      /\ task \in [Tasks -> TaskRow] /\ Resize(c) \in Tasks
      /\ \A p \in Plans : ~ createPlanChange(c, p)
  BY OneChange, Funds3 DEF AllInv, TypeInv, ControlInv, TasksInv, createPlanChange
<1>1. \/ handler'[h] = handler[h]
      \/ /\ handler[h].pc = "observing" /\ handler'[h].pc = "giving_up"
         /\ handler'[h].task = handler[h].task /\ markResizeTaskObserving(h)
      \/ /\ handler[h].pc = "finishing" /\ handler'[h].pc = "observing"
         /\ handler'[h].task = handler[h].task /\ finishTask(h)
  <2>1. ASSUME NEW g \in Handlers, Handler(g), handler' # handler
        PROVE  \/ handler'[h] = handler[h]
               \/ /\ handler[h].pc = "observing" /\ handler'[h].pc = "giving_up"
                  /\ handler'[h].task = handler[h].task /\ markResizeTaskObserving(h)
               \/ /\ handler[h].pc = "finishing" /\ handler'[h].pc = "observing"
                  /\ handler'[h].task = handler[h].task /\ finishTask(h)
    <3>1. ASSUME NEW k \in Tasks, claimTask(g, k) PROVE handler'[h] = handler[h]
      BY <1>0, <3>1 DEF claimTask, HandlersInv
    <3>2. CASE ~ \E k \in Tasks : claimTask(g, k)
      <4>1. CASE g = h
        BY <1>0, <2>1, <3>2, <4>1, HandlerGoes DEF Moves
      <4>2. CASE g # h
        BY <1>0, <2>1, <3>2, <4>2, HandlerGoes DEF Moves
      <4> QED BY <4>1, <4>2
    <3> QED BY <3>1, <3>2
  <2> QED BY <2>1, Elsewhere
<1>2. CASE handler[h].pc \in {"observing", "giving_up"}
  <2>1. /\ loop.pc = "idle" /\ handler[h].task = Resize(c)
        /\ task[Resize(c)].status = "needs_review"
        /\ handler[h].pc = "giving_up" => change[c].status # "processing"
    BY <1>2 DEF Reviewed
  <2>2. loop'.pc = "idle"
    <3>1. ASSUME NEW k \in Tasks, k[1] = "resize" PROVE ~ recoverExpiredTaskLeases(k)
      <4>1. k = Resize(c)
        BY <3>1, OneChange
      <4> QED BY <2>1, <4>1 DEF recoverExpiredTaskLeases
    <3>2. \A d \in Changes : ~ reconcileBlockedPlanChanges(d)
      BY <1>2, <2>1 DEF reconcileBlockedPlanChanges, HandlersDone, Calm
    <3> QED BY <1>0, <2>1, <3>1, <3>2, Elsewhere, LoopGoes
  <2>3. task'[Resize(c)].status = "needs_review"
    BY <2>1, ResizeStatus DEF CloseTask
  <2>4. handler'[h].task = Resize(c)
    BY <1>1, <2>1
  <2>5. handler'[h].pc = "giving_up" => change'[c].status # "processing"
    <3>1. CASE handler'[h] = handler[h]
      <4>1. Quiet(c)
        BY <1>0, <2>1, NextQuiet
      <4> QED BY <2>1, <3>1, <4>1 DEF Quiet, Unresumed
    <3>2. CASE markResizeTaskObserving(h)
      <4> DEFINE row == Blocked(change[c])
      <4>1. row.status # "processing"
        BY <1>0, Funds3, RowQuiet
      <4>2. change' = [change EXCEPT ![c] = row]
        BY <2>1, <3>2, OneChange DEF markResizeTaskObserving, MarkBlocked, Calm
      <4> HIDE DEF row
      <4> QED BY <1>0, <4>1, <4>2, OneRow
    <3> QED BY <1>1, <1>2, <3>1, <3>2
  <2> QED BY <2>2, <2>3, <2>4, <2>5
<1>3. CASE handler[h].pc = "finishing" /\ handler'[h].pc = "observing" /\ finishTask(h)
           /\ handler'[h].task = handler[h].task
  <2> DEFINE k == handler[h].task
             row == [task[k] EXCEPT !.status = "needs_review", !.owner = None]
  <2>1. Executing(h)
    BY <1>3 DEF Executing
  <2>2. k \in Tasks /\ task[k] \in TaskRow /\ task[k].status = "running"
    BY <2>1, Runs
  <2>3. Moves(h, "idle", "none") \/ (k[1] = "resize" /\ task' = [task EXCEPT ![k] = row])
    BY <1>0, <1>3, LeaveMoves DEF finishTask
  <2>4. k[1] = "resize" /\ task' = [task EXCEPT ![k] = row]
    BY <1>3, <2>3 DEF Moves
  <2>5. k = Resize(c)
    BY <2>2, <2>4, OneChange
  <2>6. row.status = "needs_review"
    BY <2>2 DEF TaskRow
  <2>7. loop' = loop /\ loop.pc = "idle"
    BY <1>3, <2>2, <2>5 DEF finishTask, Reviewed
  <2> HIDE DEF row
  <2>8. task'[Resize(c)].status = "needs_review"
    BY <1>0, <2>4, <2>5, <2>6
  <2> QED BY <1>3, <2>5, <2>7, <2>8
<1> QED BY <1>1, <1>2, <1>3

SourceInv(c) == Exclusive /\ Reviewed(c) /\ Observed(c)

LEMMA InitSource == ASSUME Init, NEW c, Changes = {c} PROVE SourceInv(c)
BY DEF Init, SourceInv, Exclusive, Reviewed, Observed, Executing, NoChange, IdleLoop, IdleHandler

LEMMA SourceKept ==
    ASSUME AllInv, Calm, NEW c, Changes = {c}, TargetInv(c), SourceInv(c), [Next]_vars
    PROVE  SourceInv(c)'
<1>0. c \in Changes /\ Resize(c) \in Tasks
  BY OneChange
<1>1. CASE change[c].fund = "none"
  <2>1. Untouched /\ change[c].observed = None
    BY <1>0, <1>1 DEF TargetInv, Untouched, SourceInv, Observed, Over
  <2>2. UNCHANGED <<handler, loop, late>> /\ change'[c].observed = None
    <3>1. ASSUME NEW p \in Plans, createPlanChange(c, p)
          PROVE  UNCHANGED <<handler, loop, late>> /\ change'[c].observed = None
      <4> DEFINE row == [NoChange EXCEPT !.status = "processing", !.saga = "applying",
                             !.fund = "pending", !.source = inst.size,
                             !.target = p, !.items = Active,
                             !.reserve = Cardinality(Active) * Price[p]]
      <4>1. change' = [change EXCEPT ![c] = row] /\ UNCHANGED <<handler, loop, late>>
        BY <3>1 DEF createPlanChange, node
      <4>2. row.observed = None
        BY CreatedRow
      <4> HIDE DEF row
      <4> QED BY <1>0, <4>1, <4>2 DEF AllInv, TypeInv
    <3>2. CASE refundOrder
      BY <2>1, <3>2 DEF refundOrder, node
    <3> QED BY <1>1, <2>1, <3>1, <3>2, UntouchedStep
  <2> QED BY <2>1, <2>2 DEF SourceInv, Exclusive, Reviewed, Observed, Executing, Untouched
<1>2. CASE change[c].fund # "none"
  <2>1. AllFollow
    BY <1>0, <1>2, NextFollows, Funds3 DEF createPlanChange
  <2>2. Exclusive' /\ Observed(c)'
    BY <1>2, <2>1, ExclusiveKept, ObservedKept DEF SourceInv
  <2>3. Reviewed(c)'
    BY <1>2, <2>1, ReviewedLoop, ReviewedHandler DEF SourceInv, Reviewed
  <2> QED BY <2>2, <2>3 DEF SourceInv
<1> QED BY <1>1, <1>2

LEMMA ReleasedThere ==
    ASSUME AllInv, Calm, NEW c, Changes = {c}, SourceInv(c), [Next]_vars, Becomes(c, "released")
    PROVE  container = change[c].source
<1>1. c \in Changes /\ Turns(c) /\ change'[c].fund = "released"
  BY OneChange DEF Turns, Becomes
<1>2. Releasing(c)
  BY <1>1, WhoTurns DEF Settling
<1>3. \A s \in Sizes : s # None
  BY PlanChangeAssumption DEF PlanChangeAssumption, Sizes
<1>4. change[c].source \in Sizes /\ TargetSize(c) \in Sizes
  BY <1>1, RowOf DEF AllInv
<1>5. CASE CancelObserved(c)
  <2>1. Undecided(c) /\ change[c].observed = change[c].source
    BY <1>1, <1>5, Funds3 DEF CancelObserved, Cancellable, Undecided
  <2> QED BY <1>3, <1>4, <2>1 DEF SourceInv, Observed
<1>6. ASSUME NEW h \in Handlers, SettleCompensation(h), handler[h].task = Compensation(c)
      PROVE  container = change[c].source
  <2>1. container = SizeFor(Compensation(c))
    BY <1>6 DEF SettleCompensation, SourceInv, Exclusive
  <2> QED BY <2>1, OneChange DEF SizeFor
<1>7. ASSUME NEW h \in Handlers, failDeployment(h) PROVE change[c].status # "processing"
  BY <1>7 DEF failDeployment, SourceInv, Reviewed
<1>8. CASE SettleSource /\ change[c].status = "processing"
  <2>1. Undecided(c)
    BY <1>1, <1>8, Funds3 DEF Undecided
  <2>2. loop.pc = "settle" /\ loop.seen # TargetSize(c)
    <3>1. loop.pc = "settle" /\ loop.change \in Changes
      BY <1>8 DEF SettleSource, AllInv, TypeInv, ControlInv, LoopInv
    <3> QED BY <1>8, <3>1 DEF SettleSource
  <2>3. change[c].observed = change[c].source
    BY <2>2 DEF SourceInv, Observed
  <2> QED BY <1>3, <1>4, <2>1, <2>3 DEF SourceInv, Observed
<1>9. \A k \in Tasks : ~ discardReviewTask(k)
  BY DEF discardReviewTask, Calm
<1> QED BY <1>2, <1>5, <1>6, <1>7, <1>8, <1>9 DEF Releasing

\* In calm surroundings the reservation of a change that is the only one is
\* only released while the container has the source resources: by the loop, by
\* a compensation or because the user cancels what was observed.
THEOREM SourceCorrect ==
    ASSUME NEW one, Changes = {one}, Calm
    PROVE  Spec => ReleasedOnSource
<1> DEFINE Inv == AllInv /\ TargetInv(one) /\ SourceInv(one)
<1>1. Init => Inv
  BY InitAll, InitTarget, InitSource
<1>2. Inv /\ [Next]_vars => Inv'
  BY AllKept, TargetKept, SourceKept
<1>3. Inv /\ [Next]_vars =>
        [\A c \in Changes : Becomes(c, "released") => container = change[c].source]_vars
  BY ReleasedThere
<1> HIDE DEF Inv
<1> QED BY <1>1, <1>2, <1>3, PTL DEF Spec, ReleasedOnSource

\* The orders of a settlement that exchanges all active ones.
LEMMA ExchangedAll ==
    ASSUME AllInv, NEW c \in Changes, Complete(c), Active \subseteq change[c].items
    PROVE  \A i \in Active' : orders'[i].plan = change[c].target
<1> DEFINE items == change[c].items
           n == Cardinality(items)
           f == [i \in DOMAIN orders |->
                    IF i \in items /\ orders[i].status = "active"
                    THEN [orders[i] EXCEPT !.status = "exchanged"] ELSE orders[i]]
           row == ActiveOrder(change[c].target, c)
           g == [j \in 1..n |-> row]
           New == Len(orders) + 1 .. Len(orders) + n
<1>1. n \in Nat /\ change[c].target \in Plans /\ MoneyInv /\ orders \in Seq(OrderRow)
  BY CountNat DEF AllInv, MoneyInv, Books, ChangeRow
<1>2. orders' = f \o g
  BY DEF Complete
<1>3. row \in OrderRow /\ row.plan = change[c].target
  BY <1>1, ActiveOrderRow DEF ActiveOrder
<1>4. \A i \in DOMAIN orders : orders[i] \in OrderRow
  BY <1>1, OrdersKnown DEF MoneyInv
<1>5. f \in [DOMAIN orders -> OrderRow] /\ \A i \in DOMAIN orders : f[i].status # "active"
  <2>1. ASSUME NEW i \in DOMAIN orders PROVE f[i] \in OrderRow /\ f[i].status # "active"
    <3>1. CASE orders[i].status = "active"
      <4>1. i \in items
        BY <3>1 DEF Active
      <4>2. f[i] = [orders[i] EXCEPT !.status = "exchanged"]
        BY <3>1, <4>1
      <4> QED BY <1>4, <4>2 DEF OrderRow
    <3>2. CASE orders[i].status # "active"
      BY <1>4, <3>2
    <3> QED BY <3>1, <3>2
  <2> QED BY <2>1
<1> HIDE DEF row, f
<1>6. g \in [1..n -> OrderRow] /\ \A j \in 1..n : g[j] = row
  BY <1>3
<1> HIDE DEF g
<1>7. /\ orders' \in Seq(OrderRow)
      /\ DOMAIN orders' = DOMAIN orders \cup New
      /\ \A i \in DOMAIN orders : orders'[i] = f[i]
      /\ \A i \in New : i \notin DOMAIN orders /\ \E k \in 1..n : orders'[i] = g[k]
  <2>1. n \in Nat /\ orders \in Seq(OrderRow) /\ f \in [DOMAIN orders -> OrderRow]
        /\ g \in [1..n -> OrderRow]
    BY <1>1, <1>5, <1>6
  <2> HIDE DEF n, items
  <2> QED BY <1>2, <2>1, OrdersExtended
<1> HIDE DEF New, n
<1> QED BY <1>3, <1>5, <1>6, <1>7 DEF Active

\* Without renewals no other step adds an active order.
FewerOrders == Active' \subseteq Active /\ \A i \in Active' : orders'[i].plan = orders[i].plan

LEMMA OrdersStep ==
    ASSUME AllInv, "renew" \notin Events, [Next]_vars
    PROVE  FewerOrders \/ \E c \in Changes : change[c].status = "processing" /\ Complete(c)
<1>0. /\ loop.pc # "idle" => loop.change \in Changes
      /\ \A h \in Handlers : handler[h].pc # "idle" => handler[h].task[2] \in Changes
  BY TaskNames DEF AllInv, TypeInv, ControlInv, LoopInv, HandlersInv
<1>1. orders' = orders => FewerOrders
  BY DEF FewerOrders, Active
<1>2. CASE refundOrder
  <2>1. \A i \in DOMAIN orders : orders[i] \in OrderRow
    BY OrdersKnown DEF AllInv, MoneyInv
  <2>2. \A i \in Active : [orders[i] EXCEPT !.status = "refunded"].status # "active"
    BY <2>1 DEF OrderRow, Active
  <2>3. orders' = [i \in DOMAIN orders |->
            IF i \in Active THEN [orders[i] EXCEPT !.status = "refunded"] ELSE orders[i]]
    BY <1>2 DEF refundOrder
  <2>4. ASSUME NEW i \in Active' PROVE FALSE
    <3>1. i \in DOMAIN orders /\ orders'[i].status = "active"
      BY <2>3 DEF Active
    <3> QED BY <2>2, <2>3, <3>1 DEF Active
  <2> QED BY <2>4 DEF FewerOrders
<1>3. ASSUME NEW d \in Changes, NEW STATE owned, NEW ACTION done, NEW ACTION error,
             completePlanChange(d, owned, done, error)
      PROVE  orders' = orders \/ (change[d].status = "processing" /\ Complete(d))
  BY <1>3 DEF completePlanChange, MarkBlocked, money
<1>4. ASSUME NEW h \in Handlers, SettleResize(h)
      PROVE  orders' = orders \/ \E c \in Changes : change[c].status = "processing" /\ Complete(c)
  BY <1>0, <1>3, <1>4 DEF SettleResize
<1>5. ASSUME SettleTarget
      PROVE  orders' = orders \/ \E c \in Changes : change[c].status = "processing" /\ Complete(c)
  BY <1>0, <1>3, <1>5 DEF SettleTarget
<1>6. ASSUME NEW d, TryFail(d) \/ MarkBlocked(d) \/ cancelPlanChangeSettlementTx(d) PROVE orders' = orders
  BY <1>6 DEF TryFail, failPlanChange, MarkBlocked, cancelPlanChangeSettlementTx, ReleaseFunds, money
<1>7. ASSUME NEW h \in Handlers, Handler(h), ~ SettleResize(h) PROVE orders' = orders
  <2>1. CASE SettleCompensation(h) \/ markResizeTaskObserving(h) \/ failDeployment(h)
    BY <1>6, <2>1 DEF SettleCompensation, markResizeTaskObserving, failDeployment, money
  <2> QED BY <1>7, <2>1 DEF Handler, claimTask, CallAgent, AgentApplies, AgentAnswers, AgentFails,
         finishTask, Crash, money
<1>8. ASSUME User, ~ refundOrder PROVE orders' = orders
  <2>1. ASSUME NEW c \in Changes, CancelObserved(c) PROVE orders' = orders
    BY <1>6, <2>1 DEF CancelObserved
  <2> QED BY <1>8, <2>1 DEF User, RequestCompensation, createPlanChange, renewWithWallet, NewerIntent, money
<1>9. ASSUME Loop, ~ SettleTarget PROVE orders' = orders
  <2>1. CASE InspectFails \/ SettleSource
    BY <1>6, <2>1 DEF InspectFails, SettleSource
  <2> QED BY <1>9, <2>1 DEF Loop, recoverExpiredTaskLeases, reconcileBlockedPlanChanges, Inspect,
         resumeBlockedPlanChange, CloseTask, LoopCrash, money
<1>10. ASSUME Administrator PROVE orders' = orders
  BY <1>6, <1>10 DEF Administrator, retryTask, resumeReviewTask, discardReviewTask, money
<1>11. ASSUME \/ (\E k \in Tasks : LeaseExpires(k)) \/ (\E size \in Sizes : LateApply(size))
              \/ UNCHANGED vars
       PROVE  orders' = orders
  BY <1>11 DEF LeaseExpires, LateApply, vars, money
<1> QED BY <1>1, <1>2, <1>4, <1>5, <1>7, <1>8, <1>9, <1>10, <1>11 DEF Next

\* Who changes the instance row.
LEMMA InstStep ==
    ASSUME AllInv, [Next]_vars
    PROVE  /\ Usable' => Usable
           /\ \/ inst'.size = inst.size
              \/ \E c \in Changes : change[c].status = "processing" /\ Complete(c)
              \/ \E h \in Handlers : /\ SettleCompensation(h)
                                     /\ inst'.size = change[handler[h].task[2]].source
<1>0. /\ loop.pc # "idle" => loop.change \in Changes
      /\ \A h \in Handlers : handler[h].pc # "idle" => handler[h].task[2] \in Changes
      /\ SizesInv /\ inst.status \in {"running", "destroy_scheduled"}
  BY TaskNames DEF AllInv, TypeInv, ControlInv, LoopInv, HandlersInv, SizesInv
<1>1. ASSUME NEW d \in Changes, NEW STATE owned, NEW ACTION done, NEW ACTION error,
             completePlanChange(d, owned, done, error)
      PROVE  /\ Usable' => Usable
             /\ inst'.size = inst.size \/ (change[d].status = "processing" /\ Complete(d))
  <2>1. CASE change[d].status = "processing" /\ Complete(d)
    <3>1. inst'.status = inst.status
      BY <1>0, <2>1 DEF Complete, SizesInv
    <3> QED BY <2>1, <3>1 DEF Usable
  <2> QED BY <1>1, <2>1 DEF completePlanChange, Usable
<1>2. ASSUME NEW h \in Handlers, SettleResize(h)
      PROVE  /\ Usable' => Usable
             /\ inst'.size = inst.size
                \/ \E c \in Changes : change[c].status = "processing" /\ Complete(c)
  BY <1>0, <1>1, <1>2 DEF SettleResize
<1>3. CASE SettleTarget
  BY <1>0, <1>1, <1>3 DEF SettleTarget
<1>4. ASSUME NEW h \in Handlers, SettleCompensation(h)
      PROVE  /\ Usable' => Usable
             /\ inst'.size = inst.size \/ inst'.size = change[handler[h].task[2]].source
  <2>1. \/ inst' = inst
        \/ inst' = [inst EXCEPT !.size = change[handler[h].task[2]].source]
    BY <1>4 DEF SettleCompensation
  <2> QED BY <1>0, <2>1 DEF SizesInv, Usable
<1>5. CASE refundOrder
  <2>1. inst' = [inst EXCEPT !.status = "destroy_scheduled"] /\ Usable
    BY <1>5 DEF refundOrder
  <2> QED BY <1>0, <2>1 DEF SizesInv
<1>6. ASSUME NEW h \in Handlers, Handler(h), ~ SettleResize(h), ~ SettleCompensation(h) PROVE inst' = inst
  BY <1>6 DEF Handler, claimTask, CallAgent, AgentApplies, AgentAnswers, AgentFails,
         finishTask, markResizeTaskObserving, failDeployment, Crash
<1>7. ASSUME User, ~ refundOrder PROVE inst' = inst
  BY <1>7 DEF User, CancelObserved, RequestCompensation, createPlanChange, renewWithWallet, NewerIntent
<1>8. ASSUME Loop, ~ SettleTarget PROVE inst' = inst
  BY <1>8 DEF Loop, recoverExpiredTaskLeases, reconcileBlockedPlanChanges, Inspect, InspectFails,
         resumeBlockedPlanChange, SettleSource, CloseTask, LoopCrash
<1>9. ASSUME \/ Administrator \/ (\E k \in Tasks : LeaseExpires(k))
             \/ (\E size \in Sizes : LateApply(size)) \/ UNCHANGED vars
      PROVE  inst' = inst
  BY <1>9 DEF Administrator, retryTask, resumeReviewTask, discardReviewTask, LeaseExpires, LateApply, vars
<1>10. inst' = inst => (Usable' => Usable) /\ inst'.size = inst.size
  BY DEF Usable
<1>11. CASE inst' = inst
  BY <1>10, <1>11
<1>12. CASE inst' # inst
  <2>1. \/ \E h \in Handlers : SettleResize(h) \/ SettleCompensation(h)
        \/ SettleTarget \/ refundOrder
    BY <1>6, <1>7, <1>8, <1>9, <1>12 DEF Next
  <2> QED BY <1>2, <1>3, <1>4, <1>5, <2>1
<1> QED BY <1>11, <1>12

LEMMA CompleteSettles ==
    ASSUME AllInv, NEW c \in Changes, Complete(c)
    PROVE  change'[c].fund = "settled" /\ inst'.size = Resources[change[c].target]
<1> DEFINE row == [change[c] EXCEPT !.status = "succeeded", !.saga = "settled", !.fund = "settled"]
<1>1. change' = [change EXCEPT ![c] = row] /\ row.fund = "settled"
  BY Funds3, RowFunds DEF Complete
<1> HIDE DEF row
<1>2. inst'.size = Resources[change[c].target]
  BY DEF Complete, AllInv, TypeInv, SizesInv
<1> QED BY <1>1, <1>2, OneRow

\* A task that was never created is only created by its request.
LEMMA NoCompensation ==
    ASSUME AllInv, Calm, NEW c, Changes = {c}, change[c].fund # "none", Exclusive, [Next]_vars,
           task[Compensation(c)].status = "none", ~ RequestCompensation(c)
    PROVE  task'[Compensation(c)].status = "none"
<1>0. /\ c \in Changes /\ change[c].status # "none" /\ task \in [Tasks -> TaskRow] /\ LoopInv
      /\ Resize(c) # Compensation(c) /\ Compensation(c) \in Tasks /\ task[Compensation(c)] \in TaskRow
  BY OneChange, Funds3 DEF AllInv, TypeInv, ControlInv, TasksInv
<1>1. ASSUME NEW h \in Handlers, NEW k \in Tasks, claimTask(h, k)
      PROVE  task'[Compensation(c)] = task[Compensation(c)]
  BY <1>0, <1>1 DEF claimTask
<1>2. ASSUME NEW h \in Handlers, finishTask(h) PROVE task'[Compensation(c)] = task[Compensation(c)]
  BY <1>0, <1>2 DEF finishTask, Owns
<1>3. ASSUME NEW k \in Tasks, recoverExpiredTaskLeases(k)
      PROVE  task'[Compensation(c)] = task[Compensation(c)]
  BY <1>0, <1>3 DEF recoverExpiredTaskLeases
<1>4. ASSUME NEW k \in Tasks, LeaseExpires(k) PROVE task'[Compensation(c)].status = "none"
  <2>1. [task[Compensation(c)] EXCEPT !.owner = None].status = "none"
    BY <1>0 DEF TaskRow
  <2> QED BY <1>0, <1>4, <2>1 DEF LeaseExpires
<1>5. ASSUME CloseTask PROVE task'[Compensation(c)] = task[Compensation(c)]
  <2>1. Resize(loop.change) = Resize(c)
    BY <1>0, <1>5 DEF CloseTask, LoopInv
  <2> QED BY <1>0, <1>5, <2>1 DEF CloseTask
<1>6. ASSUME \/ CancelObserved(c) \/ (\E i \in DOMAIN orders : renewWithWallet(i))
             \/ refundOrder \/ NewerIntent
             \/ (\E d \in Changes : reconcileBlockedPlanChanges(d))
             \/ Inspect \/ InspectFails \/ resumeBlockedPlanChange \/ SettleTarget \/ SettleSource
             \/ LoopCrash \/ UNCHANGED vars
             \/ \E h \in Handlers :
                  \/ CallAgent(h) \/ AgentApplies(h) \/ AgentAnswers(h) \/ AgentFails(h)
                  \/ SettleResize(h) \/ SettleCompensation(h)
                  \/ markResizeTaskObserving(h) \/ failDeployment(h) \/ Crash(h)
      PROVE  task' = task
  BY <1>6 DEF CancelObserved, renewWithWallet, refundOrder, NewerIntent,
           reconcileBlockedPlanChanges, Inspect, InspectFails, resumeBlockedPlanChange, SettleTarget,
           SettleSource, LoopCrash, vars, queue, CallAgent, AgentApplies, AgentAnswers, AgentFails,
           SettleResize, SettleCompensation, markResizeTaskObserving, failDeployment, Crash
<1>7. ~ (\E p \in Plans : createPlanChange(c, p)) /\ ~ Administrator
      /\ ~ \E size \in Sizes : LateApply(size)
  BY <1>0 DEF createPlanChange, Administrator, retryTask, resumeReviewTask, discardReviewTask, Calm,
              LateApply, Exclusive
<1> QED BY <1>1, <1>2, <1>3, <1>4, <1>5, <1>6, <1>7 DEF Next, User, Handler, Loop

\* What is left to do once a change is charged for: at most to note the success.
Charged(c) ==
    /\ container = TargetSize(c)
    /\ task[Compensation(c)].status = "none" /\ task[Resize(c)].status # "pending"
    /\ \A h \in Handlers :
        /\ handler[h].pc # "idle" => handler[h].task = Resize(c)
        /\ Executing(h) => handler[h].pc = "finishing" /\ handler[h].err = "none"

\* How a handler that is charged with this moves on.
LEMMA ChargedKept ==
    ASSUME AllInv, Calm, NEW c, Changes = {c}, change[c].fund = "settled", AllFollow,
           Exclusive, Charged(c), [Next]_vars
    PROVE  Charged(c)'
<1>0. /\ c \in Changes /\ change[c].status = "succeeded" /\ HandlersInv
      /\ Resize(c) \in Tasks /\ Tasks = {Resize(c), Compensation(c)} /\ task \in [Tasks -> TaskRow]
      /\ TargetSize(c)' = TargetSize(c)
  <2>1. c \in Changes /\ Resize(c) \in Tasks /\ Tasks = {Resize(c), Compensation(c)}
    BY OneChange
  <2>2. change[c].status = "succeeded"
    BY <2>1 DEF AllInv, FundsInv, WellFormed, FundStates
  <2> QED BY <2>1, <2>2 DEF AllInv, TypeInv, ControlInv, TasksInv, AllFollow, Follows, TargetSize
<1>1. container' = container
  <2>1. \A h \in Handlers : ~ AgentApplies(h)
    BY DEF AgentApplies, Charged, Executing
  <2> QED BY <2>1, Elsewhere DEF LateApply, Exclusive
<1>2. task'[Compensation(c)].status = "none"
  <2>1. ~ RequestCompensation(c)
    BY <1>0 DEF RequestCompensation, Cancellable
  <2> QED BY <1>0, <2>1, NoCompensation DEF Charged
<1>3. ASSUME NEW h \in Handlers, NEW k \in Tasks PROVE ~ claimTask(h, k)
  BY <1>0 DEF claimTask, Charged
<1>4. task'[Resize(c)].status # "pending"
  <2>1. ASSUME recoverExpiredTaskLeases(Resize(c)) PROVE task'[Resize(c)].status = "needs_review"
    <3>1. [task[Resize(c)] EXCEPT !.status = "needs_review"].status = "needs_review"
      BY <1>0 DEF TaskRow
    <3> QED BY <1>0, <2>1, <3>1, OneChange DEF recoverExpiredTaskLeases
  <2>2. ASSUME NEW h \in Handlers, finishTask(h), handler[h].task = Resize(c)
        PROVE  task'[Resize(c)].status = "succeeded"
    <3>1. Executing(h) /\ handler[h].err = "none" /\ Owns(h)
      BY <2>2 DEF finishTask, Executing, Charged, Exclusive
    <3>2. task' = [task EXCEPT ![Resize(c)] = [@ EXCEPT !.status = "succeeded", !.owner = None]]
      BY <2>2, <3>1 DEF finishTask, FinishStatus
    <3>3. [task[Resize(c)] EXCEPT !.status = "succeeded", !.owner = None].status = "succeeded"
      BY <1>0 DEF TaskRow
    <3> QED BY <1>0, <3>2, <3>3
  <2> QED BY <1>0, <2>1, <2>2, ResizeStatus DEF Charged
<1>5. ASSUME NEW h \in Handlers
      PROVE  /\ handler'[h].pc # "idle" => handler'[h].task = Resize(c)
             /\ Executing(h)' => handler'[h].pc = "finishing" /\ handler'[h].err = "none"
  <2>1. \/ handler'[h] = handler[h]
        \/ ~ Executing(h)' /\ (handler'[h].pc # "idle" => handler'[h].task = handler[h].task)
    <3>1. ASSUME NEW g \in Handlers, Handler(g)
          PROVE  \/ handler'[h] = handler[h]
                 \/ ~ Executing(h)' /\ (handler'[h].pc # "idle" => handler'[h].task = handler[h].task)
      <4>1. handler[g].pc \notin {"claimed", "called", "applied", "settling"}
        BY DEF Charged, Executing
      <4>2. CASE g = h
        BY <1>0, <1>3, <3>1, <4>1, <4>2, HandlerGoes DEF Moves, Executing
      <4>3. CASE g # h
        BY <1>0, <1>3, <3>1, <4>3, HandlerGoes DEF Moves
      <4> QED BY <4>2, <4>3
    <3> QED BY <3>1, Elsewhere
  <2>2. handler[h].pc = "idle" => handler'[h].pc = "idle"
    <3>1. ASSUME NEW g \in Handlers, Handler(g) PROVE handler[h].pc = "idle" => handler'[h].pc = "idle"
      BY <1>0, <1>3, <3>1, HandlerGoes DEF Moves
    <3> QED BY <3>1, Elsewhere
  <2> QED BY <2>1, <2>2 DEF Charged, Executing
<1> QED BY <1>0, <1>1, <1>2, <1>4, <1>5 DEF Charged

LEMMA ChargedNow ==
    ASSUME AllInv, NEW c, Changes = {c}, AllFollow, Resizing(c), Exclusive, Reviewed(c),
           container = TargetSize(c), Settling(c)
    PROVE  Charged(c)'
<1>0. /\ c \in Changes /\ change[c] \in ChangeRow /\ HandlersInv /\ change'[c].fund = "settled"
      /\ change[c].status = "processing" /\ TargetSize(c)' = TargetSize(c)
  BY OneChange, Funds3 DEF AllInv, TypeInv, ControlInv, Settling, AllFollow, Follows, TargetSize
<1>1. ~ MarkBlocked(c)
  <2>1. Blocked(change[c]).fund = "blocked"
    BY <1>0 DEF Blocked, Verifying, ChangeRow
  <2> QED BY <1>0, <2>1 DEF MarkBlocked, AllInv, TypeInv
<1>2. ASSUME NEW h \in Handlers, SettleResize(h), handler[h].task = Resize(c) PROVE Charged(c)'
  <2>1. UNCHANGED <<task, container>> /\ Executing(h)
    BY <1>2 DEF SettleResize, queue, node, Executing
  <2>2. Goto(h, "finishing", "none")
    <3>1. handler[h].task[2] = c
      BY <1>2, OneChange
    <3> QED BY <1>0, <1>1, <1>2, <3>1 DEF SettleResize, completePlanChange
  <2>3. Moves(h, "finishing", "none")
    BY <1>0, <2>2, GotoMoves
  <2>4. task[Resize(c)].status = "running"
    BY <1>2, <2>1, Runs
  <2>5. \A g \in Handlers : g # h => ~ Executing(g)
    BY <2>1, Alone
  <2>6. ASSUME NEW g \in Handlers
        PROVE  /\ handler'[g].pc # "idle" => handler'[g].task = Resize(c)
               /\ Executing(g)' => handler'[g].pc = "finishing" /\ handler'[g].err = "none"
    BY <1>2, <2>3, <2>5 DEF Moves, Resizing, Executing
  <2> QED BY <1>0, <2>1, <2>4, <2>6 DEF Charged, Resizing
<1>3. CASE SettleTarget
  <2>1. UNCHANGED <<task, container, handler>> /\ task[Resize(c)].status = "needs_review"
    BY <1>3 DEF SettleTarget, queue, node, Reviewed
  <2>2. \A h \in Handlers : ~ Executing(h)
    BY <2>1, Runs DEF Resizing, Executing
  <2> QED BY <1>0, <2>1, <2>2 DEF Charged, Resizing, Executing
<1> QED BY <1>2, <1>3 DEF Settling

\* The resize cannot reach the node any more.
Behind(c) == Over(c) \/ Resize(c) \in outdated \/ ~ Usable

LEMMA OutdatedKept == ASSUME [Next]_vars PROVE outdated \subseteq outdated'
<1>1. CASE User
  BY <1>1 DEF User, CancelObserved, RequestCompensation, createPlanChange, renewWithWallet,
              refundOrder, NewerIntent, Supersede, queue
<1>2. ASSUME NEW h \in Handlers, Handler(h) PROVE outdated' = outdated
  BY <1>2 DEF Handler, claimTask, CallAgent, AgentApplies, AgentAnswers, AgentFails, SettleResize,
         SettleCompensation, finishTask, markResizeTaskObserving, failDeployment, Crash, queue
<1>3. CASE Loop
  BY <1>3 DEF Loop, recoverExpiredTaskLeases, reconcileBlockedPlanChanges, Inspect, InspectFails,
         resumeBlockedPlanChange, SettleTarget, SettleSource, CloseTask, LoopCrash, queue
<1>4. CASE \/ Administrator \/ (\E k \in Tasks : LeaseExpires(k))
           \/ (\E size \in Sizes : LateApply(size)) \/ UNCHANGED vars
  BY <1>4 DEF Administrator, retryTask, resumeReviewTask, discardReviewTask, LeaseExpires, LateApply,
              vars, queue
<1> QED BY <1>1, <1>2, <1>3, <1>4 DEF Next

LEMMA BehindKept ==
    ASSUME AllInv, Calm, NEW c, Changes = {c}, change[c].fund # "none", Exclusive, [Next]_vars, Behind(c)
    PROVE  Behind(c)'
<1>1. Over(c) => Over(c)'
  BY ResizeStatus DEF Over
<1> QED BY <1>1, OutdatedKept, InstStep DEF Behind

LEMMA BehindNow ==
    ASSUME AllInv, Calm, NEW c, Changes = {c}, SourceInv(c), [Next]_vars, Undecided(c),
           task[Resize(c)].status # "none", change'[c].fund \in {"reserved", "released"}
    PROVE  Behind(c)'
<1>1. c \in Changes /\ Turns(c) /\ change[c].saga # "compensating" /\ Resize(c) \in Tasks
  BY OneChange, Funds3 DEF Turns, Undecided
<1>2. RequestCompensation(c) \/ Releasing(c)
  BY <1>1, WhoTurns DEF Settling
<1>3. ASSUME RequestCompensation(c) PROVE Behind(c)'
  BY <1>1, <1>3 DEF RequestCompensation, Supersede, Born, Behind, Usable
<1>4. ASSUME CancelObserved(c) PROVE Behind(c)'
  <2>1. change[c].observed # None /\ task' = task
    BY <1>1, <1>4, RowOf, PlanChangeAssumption
       DEF CancelObserved, AllInv, PlanChangeAssumption, Sizes
  <2> QED BY <2>1 DEF SourceInv, Observed, Over, Behind
<1>5. ASSUME NEW h \in Handlers, failDeployment(h) PROVE change[c].status # "processing"
  BY <1>5 DEF failDeployment, SourceInv, Reviewed
<1>6. ASSUME SettleSource PROVE Behind(c)'
  BY <1>6 DEF SettleSource, SourceInv, Reviewed, Over, Behind, queue
<1>7. \A k \in Tasks : ~ discardReviewTask(k)
  BY DEF discardReviewTask, Calm
<1> QED BY <1>1, <1>2, <1>3, <1>4, <1>5, <1>6, <1>7 DEF Releasing

\* What a released change has given back to the container stays.
First == Resources[FirstPlan]

Returned(c) ==
    /\ container = First
    /\ \A h \in Handlers : handler[h].pc = "called" => handler[h].task # Resize(c)

LEMMA ReturnedKept ==
    ASSUME AllInv, Calm, NEW c, Changes = {c}, change[c].fund = "released", change[c].source = First,
           Exclusive, Behind(c), Returned(c), [Next]_vars
    PROVE  Returned(c)'
<1>0. HandlersInv
  BY DEF AllInv, TypeInv, ControlInv
<1>1. container' = First
  <2>1. ASSUME NEW h \in Handlers, AgentApplies(h) PROVE container' = First
    <3>1. handler[h].task = Compensation(c)
      BY <1>0, <2>1, OneChange DEF AgentApplies, Returned, HandlersInv
    <3> QED BY <2>1, <3>1, OneChange DEF AgentApplies, SizeFor
  <2> QED BY <2>1, Elsewhere DEF Returned, LateApply, Exclusive
<1>2. ASSUME NEW h \in Handlers, handler'[h].pc = "called" PROVE handler'[h].task # Resize(c)
  <2>1. ASSUME NEW g \in Handlers, Handler(g) PROVE handler'[h].task # Resize(c)
    <3>1. ASSUME NEW k \in Tasks, claimTask(g, k) PROVE handler'[h] = handler[h]
      <4>1. handler'[g].pc = "claimed" /\ \A f \in Handlers \ {g} : handler'[f] = handler[f]
        BY <1>0, <3>1 DEF claimTask, HandlersInv
      <4> QED BY <1>2, <4>1
    <3>2. CASE ~ \E k \in Tasks : claimTask(g, k)
      <4>1. CASE g # h
        BY <1>0, <1>2, <2>1, <3>2, <4>1, HandlerGoes DEF Moves, Returned
      <4>2. CASE g = h
        <5>1. /\ handler[h].pc = "claimed" /\ CallAgent(h) /\ handler'[h].task = handler[h].task
          BY <1>0, <1>2, <2>1, <3>2, <4>2, HandlerGoes DEF Moves
        <5>2. taskMayCallAgent(h)
          <6>1. Goto(h, "finishing", "failed") => handler'[h].pc = "finishing"
            BY <1>0, GotoMoves DEF Moves
          <6> QED BY <1>2, <5>1, <6>1 DEF CallAgent
        <5> QED BY <5>1, <5>2 DEF taskMayCallAgent, Owns, Behind, Over
      <4> QED BY <4>1, <4>2
    <3> QED BY <1>2, <3>1, <3>2 DEF Returned
  <2> QED BY <1>2, <2>1, Elsewhere DEF Returned
<1> QED BY <1>1, <1>2 DEF Returned

LEMMA ReturnedNow ==
    ASSUME AllInv, Calm, NEW c, Changes = {c}, SourceInv(c), change[c].source = First, [Next]_vars,
           Becomes(c, "released")
    PROVE  Returned(c)'
<1>0. c \in Changes /\ Turns(c) /\ change'[c].fund = "released" /\ container = First /\ HandlersInv
  BY OneChange, ReleasedThere DEF Turns, Becomes, AllInv, TypeInv, ControlInv
<1>1. Releasing(c)
  BY <1>0, WhoTurns DEF Settling
<1>2. ASSUME Over(c), UNCHANGED <<handler, container>> PROVE Returned(c)'
  <2>1. \A h \in Handlers : handler[h].pc = "called" => handler[h].task # Resize(c)
    BY <1>2, Runs DEF SourceInv, Executing, Over
  <2> QED BY <1>0, <1>2, <2>1 DEF Returned
<1>3. ASSUME CancelObserved(c) PROVE Returned(c)'
  <2>1. change[c].observed # None /\ UNCHANGED <<handler, container>>
    BY <1>0, <1>3, RowOf, PlanChangeAssumption
       DEF CancelObserved, AllInv, PlanChangeAssumption, Sizes, node
  <2> QED BY <1>2, <2>1 DEF SourceInv, Observed
<1>4. ASSUME SettleSource PROVE Returned(c)'
  BY <1>2, <1>4 DEF SettleSource, SourceInv, Reviewed, Over, node
<1>5. ASSUME NEW h \in Handlers, failDeployment(h) PROVE change[c].status # "processing"
  BY <1>5 DEF failDeployment, SourceInv, Reviewed
<1>6. ASSUME NEW h \in Handlers, SettleCompensation(h) PROVE Returned(c)'
  <2>1. Executing(h) /\ container' = container
    BY <1>6 DEF SettleCompensation, Executing, node
  <2>2. Moves(h, "finishing", "none") \/ Moves(h, "finishing", "failed")
    BY <1>0, <1>6, GotoMoves DEF SettleCompensation
  <2>3. \A g \in Handlers : g # h => handler[g].pc # "called"
    BY <2>1, Alone DEF SourceInv, Executing
  <2>4. \A g \in Handlers : handler'[g].pc # "called"
    BY <2>2, <2>3 DEF Moves
  <2> QED BY <1>0, <2>1, <2>4 DEF Returned
<1>7. \A k \in Tasks : ~ discardReviewTask(k)
  BY DEF discardReviewTask, Calm
<1> QED BY <1>1, <1>3, <1>4, <1>5, <1>6, <1>7 DEF Releasing

\* Every active order is one of a plan with these resources.
Fits(size) == \A i \in Active : Resources[orders[i].plan] = size

\* The instance row and the orders are those of the source until the change is
\* charged for, and those of the target afterwards; the container is theirs
\* whenever nothing is under way.
AgreeInv(c) ==
    /\ change[c].source = First
    /\ change[c].fund # "none" => task[Resize(c)].status # "none"
    /\ Undecided(c) => Active \subseteq change[c].items
    /\ change[c].fund # "settled" => inst.size = First /\ Fits(First)
    /\ change[c].fund = "none" => container = First
    /\ change[c].fund = "settled" => inst.size = TargetSize(c) /\ Fits(TargetSize(c)) /\ Charged(c)
    /\ change[c].fund \in {"reserved", "released"} => Behind(c)
    /\ change[c].fund = "released" => Returned(c)

LEMMA InitAgree == ASSUME Init, NEW c, Changes = {c} PROVE AgreeInv(c)
<1>1. c \in Changes
  BY OneChange
<1>2. change[c] = NoChange /\ NoChange.source = First /\ NoChange.fund = "none"
  BY <1>1 DEF Init, NoChange, First
<1>3. inst.size = First /\ container = First
  BY DEF Init, First
<1>4. Fits(First)
  <2>1. \A i \in DOMAIN orders : orders[i].plan = FirstPlan
    BY DEF Init, ActiveOrder
  <2> QED BY <2>1 DEF Fits, First, Active
<1> QED BY <1>2, <1>3, <1>4 DEF AgreeInv, Undecided

LEMMA FitsFewer == ASSUME NEW size, Fits(size), FewerOrders PROVE Fits(size)'
BY DEF Fits, FewerOrders

LEMMA AgreeRequested ==
    ASSUME AllInv, "renew" \notin Events, NEW c, Changes = {c}, TargetInv(c), AgreeInv(c),
           [Next]_vars, change[c].fund = "none"
    PROVE  AgreeInv(c)'
<1>0. c \in Changes /\ Untouched /\ TasksInv /\ inst.size = First /\ Fits(First)
      /\ Resize(c) \in Tasks
  BY OneChange DEF AllInv, TypeInv, ControlInv, TargetInv, AgreeInv
<1>1. ASSUME NEW p \in Plans, createPlanChange(c, p) PROVE AgreeInv(c)'
  <2> DEFINE row == [NoChange EXCEPT !.status = "processing", !.saga = "applying",
                         !.fund = "pending", !.source = inst.size,
                         !.target = p, !.items = Active,
                         !.reserve = Cardinality(Active) * Price[p]]
  <2>1. change' = [change EXCEPT ![c] = row] /\ UNCHANGED <<inst, orders>>
        /\ task' = [task EXCEPT ![Resize(c)].status = "pending"]
    BY <1>1 DEF createPlanChange
  <2>2. row.source = inst.size /\ row.items = Active /\ row.fund = "pending"
    BY CreatedRow
  <2> HIDE DEF row
  <2>3. change'[c] = row
    BY <1>0, <2>1 DEF AllInv, TypeInv
  <2>4. [task[Resize(c)] EXCEPT !.status = "pending"].status = "pending"
    BY <1>0 DEF TasksInv, TaskRow
  <2>5. task'[Resize(c)].status # "none"
    BY <1>0, <2>1, <2>4 DEF TasksInv
  <2>6. Active' = Active /\ Fits(First)'
    BY <1>0, <2>1 DEF Fits, Active, First
  <2> QED BY <1>0, <2>1, <2>2, <2>3, <2>5, <2>6 DEF AgreeInv, Undecided, First
<1>2. CASE refundOrder \/ UNCHANGED <<change, task, lock, inst, container, late, handler, loop, orders>>
  <2>1. UNCHANGED <<change, task, container>> /\ inst'.size = inst.size
    BY <1>2 DEF refundOrder, queue, node, AllInv, TypeInv, SizesInv
  <2>2. FewerOrders
    <3>1. CASE \E d \in Changes : change[d].status = "processing" /\ Complete(d)
      BY <1>0, <3>1, Funds3
    <3> QED BY <3>1, OrdersStep
  <2> QED BY <1>0, <2>1, <2>2, FitsFewer DEF AgreeInv, Undecided, First
<1>3. \A i \in DOMAIN orders : ~ renewWithWallet(i)
  BY DEF renewWithWallet
<1> QED BY <1>0, <1>1, <1>2, <1>3, UntouchedStep

LEMMA AgreeFollowed ==
    ASSUME AllInv, Calm, "renew" \notin Events, NEW c, Changes = {c}, TargetInv(c), SourceInv(c),
           AgreeInv(c), [Next]_vars, change[c].fund # "none"
    PROVE  AgreeInv(c)'
<1>0. /\ c \in Changes /\ change[c] \in ChangeRow /\ task[Resize(c)].status # "none"
      /\ Exclusive /\ Reviewed(c)
  BY OneChange, Funds3 DEF AgreeInv, SourceInv
<1>1. AllFollow
  BY <1>0, NextFollows, Funds3 DEF createPlanChange
<1>2. /\ change'[c].source = First /\ change'[c].items = change[c].items
      /\ change'[c].fund \in Later(change[c].fund) /\ change'[c].fund # "none"
      /\ TargetSize(c)' = TargetSize(c)
  BY <1>0, <1>1 DEF AllFollow, Follows, Later, TargetSize, AgreeInv
<1>3. task'[Resize(c)].status # "none"
  <2>1. ASSUME NEW h \in Handlers, claimTask(h, Resize(c)) PROVE task'[Resize(c)].status = "running"
    BY <1>0, <2>1, OneChange DEF claimTask, AllInv, TypeInv, ControlInv, TasksInv
  <2>2. ASSUME RequestCompensation(c), task[Resize(c)].status = "pending"
        PROVE  task'[Resize(c)].status = "cancelled"
    <3>1. task'[Resize(c)] = [task[Resize(c)] EXCEPT !.status = "cancelled"]
      BY <2>2, OneChange DEF RequestCompensation
    <3>2. task[Resize(c)] \in TaskRow
      BY OneChange DEF AllInv, TypeInv, ControlInv, TasksInv
    <3> QED BY <3>1, <3>2 DEF TaskRow
  <2>3. ASSUME recoverExpiredTaskLeases(Resize(c)) PROVE task'[Resize(c)].status = "needs_review"
    <3>1. task[Resize(c)] \in TaskRow /\ task \in [Tasks -> TaskRow]
      BY OneChange DEF AllInv, TypeInv, ControlInv, TasksInv
    <3>2. [task[Resize(c)] EXCEPT !.status = "needs_review"].status = "needs_review"
      BY <3>1 DEF TaskRow
    <3> QED BY <2>3, <3>1, <3>2, OneChange DEF recoverExpiredTaskLeases
  <2>4. ASSUME NEW h \in Handlers, finishTask(h), handler[h].task = Resize(c)
        PROVE  task'[Resize(c)].status # "none"
    <3> DEFINE next == FinishStatus(Resize(c), handler[h].err)
    <3>1. task[Resize(c)] \in TaskRow /\ task \in [Tasks -> TaskRow]
      BY OneChange DEF AllInv, TypeInv, ControlInv, TasksInv
    <3>2. next # "none"
      BY DEF FinishStatus
    <3>3. \/ task' = task
          \/ task' = [task EXCEPT ![Resize(c)] = [@ EXCEPT !.status = next, !.owner = None]]
      BY <2>4 DEF finishTask
    <3> HIDE DEF next
    <3>4. [task[Resize(c)] EXCEPT !.status = next, !.owner = None].status = next
      BY <3>1 DEF TaskRow
    <3> QED BY <1>0, <3>1, <3>2, <3>3, <3>4, OneChange
  <2> QED BY <1>0, <2>1, <2>2, <2>3, <2>4, ResizeStatus
<1>4. change'[c].fund \in {"reserved", "released"} => Behind(c)'
  <2>1. CASE change[c].fund \in {"reserved", "released"}
    BY <1>0, <2>1, BehindKept DEF AgreeInv
  <2>2. CASE Undecided(c)
    BY <1>0, <2>2, BehindNow
  <2> QED BY <1>2, <2>1, <2>2 DEF Later, Undecided
<1>5. change'[c].fund = "released" => Returned(c)'
  <2>1. CASE change[c].fund = "released"
    BY <1>0, <2>1, ReturnedKept DEF AgreeInv
  <2>2. CASE change[c].fund # "released"
    BY <2>2, ReturnedNow DEF Becomes, AgreeInv
  <2> QED BY <2>1, <2>2
<1>6. CASE change[c].status = "processing" /\ Complete(c)
  <2>1. /\ Undecided(c) /\ change'[c].fund = "settled" /\ inst'.size = TargetSize(c)
        /\ Becomes(c, "settled")
    BY <1>0, <1>6, CompleteSettles, Funds3 DEF Undecided, TargetSize, Becomes
  <2>2. Fits(TargetSize(c))'
    <3>1. \A i \in Active' : Resources[orders'[i].plan] = TargetSize(c)
      BY <1>0, <1>6, <2>1, ExchangedAll DEF AgreeInv, TargetSize
    <3> QED BY <1>2, <3>1 DEF Fits
  <2>3. Charged(c)'
    <3>1. Settling(c)
      BY <1>0, <2>1, WhoTurns DEF Turns, Becomes, Releasing
    <3>2. container = TargetSize(c)
      BY <2>1, SettledThere
    <3> QED BY <1>0, <1>1, <2>1, <3>1, <3>2, ChargedNow DEF TargetInv
  <2> QED BY <1>2, <1>3, <2>1, <2>2, <2>3 DEF AgreeInv, Undecided
<1>7. CASE ~ (change[c].status = "processing" /\ Complete(c))
  <2>1. FewerOrders
    <3>1. ~ \E d \in Changes : change[d].status = "processing" /\ Complete(d)
      BY <1>7
    <3> QED BY <3>1, OrdersStep
  <2>2. change'[c].fund = "settled" => change[c].fund = "settled"
    BY <1>0, <1>7, WhoTurns DEF Turns, Settling, Releasing
  <2>3. CASE change[c].fund = "settled"
    <3>1. change'[c].fund = "settled"
      BY <1>2, <2>3 DEF Later
    <3>2. inst'.size = inst.size
      <4>1. \A h \in Handlers : ~ SettleCompensation(h)
        BY <2>3, OneChange DEF SettleCompensation, AgreeInv, Charged
      <4> QED BY <1>7, <4>1, InstStep
    <3>3. Charged(c)'
      BY <1>0, <1>1, <2>3, ChargedKept DEF AgreeInv
    <3>4. Fits(TargetSize(c))'
      BY <1>2, <2>1, <2>3 DEF AgreeInv, Fits, FewerOrders
    <3> QED BY <1>2, <1>3, <2>3, <3>1, <3>2, <3>3, <3>4 DEF AgreeInv, Undecided
  <2>4. CASE change[c].fund # "settled"
    <3>1. inst'.size = First
      <4>1. ASSUME NEW h \in Handlers, SettleCompensation(h),
                   inst'.size = change[handler[h].task[2]].source
            PROVE  inst'.size = First
        <5>1. handler[h].task[2] \in Changes
          BY <4>1, TaskNames DEF SettleCompensation, AllInv, TypeInv, ControlInv, HandlersInv
        <5> QED BY <4>1, <5>1 DEF AgreeInv
      <4> QED BY <1>7, <2>4, <4>1, InstStep DEF AgreeInv
    <3>2. Fits(First)'
      BY <2>1, <2>4 DEF AgreeInv, Fits, FewerOrders, First
    <3>3. Undecided(c)' => Active' \subseteq change'[c].items
      BY <1>0, <1>1, <1>2, <2>1, Deciding DEF AgreeInv, FewerOrders
    <3> QED BY <1>2, <1>3, <1>4, <1>5, <2>2, <2>4, <3>1, <3>2, <3>3 DEF AgreeInv, First
  <2> QED BY <2>3, <2>4
<1> QED BY <1>6, <1>7

LEMMA AgreeKept ==
    ASSUME AllInv, Calm, "renew" \notin Events, NEW c, Changes = {c}, TargetInv(c), SourceInv(c),
           AgreeInv(c), [Next]_vars
    PROVE  AgreeInv(c)'
BY AgreeRequested, AgreeFollowed

LEMMA AgreeGives ==
    ASSUME AllInv, NEW c, Changes = {c}, AgreeInv(c), ~ Open(c)
    PROVE  container = inst.size /\ \A i \in Active : Resources[orders[i].plan] = container
<1>1. change[c].fund \in {"none", "settled", "released"}
  BY OneChange DEF Open, AllInv, FundsInv, WellFormed, FundStates
<1>2. CASE change[c].fund = "settled"
  BY <1>2 DEF AgreeInv, Charged, Fits
<1>3. CASE change[c].fund \in {"none", "released"}
  BY <1>3 DEF AgreeInv, Returned, Fits
<1> QED BY <1>1, <1>2, <1>3

\* In calm surroundings without renewals, container, instance row and active
\* orders agree whenever no task and no change is open: a settlement replaces
\* every order, a compensation undoes the resize on the node, and a resize that
\* was given up never reaches the node again.
THEOREM AgreeCorrect ==
    ASSUME NEW one, Changes = {one}, Calm, "renew" \notin Events
    PROVE  Spec => []OrdersMatchContainer
<1> DEFINE Inv == AllInv /\ TargetInv(one) /\ SourceInv(one) /\ AgreeInv(one)
<1>1. Init => Inv
  BY InitAll, InitTarget, InitSource, InitAgree
<1>2. Inv /\ [Next]_vars => Inv'
  BY AllKept, TargetKept, SourceKept, AgreeKept
<1>3. Inv => OrdersMatchContainer
  <2>1. one \in Changes
    BY OneChange
  <2> QED BY <2>1, AgreeGives DEF OrdersMatchContainer
<1> HIDE DEF Inv
<1> QED BY <1>1, <1>2, <1>3, PTL DEF Spec
=============================================================================
