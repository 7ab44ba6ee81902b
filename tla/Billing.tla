------------------------------- MODULE Billing -------------------------------
(***************************************************************************)
(* What one customer pays and gets back over time: purchases, renewals,    *)
(* plan changes and refunds of service periods, priced by tiers and        *)
(* reduced by benefit programmes with limits and budgets that other        *)
(* customers use as well.                                                  *)
(*                                                                         *)
(* A request is one serializable transaction that locks the wallet, the    *)
(* orders and the programmes it reads, so it is one action.  What is not   *)
(* one transaction is not one action either: a quote and the change made   *)
(* from it, a change and its settlement, the loop that lists an instance,  *)
(* expires it and then its orders.  Module PlanChange has the handlers and *)
(* faults of a settlement without time, module Lifecycle the destruction.  *)
(* One change at a time; plans stay on sale with the same price; a day is  *)
(* the unit.                                                               *)
(***************************************************************************)
EXTENDS Integers, Sequences, FiniteSets, FiniteSetsExt

CONSTANTS
    Plans, NoPlan,
    Monthly,      \* monthly_price_fen of a plan
    Months,       \* terms on sale (1, 3, 6, 12)
    TierBps,      \* discount_bps of a term; 10000 where no tier is set
    Month,        \* days of a month (30)
    PrepaidDays,  \* refundPrepaidDays (3)
    Soon,         \* days before the end that count as expiring (7)
    Programs, NoProgram,
    Offer,        \* the terms of a programme: see OfferRow
    Limits,       \* the limits that administrators may give it later
    Deposit,      \* the wallet at the start
    Instances,    \* numbers
    MaxNow, MaxOrders, \* bounds
    MaxExtras     \* bound: top-ups, redemptions of others, administration

\* A limit of 0 is none: redemptions of a customer and of all, discounts and days.
LimitRow == [perUser : Nat, total : Nat, budget : Nat, days : Nat]

\* limits are those it begins with; an empty set of plans or terms is all of them.
OfferRow ==
    [trigger : {"automatic", "promo_code", "targeted"}, scope : {"purchase", "renewal", "both"},
     type : {"fixed_discount", "percent_discount", "bonus_days"}, value : Nat,
     audience : {"all", "first_paid", "first_plan", "expiring", "lapsed", "targeted"},
     plans : SUBSET Plans, months : SUBSET Months, minimum : Nat, ends : Nat, priority : Nat,
     limits : LimitRow]

ASSUME BillingAssumption ==
    /\ Monthly \in [Plans -> Nat] /\ NoPlan \notin Plans
    /\ Months \subseteq Nat \ {0} /\ Months # {}
    /\ TierBps \in [Months -> Nat] /\ \A m \in Months : TierBps[m] <= 10000
    /\ Month \in Nat \ {0} /\ PrepaidDays \in Nat /\ Soon \in Nat
    /\ NoProgram \notin Programs /\ Offer \in [Programs -> OfferRow]
    /\ Limits \in [Programs -> SUBSET LimitRow]
    /\ Instances \subseteq Nat /\ Instances # {}
    /\ Deposit \in Nat /\ MaxNow \in Nat /\ MaxOrders \in Nat /\ MaxExtras \in Nat

VARIABLES
    now,      \* days
    balance,  \* balance_fen of the customer
    orders,   \* rows of xcloud_orders, by creation; credited: what came back for it
    ins,      \* rows of xcloud_instances
    change,   \* the plan change under way, from its quote
    expiring, \* the instance the loop has listed, or expired without its orders
    program,  \* rows of xcloud_benefit_programs with the customer's grant
    extras

vars == <<now, balance, orders, ins, change, expiring, program, extras>>
-----------------------------------------------------------------------------
OrderRow ==
    [instance : Instances, plan : Plans, amount : Nat, start : Nat, end : Nat, credited : Nat,
     benefit : Programs \cup {NoProgram},
     status : {"deploying", "active", "expired", "refunded", "exchanged", "deployment_failed"}]

\* plan is the target of the last change that succeeded.
InstanceRow ==
    [status : {"none", "deploying", "running", "deployment_failed", "destroy_scheduled", "destroyed"},
     reason : {"none", "expired", "refund", "manual", "user_no_refund"},
     expires : Nat, plan : Plans \cup {NoPlan}]

Item == [source : Nat, refund : Nat, charge : Nat, start : Nat, end : Nat, paid : Nat]

\* saved is history: the redemptions of the customer and the counters when an
\* administrator last saved the programme.
ProgramRow ==
    [status : {"active", "paused"}, code : BOOLEAN, grant : {"none", "available", "used", "voided"},
     used : Nat, spent : Nat, days : Nat, limits : LimitRow,
     saved : [own : Nat, used : Nat, spent : Nat, days : Nat]]

TypeOK ==
    /\ now \in 0..MaxNow
    /\ balance \in Nat
    /\ orders \in Seq(OrderRow)
    /\ ins \in [Instances -> InstanceRow]
    /\ change.status \in {"none", "quoted", "processing", "blocked"}
    /\ change.instance \in Instances /\ change.target \in Plans \cup {NoPlan}
    /\ change.items \subseteq Item
    /\ expiring \subseteq Instances \X {"listed", "expired"} /\ Cardinality(expiring) <= 1
    /\ program \in [Programs -> ProgramRow]
    /\ extras \in 0..MaxExtras

NoChange == [status |-> "none", instance |-> CHOOSE i \in Instances : TRUE, target |-> NoPlan,
             cutoff |-> 0, items |-> {}]

Init ==
    /\ now = 0
    /\ balance = Deposit
    /\ orders = <<>>
    /\ ins = [i \in Instances |-> [status |-> "none", reason |-> "none", expires |-> 0, plan |-> NoPlan]]
    /\ change = NoChange
    /\ expiring = {}
    /\ program = [b \in Programs |-> [status |-> "active", code |-> Offer[b].trigger = "promo_code",
                                      grant |-> "none", used |-> 0, spent |-> 0, days |-> 0,
                                      limits |-> Offer[b].limits,
                                      saved |-> [own |-> 0, used |-> 0, spent |-> 0, days |-> 0]]]
    /\ extras = 0
-----------------------------------------------------------------------------
(* Prices.                                                                 *)

Least(S) == CHOOSE x \in S : \A y \in S : x <= y
Later(a, b) == IF a > b THEN a ELSE b

\* prorateFen: the part of amount for the days of start..end from a day on.
prorateFen(amount, start, end, from) ==
    IF end <= start \/ end <= from THEN 0
    ELSE (amount * (end - Later(from, start))) \div (end - start)

\* prorateMonthlyFen: a period at a monthly price.
prorateMonthlyFen(monthly, start, end) ==
    IF end <= start THEN 0 ELSE (monthly * (end - start)) \div Month

\* planChangeTierMonths: the longest term the period reaches, else the shortest.
planChangeTierMonths(start, end) ==
    LET reached == {m \in Months : end - start >= m * Month} IN
    IF reached = {} THEN Least(Months) ELSE CHOOSE m \in reached : \A n \in reached : n <= m

tierPrice(plan, months) == (Monthly[plan] * months * TierBps[months]) \div 10000

\* benefitDiscount: money, never more than the list price, or days.
benefitDiscount(b, list) ==
    LET d == CASE Offer[b].type = "fixed_discount"   -> Offer[b].value
               [] Offer[b].type = "percent_discount" -> (list * Offer[b].value) \div 10000
               [] Offer[b].type = "bonus_days"       -> 0
    IN  IF d > list THEN list ELSE d
bonusDays(b) == IF Offer[b].type = "bonus_days" THEN Offer[b].value ELSE 0
-----------------------------------------------------------------------------
(* Orders and instances.                                                   *)

Numbers == 1..Len(orders)
OrdersOf(i) == {o \in Numbers : orders[o].instance = i}
Active(i) == {o \in OrdersOf(i) : orders[o].status = "active"}
Of(i, statuses) == {o \in OrdersOf(i) : orders[o].status \in statuses}
InUse(i) == ins[i].status = "running"

\* latestPlanForInstance: the plan of the newest order that is active or expired.
latestPlan(i) ==
    LET S == Of(i, {"active", "expired"}) IN orders[CHOOSE o \in S : \A n \in S : n <= o].plan

Unused == {i \in Instances : ins[i].status = "none"}

Extra == extras < MaxExtras /\ extras' = extras + 1
Room == Len(orders) < MaxOrders
-----------------------------------------------------------------------------
(* Benefit programmes.                                                     *)

Redeemed(b) == Cardinality({o \in Numbers : orders[o].benefit = b})

\* A mistake: orders that were refunded do not count.
PaidInForce(plans) == \E o \in Numbers : orders[o].plan \in plans /\ orders[o].status = "active"

\* Orders of any status but cancelled and rejected, which a wallet order is never.
PaidBefore(plans) == \E o \in Numbers : orders[o].plan \in plans

Audience(b, i, plan) ==
    LET a == Offer[b].audience IN
    CASE a \in {"all", "targeted"} -> TRUE
      [] a = "first_paid" -> ~ PaidBefore(Plans)
      [] a = "first_plan" -> ~ PaidBefore({plan})
      [] a = "expiring"   -> ins[i].expires > now /\ ins[i].expires <= now + Soon
      [] a = "lapsed"     -> ins[i].status # "none" /\ ins[i].expires <= now

Targeted(b) == Offer[b].trigger = "targeted" \/ Offer[b].audience = "targeted"

\* A mistake: the limit is reached one redemption too late.
LimitsReached(b, discount) ==
    LET p == program[b] IN
    /\ p.limits.total = 0 \/ p.used <= p.limits.total
    /\ p.limits.perUser = 0 \/ Redeemed(b) < p.limits.perUser
    /\ p.limits.budget = 0 \/ p.spent + discount <= p.limits.budget
    /\ p.limits.days = 0 \/ p.days + bonusDays(b) <= p.limits.days

WithinLimits(b, discount) ==
    LET p == program[b] IN
    /\ p.limits.total = 0 \/ p.used < p.limits.total
    /\ p.limits.perUser = 0 \/ Redeemed(b) < p.limits.perUser
    /\ p.limits.budget = 0 \/ p.spent + discount <= p.limits.budget
    /\ p.limits.days = 0 \/ p.days + bonusDays(b) <= p.limits.days

programEligible(b, scope, i, plan, months, list) ==
    /\ program[b].status = "active" /\ now < Offer[b].ends
    /\ Offer[b].scope \in {scope, "both"}
    /\ list >= Offer[b].minimum
    /\ Offer[b].plans = {} \/ plan \in Offer[b].plans
    /\ Offer[b].months = {} \/ months \in Offer[b].months
    /\ WithinLimits(b, benefitDiscount(b, list))
    /\ Audience(b, i, plan)
    /\ Targeted(b) => program[b].grant = "available"

\* sort.SliceStable: the highest priority, then the larger discount.
Best(S, list) ==
    {b \in S : \A c \in S :
        \/ Offer[b].priority > Offer[c].priority
        \/ /\ Offer[b].priority = Offer[c].priority
           /\ benefitDiscount(b, list) >= benefitDiscount(c, list)}

\* The programme of a promotion code, or those that need none; a code that does
\* not apply fails the request.
Candidates(code) ==
    IF code = NoProgram THEN {b \in Programs : Offer[b].trigger # "promo_code"}
    ELSE {b \in {code} : Offer[b].trigger = "promo_code" /\ program[b].code}

FullPrice(list) == [benefit |-> NoProgram, amount |-> list, discount |-> 0, days |-> 0]
Reduced(b, list) ==
    [benefit |-> b, amount |-> list - benefitDiscount(b, list),
     discount |-> benefitDiscount(b, list), days |-> bonusDays(b)]

\* What it may answer: priority and discount leave a tie to the age.
quoteCommercialBenefit(scope, i, plan, months, code) ==
    LET list == tierPrice(plan, months)
        eligible == {b \in Candidates(code) : programEligible(b, scope, i, plan, months, list)}
    IN  IF eligible # {} THEN {Reduced(b, list) : b \in Best(eligible, list)}
        ELSE IF code = NoProgram THEN {FullPrice(list)} ELSE {}

\* The counters of a programme after a redemption.
Counted(row, discount, days) ==
    [row EXCEPT !.used = @ + 1, !.spent = @ + discount, !.days = @ + days]

GrantUsed(b) == IF Targeted(b) THEN "used" ELSE program[b].grant

\* consumeCommercialBenefitTx.
consumeCommercialBenefit(q) ==
    program' = IF q.benefit = NoProgram THEN program
               ELSE LET row == Counted(program[q.benefit], q.discount, q.days) IN
                    [program EXCEPT ![q.benefit] = [row EXCEPT !.grant = GrantUsed(q.benefit)]]
-----------------------------------------------------------------------------
(* Purchase, deployment and renewal.                                       *)

NewOrder(i, plan, amount, start, end, status, benefit) ==
    [instance |-> i, plan |-> plan, amount |-> amount, start |-> start, end |-> end,
     credited |-> 0, benefit |-> benefit, status |-> status]

\* The rows of instances are used in order.
NextInstance == CHOOSE i \in Unused : \A j \in Unused : i <= j

purchaseWithWallet(i, plan, months, code) ==
    /\ Room /\ Unused # {} /\ i = NextInstance
    /\ \E q \in quoteCommercialBenefit("purchase", i, plan, months, code) :
        LET end == now + months * Month + q.days IN
        /\ balance >= q.amount
        /\ balance' = balance - q.amount
        /\ orders' = Append(orders, NewOrder(i, plan, q.amount, now, end, "deploying", q.benefit))
        /\ consumeCommercialBenefit(q)
        /\ ins' = [ins EXCEPT ![i].status = "deploying", ![i].expires = end]
    /\ UNCHANGED <<now, change, expiring, extras>>

SetStatus(S, from, to) ==
    [o \in Numbers |-> IF o \in S /\ orders[o].status \in from THEN [orders[o] EXCEPT !.status = to]
                                                             ELSE orders[o]]

\* The create or retry-deploy task succeeds: orders in deployment become active.
DeploymentDone(i) ==
    /\ ins[i].status = "deploying"
    /\ ins' = [ins EXCEPT ![i].status = "running"]
    /\ orders' = SetStatus(OrdersOf(i), {"deploying"}, "active")
    /\ UNCHANGED <<now, balance, change, expiring, program, extras>>

\* failDeployment.
failDeployment(i) ==
    /\ Extra
    /\ ins[i].status = "deploying"
    /\ ins' = [ins EXCEPT ![i].status = "deployment_failed"]
    /\ orders' = SetStatus(OrdersOf(i), {"deploying"}, "deployment_failed")
    /\ UNCHANGED <<now, balance, change, expiring, program>>

\* queueDeploymentRetry leaves the order as it is.
queueDeploymentRetry(i) ==
    /\ ins[i].status = "deployment_failed"
    /\ ins' = [ins EXCEPT ![i].status = "deploying"]
    /\ UNCHANGED <<now, balance, orders, change, expiring, program, extras>>

\* A mistake: the new period starts today.
FromToday(i) == now

\* A renewal continues the paid period.
RenewalBase(i) == Later(ins[i].expires, now)

\* A mistake: any plan to destroy is withdrawn.
AnyReason(i) == InUse(i) \/ ins[i].status = "destroy_scheduled"

Renewable(i) == InUse(i) \/ (ins[i].status = "destroy_scheduled" /\ ins[i].reason = "expired")

\* source is the order the customer renews; its plan counts unless a change of
\* plan has succeeded.  A task of a change in the queue is a conflict.
renewWithWallet(source, months, code) ==
    /\ Room /\ source \in Numbers /\ orders[source].status \in {"active", "expired"}
    /\ LET i == orders[source].instance
           plan == IF ins[i].plan = NoPlan THEN orders[source].plan ELSE ins[i].plan
           base == RenewalBase(i) IN
        /\ Renewable(i)
        /\ ~ (change.status = "processing" /\ change.instance = i)
        /\ \E q \in quoteCommercialBenefit("renewal", i, plan, months, code) :
            LET end == base + months * Month + q.days IN
            /\ balance >= q.amount
            /\ balance' = balance - q.amount
            /\ orders' = Append(orders, NewOrder(i, plan, q.amount, base, end, "active", q.benefit))
            /\ consumeCommercialBenefit(q)
            /\ ins' = [ins EXCEPT ![i].status = "running", ![i].reason = "none", ![i].expires = end]
    /\ UNCHANGED <<now, change, expiring, extras>>
-----------------------------------------------------------------------------
(* Refund.                                                                 *)

\* validateRefundSegments: in the order of their starts, each period begins
\* where the one before ends.
Contiguous(S) ==
    \A a, b \in S :
        (a # b /\ orders[a].start <= orders[b].start /\
         ~ \E c \in S : orders[a].start < orders[c].start /\ orders[c].start < orders[b].start)
            => orders[b].start = orders[a].end

\* What comes back for o when its service ends at cutoff.
RefundOf(o, cutoff) == prorateFen(orders[o].amount, orders[o].start, orders[o].end, cutoff)

refundOrder(i) ==
    LET cutoff == now + PrepaidDays
        S == Active(i)
        total == SumFunctionOnSet([o \in S |-> RefundOf(o, cutoff)], S) IN
    /\ S # {} /\ Contiguous(S) /\ total >= 1
    /\ ins[i].reason # "user_no_refund"
    /\ balance' = balance + total
    /\ orders' = [o \in Numbers |->
                    IF o \in S
                      THEN [orders[o] EXCEPT !.status = "refunded", !.credited = @ + RefundOf(o, cutoff),
                                             !.end = Later(cutoff, orders[o].start)]
                      ELSE orders[o]]
    /\ \/ InUse(i) /\ ins' = [ins EXCEPT ![i].status = "destroy_scheduled", ![i].reason = "refund",
                                         ![i].expires = cutoff]
       \/ ins[i].status = "destroyed" /\ UNCHANGED ins
    /\ UNCHANGED <<now, change, expiring, program, extras>>
-----------------------------------------------------------------------------
(* Plan change.                                                            *)

\* buildPlanChangeQuote: each active order that has days left is exchanged for
\* one at the target's price, for the days it has left.
QuoteItems(i, target) ==
    LET S == {o \in Active(i) : orders[o].end > now}
        periodEnd == Later(now, Max({orders[o].end : o \in S} \cup {0}))
        tier == planChangeTierMonths(now, periodEnd)
        monthly == (Monthly[target] * TierBps[tier]) \div 10000
    IN  {[source |-> o, paid |-> orders[o].amount,
          refund |-> RefundOf(o, now), start |-> Later(now, orders[o].start), end |-> orders[o].end,
          charge |-> prorateMonthlyFen(monthly, Later(now, orders[o].start), orders[o].end)] : o \in S}

Hold == SumFunctionOnSet([x \in change.items |-> x.charge], change.items)

buildPlanChangeQuote(i, target) ==
    /\ change.status = "none" /\ InUse(i)
    /\ Of(i, {"active", "expired"}) # {} /\ latestPlan(i) # target
    /\ QuoteItems(i, target) # {}
    /\ change' = [status |-> "quoted", instance |-> i, target |-> target, cutoff |-> now,
                  items |-> QuoteItems(i, target)]
    /\ UNCHANGED <<now, balance, orders, ins, expiring, program, extras>>

\* A source order that is no longer what the quote saw; an order the quote has
\* not seen is not looked for.
Unchanged(x) ==
    LET o == orders[x.source] IN
    o.status = "active" /\ o.amount = x.paid /\ o.end = x.end

\* A mistake: the balance is not compared with the price.
EvenIfShort == TRUE

Affordable == balance >= Hold

createPlanChange ==
    /\ change.status = "quoted"
    /\ IF /\ InUse(change.instance) /\ latestPlan(change.instance) # change.target
          /\ \A x \in change.items : Unchanged(x)
          /\ Affordable
         THEN change' = [change EXCEPT !.status = "processing"] /\ balance' = balance - Hold
         ELSE change' = NoChange /\ UNCHANGED balance
    /\ UNCHANGED <<now, orders, ins, expiring, program, extras>>

\* markPlanChangeBlocked: the node did not say what became of the resize.
markPlanChangeBlocked ==
    /\ change.status = "processing"
    /\ change' = [change EXCEPT !.status = "blocked"]
    /\ UNCHANGED <<now, balance, orders, ins, expiring, program, extras>>

\* A mistake: whatever became of the instance.
AnyState(i) == TRUE

\* UPDATE xcloud_instances ... WHERE status IN ('running','stopped')
MayApply(i) == InUse(i)

\* A mistake: the order that replaces the source runs for a whole month.
MonthLong(x) ==
    NewOrder(change.instance, change.target, x.charge, x.start, x.start + Month, "active", NoProgram)

\* The order that replaces the source of x: the service end stays.
Replacement(x) ==
    NewOrder(change.instance, change.target, x.charge, x.start, x.end, "active", NoProgram)

ReplacementsOf(S) ==
    CHOOSE s \in [1..Cardinality(S) -> {Replacement(x) : x \in S}] :
        \A x \in S : \E k \in DOMAIN s : s[k] = Replacement(x)

\* A mistake: the order that was replaced stays in force.
StaysInForce(order) == order

Exchanged(order) == IF order.status = "active" THEN [order EXCEPT !.status = "exchanged"] ELSE order

\* completePlanChange: the hold pays for the replacements, the sources are paid
\* back, whatever their status is by now.
completePlanChange ==
    LET i == change.instance
        refundOf(S) == SumFunctionOnSet([x \in S |-> x.refund], S) IN
    /\ change.status \in {"processing", "blocked"}
    /\ MayApply(i)
    /\ Len(orders) + Cardinality(change.items) <= MaxOrders
    /\ balance' = balance + refundOf(change.items)
    /\ orders' = [o \in Numbers |->
                    IF \E x \in change.items : x.source = o
                      THEN Exchanged([orders[o] EXCEPT !.credited = @ + refundOf({x \in change.items : x.source = o})])
                      ELSE orders[o]]
                 \o ReplacementsOf(change.items)
    /\ ins' = [ins EXCEPT ![i].plan = change.target]
    /\ change' = NoChange
    /\ UNCHANGED <<now, expiring, program, extras>>

\* failPlanChange, cancelPlanChangeSettlementTx.
failPlanChange ==
    /\ change.status \in {"processing", "blocked"}
    /\ balance' = balance + Hold
    /\ change' = NoChange
    /\ UNCHANGED <<now, orders, ins, expiring, program, extras>>
-----------------------------------------------------------------------------
(* The control loop, destruction, administrators and other customers.      *)

\* The SELECT of the instances that have expired.
ExpiredSeen(i) ==
    /\ InUse(i) /\ ins[i].expires < now /\ expiring = {}
    /\ expiring' = {<<i, "listed">>}
    /\ UNCHANGED <<now, balance, orders, ins, change, program, extras>>

\* The transition looks at the status again and not at the expiry; it fails, or
\* has nothing to change, and the loop goes on with the next instance.
ExpireInstance(i) ==
    /\ <<i, "listed">> \in expiring
    /\ \/ /\ InUse(i)
          /\ ins' = [ins EXCEPT ![i].status = "destroy_scheduled", ![i].reason = "expired"]
          /\ expiring' = {<<i, "expired">>}
       \/ expiring' = {} /\ UNCHANGED ins
    /\ UNCHANGED <<now, balance, orders, change, program, extras>>

ExpireOrders(i) ==
    /\ <<i, "expired">> \in expiring
    /\ expiring' = {}
    /\ orders' = SetStatus(OrdersOf(i), {"active", "deploying"}, "expired")
    /\ UNCHANGED <<now, balance, ins, change, program, extras>>

\* Module Lifecycle: a plan to destroy is carried out, that of the customer
\* with or without giving up the refund.
Destroyed(i) ==
    /\ \/ ins[i].status = "destroy_scheduled" /\ ins[i].expires <= now
          /\ ins' = [ins EXCEPT ![i].status = "destroyed"]
       \/ InUse(i) /\ \E r \in {"manual", "user_no_refund"} :
            ins' = [ins EXCEPT ![i].status = "destroyed", ![i].reason = r]
    /\ UNCHANGED <<now, balance, orders, change, expiring, program, extras>>

adjustWallet(amount) ==
    /\ Extra
    /\ balance + amount >= 0
    /\ balance' = balance + amount
    /\ UNCHANGED <<now, orders, ins, change, expiring, program>>

\* Another customer's order takes what a programme with a limit for all gives.
OtherRedeems(b) ==
    /\ Extra
    /\ program[b].limits.total + program[b].limits.budget + program[b].limits.days > 0
    /\ \E plan \in Plans, months \in Months :
        LET d == benefitDiscount(b, tierPrice(plan, months)) IN
        /\ program[b].status = "active" /\ WithinLimits(b, d)
        /\ program' = [program EXCEPT ![b] = Counted(program[b], d, bonusDays(b))]
    /\ UNCHANGED <<now, balance, orders, ins, change, expiring>>

\* The counters stay, whatever is saved.
SavedRow(b, status, code, limits) ==
    [program[b] EXCEPT !.status = status, !.code = code, !.limits = limits,
                       !.saved = [own |-> Redeemed(b), used |-> program[b].used,
                                  spent |-> program[b].spent, days |-> program[b].days]]

\* A programme is paused, resumed or given other limits.  Its code changes only
\* when it is typed again.
adminSaveBenefitProgram(b) ==
    /\ Extra
    /\ \E status \in {"active", "paused"}, limits \in Limits[b] \cup {program[b].limits} :
       \E code \in {program[b].code, Offer[b].trigger = "promo_code" /\ status = "active"} :
         program' = [program EXCEPT ![b] = SavedRow(b, status, code, limits)]
    /\ UNCHANGED <<now, balance, orders, ins, change, expiring>>

syncBenefitProgramStates(b) ==
    /\ program[b].code /\ (program[b].status = "paused" \/ now >= Offer[b].ends)
    /\ program' = [program EXCEPT ![b].code = FALSE]
    /\ UNCHANGED <<now, balance, orders, ins, change, expiring, extras>>

\* INSERT IGNORE: one grant of a programme to a customer, for good.
adminGrantBenefit(b) ==
    /\ Offer[b].trigger = "targeted" /\ program[b].grant = "none"
    /\ program' = [program EXCEPT ![b].grant = "available"]
    /\ UNCHANGED <<now, balance, orders, ins, change, expiring, extras>>

adminVoidBenefitGrant(b) ==
    /\ Extra
    /\ program[b].grant = "available"
    /\ program' = [program EXCEPT ![b].grant = "voided"]
    /\ UNCHANGED <<now, balance, orders, ins, change, expiring>>

\* A quote lasts five minutes, a pass of the loop and a resize not much more
\* unless the node is away.
Tick ==
    /\ now < MaxNow
    /\ change.status # "quoted" /\ expiring = {}
    /\ now' = now + 1
    /\ UNCHANGED <<balance, orders, ins, change, expiring, program, extras>>
-----------------------------------------------------------------------------
Codes == {NoProgram} \cup {b \in Programs : Offer[b].trigger = "promo_code"}

Customer ==
    \/ \E i \in Instances, p \in Plans, m \in Months, c \in Codes : purchaseWithWallet(i, p, m, c)
    \/ \E o \in Numbers, m \in Months, c \in Codes : renewWithWallet(o, m, c)
    \/ \E i \in Instances : refundOrder(i) \/ queueDeploymentRetry(i) \/ Destroyed(i)
    \/ \E i \in Instances, p \in Plans : buildPlanChangeQuote(i, p)
    \/ createPlanChange

Platform ==
    \/ \E i \in Instances :
        \/ DeploymentDone(i) \/ failDeployment(i)
        \/ ExpiredSeen(i) \/ ExpireInstance(i) \/ ExpireOrders(i)
    \/ markPlanChangeBlocked \/ completePlanChange \/ failPlanChange
    \/ \E b \in Programs : syncBenefitProgramStates(b)

Others ==
    \/ \E amount \in {-1, 1} : adjustWallet(amount)
    \/ \E b \in Programs :
        \/ OtherRedeems(b) \/ adminSaveBenefitProgram(b)
        \/ adminGrantBenefit(b) \/ adminVoidBenefitGrant(b)

Next == Customer \/ Platform \/ Others \/ Tick

Spec == Init /\ [][Next]_vars
-----------------------------------------------------------------------------
(* Properties.                                                             *)

\* refundOrder, completePlanChange: whatever the customer does while a change
\* waits, no order brings back more than was paid for it.
NoDoubleReturn == \A o \in Numbers : orders[o].credited <= orders[o].amount

\* renewWithWallet, completePlanChange: no day of an instance is sold twice.
NoDayTwice ==
    \A i \in Instances : \A a, b \in Active(i) :
        a # b => orders[a].end <= orders[b].start \/ orders[b].end <= orders[a].start

\* renewWithWallet, completePlanChange: the days an order in force is paid for
\* lie before the expiry of its instance, which the loop goes by.
PaidDaysServed ==
    \A i \in Instances : \A o \in Active(i) :
        ins[i].status \in {"running", "destroy_scheduled"} => orders[o].end <= ins[i].expires

\* docs/06: a refund cannot be undone; no renewal and no settlement of a change
\* that waited brings the instance back, sells a new period of it or moves its end.
RefundFinal ==
    [][\A i \in Instances : Of(i, {"refunded"}) # {} =>
         /\ ins'[i].status # "running" /\ ins'[i].expires = ins[i].expires
         /\ \A o \in 1..Len(orders') : orders'[o].instance = i => orders'[o].status # "active"]_vars

\* consumeCommercialBenefitTx: a benefit for the first order is enjoyed once, a
\* grant once, any other as often as its limit in force allows, refunds
\* notwithstanding; a limit lowered below what was enjoyed lets nothing more.
BenefitOnce ==
    \A b \in Programs :
        /\ Offer[b].audience = "first_paid" \/ Targeted(b) => Redeemed(b) <= 1
        /\ LET p == program[b] IN
           p.limits.perUser > 0 => Redeemed(b) <= p.limits.perUser \/ Redeemed(b) = p.saved.own

\* programEligible, consumeCommercialBenefitTx, adminSaveBenefitProgram: all
\* customers together never exceed the limits that are in force; a programme
\* beyond them is one whose limits an administrator lowered, and nothing was
\* redeemed since.
BudgetKept ==
    \A b \in Programs :
        LET p == program[b] IN
        /\ p.limits.total > 0 => p.used <= p.limits.total \/ p.used = p.saved.used
        /\ p.limits.budget > 0 => p.spent <= p.limits.budget \/ p.spent = p.saved.spent
        /\ p.limits.days > 0 => p.days <= p.limits.days \/ p.days = p.saved.days

-----------------------------------------------------------------------------
(* What does not hold: see README.                                         *)

\* docs/06, docs/07: an instance in use with paid days ahead can be refunded.
RefundPossible ==
    \A i \in Instances :
        (InUse(i) /\ change.status = "none" /\ expiring = {} /\ Active(i) # {}) => Contiguous(Active(i))

\* An order leaves the set of those in force only by a refund, by an exchange
\* or because its days are over.
InForceUntilItsEnd ==
    [][\A o \in Numbers : orders[o].status = "active" /\ orders'[o].status = "expired"
         => orders[o].end <= now]_vars

\* The orders ahead are of the plan that the instance has.
OrdersOnPlan ==
    \A i \in Instances : \A o \in Active(i) :
        (InUse(i) /\ change.status = "none" /\ ins[i].plan # NoPlan /\ orders[o].end > now)
            => orders[o].plan = ins[i].plan

\* A running instance can be renewed, which takes an order that is in force or expired.
RunningCanRenew == \A i \in Instances : InUse(i) => Of(i, {"active", "expired"}) # {}
=============================================================================
