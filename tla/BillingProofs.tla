---------------------------- MODULE BillingProofs ----------------------------
(***************************************************************************)
(* Proofs about Billing, for any plans, terms, programmes, customers'      *)
(* requests and bounds: the types; a benefit programme keeps its limits    *)
(* and its budget; a refund is final; the days that were paid for are      *)
(* served, and none of them twice; nothing comes back twice for an order;  *)
(* a benefit is enjoyed once.                                              *)
(***************************************************************************)
EXTENDS Billing, DataInduction, SequenceTheorems, TLAPS

Fields(s, c, g, u, p, y, l, v) ==
    [status |-> s, code |-> c, grant |-> g, used |-> u, spent |-> p, days |-> y, limits |-> l, saved |-> v]

\* Only a counter and the limits need a type: the rest of a row has to keep its place.
Row(r) ==
    /\ r = Fields(r.status, r.code, r.grant, r.used, r.spent, r.days, r.limits, r.saved)
    /\ r.used \in Nat /\ r.limits \in LimitRow

ProgramInv == program = [b \in Programs |-> program[b]] /\ \A b \in Programs : Row(program[b])

\* What BudgetKept says of one row.
Kept(r) ==
    /\ r.limits.total > 0 => r.used <= r.limits.total \/ r.used = r.saved.used
    /\ r.limits.budget > 0 => r.spent <= r.limits.budget \/ r.spent = r.saved.spent
    /\ r.limits.days > 0 => r.days <= r.limits.days \/ r.days = r.saved.days

BudgetInv == ProgramInv /\ \A b \in Programs : Kept(program[b])

LEMMA LimitTypes ==
  ASSUME NEW l \in LimitRow
  PROVE  l.perUser \in Nat /\ l.total \in Nat /\ l.budget \in Nat /\ l.days \in Nat
  BY DEF LimitRow

\* The limits a programme begins with, and those it may be given.
LEMMA LimitRows ==
  ASSUME NEW b \in Programs
  PROVE  Offer[b].limits \in LimitRow /\ Limits[b] \subseteq LimitRow
<1>1. Offer[b] \in OfferRow /\ Limits[b] \in SUBSET LimitRow
  BY BillingAssumption DEF BillingAssumption
<1> QED BY <1>1 DEF OfferRow

LEMMA FieldsOf ==
  ASSUME NEW s, NEW c, NEW g, NEW u, NEW p, NEW y, NEW l, NEW v, NEW r, r = Fields(s, c, g, u, p, y, l, v)
  PROVE  /\ r.status = s /\ r.code = c /\ r.grant = g /\ r.used = u /\ r.spent = p /\ r.days = y
         /\ r.limits = l /\ r.saved = v
         /\ u \in Nat /\ l \in LimitRow => Row(r)
  BY DEF Fields, Row

LEMMA CountedFields ==
  ASSUME NEW r, Row(r), NEW d, NEW x
  PROVE  Counted(r, d, x)
           = Fields(r.status, r.code, r.grant, r.used + 1, r.spent + d, r.days + x, r.limits, r.saved)
<1>1. [r EXCEPT !.used = r.used + 1, !.spent = r.spent + d, !.days = r.days + x]
        = [[[r EXCEPT !.used = r.used + 1] EXCEPT !.spent = r.spent + d] EXCEPT !.days = r.days + x]
  OBVIOUS
<1>2. Counted(r, d, x) = [r EXCEPT !.used = r.used + 1, !.spent = r.spent + d, !.days = r.days + x]
  BY DEF Counted
<1>3. [r EXCEPT !.used = r.used + 1]
        = Fields(r.status, r.code, r.grant, r.used + 1, r.spent, r.days, r.limits, r.saved)
  BY DEF Row, Fields
<1>4. [Fields(r.status, r.code, r.grant, r.used + 1, r.spent, r.days, r.limits, r.saved) EXCEPT !.spent = r.spent + d]
        = Fields(r.status, r.code, r.grant, r.used + 1, r.spent + d, r.days, r.limits, r.saved)
  BY DEF Fields
<1>5. [Fields(r.status, r.code, r.grant, r.used + 1, r.spent + d, r.days, r.limits, r.saved) EXCEPT !.days = r.days + x]
        = Fields(r.status, r.code, r.grant, r.used + 1, r.spent + d, r.days + x, r.limits, r.saved)
  BY DEF Fields
<1> QED
  BY <1>1, <1>2, <1>3, <1>4, <1>5

LEMMA InitBudget == Init => BudgetInv
  BY LimitRows DEF Init, BudgetInv, ProgramInv, Row, Fields, Kept

\* One row changes.
LEMMA RowSet ==
  ASSUME BudgetInv, NEW b \in Programs, NEW r, Row(r), Kept(r),
         program' = [program EXCEPT ![b] = r]
  PROVE  BudgetInv'
<1>1. program' = [c \in Programs |-> IF c = b THEN r ELSE program[c]]
  BY DEF BudgetInv, ProgramInv
<1>2. \A c \in Programs : Row(program'[c]) /\ Kept(program'[c])
  BY <1>1 DEF BudgetInv, ProgramInv
<1>3. program' = [c \in Programs |-> program'[c]]
  BY <1>1
<1> QED
  BY <1>2, <1>3 DEF BudgetInv, ProgramInv, Row, Kept

\* A redemption within the limits, with or without a grant that it uses up.
LEMMA RedeemedWithin ==
  ASSUME BudgetInv, NEW b \in Programs, NEW d, WithinLimits(b, d), NEW g, NEW r,
         r = Fields(program[b].status, program[b].code, g, program[b].used + 1,
                    program[b].spent + d, program[b].days + bonusDays(b),
                    program[b].limits, program[b].saved)
  PROVE  Row(r) /\ Kept(r)
<1> DEFINE l == program[b].limits
<1>1. program[b].used \in Nat /\ l \in LimitRow
  BY DEF BudgetInv, ProgramInv, Row
<1>2. Row(r)
  BY <1>1, FieldsOf
<1>3. /\ r.used = program[b].used + 1
      /\ r.spent = program[b].spent + d
      /\ r.days = program[b].days + bonusDays(b)
      /\ r.limits = l
  BY FieldsOf
<1>4. l.total > 0 => r.used <= l.total
  BY <1>1, <1>3, LimitTypes DEF WithinLimits
<1>5. l.budget > 0 => r.spent <= l.budget
  BY <1>1, <1>3, LimitTypes DEF WithinLimits
<1>6. l.days > 0 => r.days <= l.days
  BY <1>1, <1>3, LimitTypes DEF WithinLimits
<1> QED
  BY <1>2, <1>3, <1>4, <1>5, <1>6 DEF Kept

\* Whatever a quote answers, it is within the limits of what it names.
LEMMA QuoteWithin ==
  ASSUME NEW scope, NEW i, NEW plan, NEW months, NEW code \in Codes,
         NEW q \in quoteCommercialBenefit(scope, i, plan, months, code)
  PROVE  \/ q.benefit = NoProgram
         \/ /\ q.benefit \in Programs
            /\ WithinLimits(q.benefit, q.discount)
            /\ q.days = bonusDays(q.benefit)
<1> DEFINE list == tierPrice(plan, months)
           eligible == {b \in Candidates(code) : programEligible(b, scope, i, plan, months, list)}
<1>1. CASE eligible = {}
  BY <1>1 DEF quoteCommercialBenefit, FullPrice
<1>2. CASE eligible # {}
  <2>1. PICK b \in Best(eligible, list) : q = Reduced(b, list)
    BY <1>2 DEF quoteCommercialBenefit
  <2>2. b \in eligible
    BY <2>1 DEF Best
  <2>3. b \in Programs
    BY <2>2, BillingAssumption DEF Candidates, Codes
  <2>4. WithinLimits(b, benefitDiscount(b, list))
    BY <2>2 DEF programEligible
  <2> QED
    BY <2>1, <2>3, <2>4 DEF Reduced
<1> QED
  BY <1>1, <1>2

LEMMA ConsumeBudget ==
  ASSUME BudgetInv, NEW scope, NEW i, NEW plan, NEW months, NEW code \in Codes,
         NEW q \in quoteCommercialBenefit(scope, i, plan, months, code),
         consumeCommercialBenefit(q)
  PROVE  BudgetInv'
<1>1. CASE q.benefit = NoProgram
  <2>1. program' = program
    BY <1>1 DEF consumeCommercialBenefit
  <2> QED
    BY <2>1 DEF BudgetInv, ProgramInv, Row, Kept
<1>2. CASE q.benefit # NoProgram
  <2> DEFINE b == q.benefit
             counted == Counted(program[b], q.discount, q.days)
             r == [counted EXCEPT !.grant = GrantUsed(b)]
  <2>1. b \in Programs /\ WithinLimits(b, q.discount) /\ q.days = bonusDays(b)
    BY <1>2, QuoteWithin
  <2>2. Row(program[b])
    BY <2>1 DEF BudgetInv, ProgramInv
  <2>3. program' = [program EXCEPT ![b] = r]
    BY <1>2 DEF consumeCommercialBenefit
  <2>4. counted = Fields(program[b].status, program[b].code, program[b].grant,
                         program[b].used + 1, program[b].spent + q.discount,
                         program[b].days + bonusDays(b), program[b].limits, program[b].saved)
    BY <2>1, <2>2, CountedFields
  <2>5. r = Fields(program[b].status, program[b].code, GrantUsed(b),
                   program[b].used + 1, program[b].spent + q.discount,
                   program[b].days + bonusDays(b), program[b].limits, program[b].saved)
    BY <2>4 DEF Fields
  <2> HIDE DEF r, b
  <2>6. Row(r) /\ Kept(r)
    BY <2>1, <2>5, RedeemedWithin
  <2> QED
    BY <2>1, <2>3, <2>6, RowSet
<1> QED
  BY <1>1, <1>2

\* Grants, codes and the state of a programme do not touch its counters and limits.
LEMMA StatusBudget ==
  ASSUME BudgetInv, NEW b \in Programs, NEW s, NEW c, NEW g, NEW r,
         r = Fields(s, c, g, program[b].used, program[b].spent, program[b].days,
                    program[b].limits, program[b].saved),
         program' = [program EXCEPT ![b] = r]
  PROVE  BudgetInv'
<1>1. Row(program[b]) /\ Kept(program[b])
  BY DEF BudgetInv, ProgramInv
<1>2. Row(r)
  BY <1>1, FieldsOf DEF Row
<1>3. /\ r.used = program[b].used /\ r.spent = program[b].spent /\ r.days = program[b].days
      /\ r.limits = program[b].limits /\ r.saved = program[b].saved
  BY FieldsOf
<1>4. Kept(r)
  BY <1>1, <1>3 DEF Kept
<1> QED
  BY <1>2, <1>4, RowSet

\* New limits: what they say of the past is in the counters that are saved.
LEMMA SavedBudget ==
  ASSUME BudgetInv, NEW b \in Programs, adminSaveBenefitProgram(b) PROVE BudgetInv'
<1>0. PICK s \in {"active", "paused"}, l \in Limits[b] \cup {program[b].limits} :
        \E c \in {program[b].code, Offer[b].trigger = "promo_code" /\ s = "active"} :
          program' = [program EXCEPT ![b] = SavedRow(b, s, c, l)]
  BY DEF adminSaveBenefitProgram
<1>1. PICK c : program' = [program EXCEPT ![b] = SavedRow(b, s, c, l)]
  BY <1>0
<1> DEFINE v == [own |-> Redeemed(b), used |-> program[b].used, spent |-> program[b].spent, days |-> program[b].days]
           r == SavedRow(b, s, c, l)
<1>2. Row(program[b])
  BY DEF BudgetInv, ProgramInv
<1>3. l \in LimitRow
  BY <1>2, LimitRows DEF Row
<1>4. r = Fields(s, c, program[b].grant, program[b].used, program[b].spent, program[b].days, l, v)
  <2>1. r = [program[b] EXCEPT !.status = s, !.code = c, !.limits = l, !.saved = v]
    BY DEF SavedRow
  <2>2. program[b] = Fields(program[b].status, program[b].code, program[b].grant, program[b].used,
                            program[b].spent, program[b].days, program[b].limits, program[b].saved)
    BY <1>2 DEF Row
  <2> HIDE DEF r, v
  <2> QED BY <2>1, <2>2 DEF Fields
<1>5. v.used = program[b].used /\ v.spent = program[b].spent /\ v.days = program[b].days
  OBVIOUS
<1> HIDE DEF r, v
<1>6. r.used = v.used /\ r.spent = v.spent /\ r.days = v.days /\ r.saved = v
  BY <1>4, <1>5, FieldsOf
<1>7. Row(r)
  BY <1>2, <1>3, <1>4, FieldsOf DEF Row
<1>8. Kept(r)
  BY <1>6 DEF Kept
<1>9. program' = [program EXCEPT ![b] = r]
  BY <1>1 DEF r
<1> QED BY <1>7, <1>8, <1>9, RowSet

LEMMA OtherBudget ==
  ASSUME BudgetInv, NEW b \in Programs, OtherRedeems(b) PROVE BudgetInv'
<1>1. PICK plan \in Plans, months \in Months :
        LET d == benefitDiscount(b, tierPrice(plan, months)) IN
        /\ WithinLimits(b, d)
        /\ program' = [program EXCEPT ![b] = Counted(program[b], d, bonusDays(b))]
  BY DEF OtherRedeems
<1> DEFINE d == benefitDiscount(b, tierPrice(plan, months))
           r == Counted(program[b], d, bonusDays(b))
<1>2. Row(program[b])
  BY DEF BudgetInv, ProgramInv
<1>3. program' = [program EXCEPT ![b] = r] /\ WithinLimits(b, d)
  BY <1>1
<1> HIDE DEF d
<1>4. r = Fields(program[b].status, program[b].code, program[b].grant, program[b].used + 1,
                 program[b].spent + d, program[b].days + bonusDays(b), program[b].limits, program[b].saved)
  BY <1>2, CountedFields
<1> HIDE DEF r
<1>5. Row(r) /\ Kept(r)
  BY <1>3, <1>4, RedeemedWithin
<1> QED
  BY <1>3, <1>5, RowSet

LEMMA NextBudget == BudgetInv /\ [Next]_vars => BudgetInv'
<1> SUFFICES ASSUME BudgetInv, [Next]_vars PROVE BudgetInv'
  OBVIOUS
<1>1. CASE program' = program
  BY <1>1 DEF BudgetInv, ProgramInv, Row, Kept
<1>2. ASSUME NEW i \in Instances, NEW p \in Plans, NEW m \in Months, NEW c \in Codes,
             purchaseWithWallet(i, p, m, c)
      PROVE  BudgetInv'
  BY <1>2, ConsumeBudget DEF purchaseWithWallet
<1>3. ASSUME NEW o \in Numbers, NEW m \in Months, NEW c \in Codes, renewWithWallet(o, m, c)
      PROVE  BudgetInv'
  BY <1>3, ConsumeBudget DEF renewWithWallet
<1>4. ASSUME NEW b \in Programs, OtherRedeems(b) PROVE BudgetInv'
  BY <1>4, OtherBudget
<1>5. ASSUME NEW b \in Programs, adminSaveBenefitProgram(b) PROVE BudgetInv'
  BY <1>5, SavedBudget
<1>6. ASSUME NEW b \in Programs, syncBenefitProgramStates(b) PROVE BudgetInv'
  <2>1. program[b] = Fields(program[b].status, program[b].code, program[b].grant,
                            program[b].used, program[b].spent, program[b].days,
                            program[b].limits, program[b].saved)
    BY DEF BudgetInv, ProgramInv, Row
  <2>2. PICK x : program' = [program EXCEPT ![b] = [program[b] EXCEPT !.code = x]]
    BY <1>6 DEF syncBenefitProgramStates
  <2>3. [program[b] EXCEPT !.code = x] =
          Fields(program[b].status, x, program[b].grant, program[b].used, program[b].spent, program[b].days,
                 program[b].limits, program[b].saved)
    BY <2>1 DEF Fields
  <2> QED
    BY <2>2, <2>3, StatusBudget
<1>7. ASSUME NEW b \in Programs, adminGrantBenefit(b) \/ adminVoidBenefitGrant(b) PROVE BudgetInv'
  <2>1. program[b] = Fields(program[b].status, program[b].code, program[b].grant,
                            program[b].used, program[b].spent, program[b].days,
                            program[b].limits, program[b].saved)
    BY DEF BudgetInv, ProgramInv, Row
  <2>2. PICK x : program' = [program EXCEPT ![b] = [program[b] EXCEPT !.grant = x]]
    BY <1>7 DEF adminGrantBenefit, adminVoidBenefitGrant
  <2>3. [program[b] EXCEPT !.grant = x] =
          Fields(program[b].status, program[b].code, x, program[b].used, program[b].spent, program[b].days,
                 program[b].limits, program[b].saved)
    BY <2>1 DEF Fields
  <2> QED
    BY <2>2, <2>3, StatusBudget
<1>8. program' = program
        \/ (\E i \in Instances, p \in Plans, m \in Months, c \in Codes : purchaseWithWallet(i, p, m, c))
        \/ (\E o \in Numbers, m \in Months, c \in Codes : renewWithWallet(o, m, c))
        \/ \E b \in Programs : OtherRedeems(b) \/ adminSaveBenefitProgram(b) \/ adminGrantBenefit(b)
                                \/ adminVoidBenefitGrant(b) \/ syncBenefitProgramStates(b)
  BY DEF Next, Customer, Platform, Others, vars, refundOrder, queueDeploymentRetry, Destroyed,
     buildPlanChangeQuote, createPlanChange, DeploymentDone, failDeployment, ExpiredSeen,
     ExpireInstance, ExpireOrders, markPlanChangeBlocked, completePlanChange, failPlanChange, adjustWallet, Tick
<1> QED
  BY <1>1, <1>2, <1>3, <1>4, <1>5, <1>6, <1>7, <1>8

\* programEligible, consumeCommercialBenefitTx: whoever redeems a programme, for
\* purchases or renewals, in any order with administrators who change its status,
\* its code and its limits, and with the loop, no redemption goes beyond the
\* limits in force.  What it offers, to whom and when is taken as fixed.
THEOREM BudgetCorrect == Spec => []BudgetKept
<1>1. BudgetInv => BudgetKept
  BY DEF BudgetInv, Kept, BudgetKept
<1> QED
  BY <1>1, InitBudget, NextBudget, PTL DEF Spec
-----------------------------------------------------------------------------
(* Prices, of the kinds that TypeOK says, and never more than what they are *)
(* a part of.                                                               *)

LEMMA ProductNat == ASSUME NEW a \in Nat, NEW b \in Nat PROVE a * b \in Nat
  OBVIOUS

LEMMA QuotientNat == ASSUME NEW a \in Nat, NEW d \in Nat, d # 0 PROVE a \div d \in Nat
  OBVIOUS

LEMMA Share ==
  ASSUME NEW a \in Nat, NEW n \in Nat, NEW d \in Nat, d # 0, n <= d
  PROVE  (a * n) \div d \in Nat /\ (a * n) \div d <= a
<1>1. a * n \in Nat /\ a * d \in Nat /\ a * n <= a * d
  OBVIOUS
<1>2. (a * n) \div d \in Nat
  BY <1>1, QuotientNat
<1>3. (a * n) \div d <= (a * d) \div d
  BY <1>1
<1>4. (a * d) \div d = a
  BY <1>1
<1> QED BY <1>1, <1>2, <1>3, <1>4

LEMMA LaterNat ==
  ASSUME NEW a \in Nat, NEW b \in Nat
  PROVE  Later(a, b) \in Nat /\ Later(a, b) >= a /\ Later(a, b) >= b
  BY DEF Later

LEMMA ProrateShare ==
  ASSUME NEW a \in Nat, NEW s \in Nat, NEW e \in Nat, NEW f \in Nat
  PROVE  prorateFen(a, s, e, f) \in Nat /\ prorateFen(a, s, e, f) <= a
<1>1. CASE e <= s \/ e <= f
  BY <1>1 DEF prorateFen
<1>2. CASE ~ (e <= s \/ e <= f)
  <2> DEFINE n == e - Later(f, s)
             d == e - s
  <2>1. n \in Nat /\ d \in Nat /\ d # 0 /\ n <= d
    BY <1>2 DEF Later
  <2>2. prorateFen(a, s, e, f) = (a * n) \div d
    BY <1>2 DEF prorateFen
  <2> HIDE DEF n, d
  <2> QED BY <2>1, <2>2, Share
<1> QED BY <1>1, <1>2

LEMMA RefundShare ==
  ASSUME NEW o, orders[o] \in OrderRow, NEW cutoff \in Nat
  PROVE  RefundOf(o, cutoff) \in Nat /\ RefundOf(o, cutoff) <= orders[o].amount
  BY ProrateShare DEF RefundOf, OrderRow

LEMMA tierPriceNat ==
  ASSUME NEW plan \in Plans, NEW months \in Months
  PROVE  tierPrice(plan, months) \in Nat
<1>1. Monthly[plan] \in Nat /\ months \in Nat /\ TierBps[months] \in Nat
  BY BillingAssumption DEF BillingAssumption
<1>2. Monthly[plan] * months * TierBps[months] \in Nat
  BY <1>1, ProductNat
<1> QED BY <1>2, QuotientNat DEF tierPrice

LEMMA OfferRows ==
  ASSUME NEW b \in Programs PROVE Offer[b] \in OfferRow
  BY BillingAssumption DEF BillingAssumption

LEMMA DiscountShare ==
  ASSUME NEW b \in Programs, NEW list \in Nat
  PROVE  benefitDiscount(b, list) \in Nat /\ benefitDiscount(b, list) <= list
<1>1. /\ Offer[b].value \in Nat
      /\ Offer[b].type \in {"fixed_discount", "percent_discount", "bonus_days"}
  BY OfferRows DEF OfferRow
<1>2. (list * Offer[b].value) \div 10000 \in Nat
  BY <1>1, ProductNat, QuotientNat
<1> QED BY <1>1, <1>2 DEF benefitDiscount

LEMMA bonusDaysNat == ASSUME NEW b \in Programs PROVE bonusDays(b) \in Nat
  BY OfferRows DEF bonusDays, OfferRow

\* What a quote may answer, and for whom.
LEMMA QuoteRow ==
  ASSUME NEW scope, NEW i, NEW plan \in Plans, NEW months \in Months, NEW code \in Codes,
         NEW q \in quoteCommercialBenefit(scope, i, plan, months, code)
  PROVE  /\ q.amount \in Nat /\ q.discount \in Nat /\ q.days \in Nat
         /\ q.benefit \in Programs \cup {NoProgram}
         /\ q.benefit # NoProgram =>
                programEligible(q.benefit, scope, i, plan, months, tierPrice(plan, months))
<1> DEFINE list == tierPrice(plan, months)
           eligible == {b \in Candidates(code) : programEligible(b, scope, i, plan, months, list)}
<1>0. list \in Nat
  BY tierPriceNat
<1>1. CASE eligible = {}
  BY <1>0, <1>1 DEF quoteCommercialBenefit, FullPrice
<1>2. CASE eligible # {}
  <2>1. PICK b \in Best(eligible, list) : q = Reduced(b, list)
    BY <1>2 DEF quoteCommercialBenefit
  <2>2. b \in eligible
    BY <2>1 DEF Best
  <2>3. b \in Programs
    BY <2>2, BillingAssumption DEF Candidates, Codes
  <2>4. benefitDiscount(b, list) \in Nat /\ benefitDiscount(b, list) <= list /\ bonusDays(b) \in Nat
    BY <1>0, <2>3, DiscountShare, bonusDaysNat
  <2>5. /\ q.benefit = b /\ q.amount = list - benefitDiscount(b, list)
        /\ q.discount = benefitDiscount(b, list) /\ q.days = bonusDays(b)
    BY <2>1 DEF Reduced
  <2>6. programEligible(b, scope, i, plan, months, list)
    BY <2>2
  <2> HIDE DEF list
  <2> QED BY <1>0, <2>3, <2>4, <2>5, <2>6 DEF list
<1> QED BY <1>1, <1>2

\* The tier a period reaches is one that is on sale.
LEMMA TierOnSale ==
  ASSUME NEW start \in Nat, NEW end \in Nat PROVE planChangeTierMonths(start, end) \in Months
<1> DEFINE reached == {m \in Months : end - start >= m * Month}
<1>0. Months \in SUBSET Nat /\ Months # {} /\ Month \in Nat /\ Month # 0
  BY BillingAssumption DEF BillingAssumption
<1>1. CASE reached = {}
  <2>1. \E x \in Months : \A y \in Months : x <= y
    BY <1>0, NatMin
  <2> QED BY <1>1, <2>1 DEF planChangeTierMonths, Least
<1>2. CASE reached # {}
  <2>1. reached \in SUBSET Nat /\ \A m \in reached : m <= end
    <3> SUFFICES ASSUME NEW m \in reached PROVE m <= end
      BY <1>0
    <3>1. m \in Nat /\ end - start >= m * Month
      BY <1>0
    <3>2. m * Month >= m
      BY <1>0, <3>1
    <3>3. m * Month \in Nat
      BY <1>0, <3>1
    <3> HIDE DEF reached
    <3> QED BY <3>1, <3>2, <3>3
  <2>2. IsFiniteSet(reached)
    BY <2>1, FS_BoundedSetOfNaturals
  <2>3. PICK m \in reached : \A x \in reached : m >= x
    BY <1>2, <2>1, <2>2, FiniteMax
  <2>4. \A n \in reached : n <= m
    BY <2>1, <2>3
  <2>5. (CHOOSE x \in reached : \A n \in reached : n <= x) \in reached
    BY <2>3, <2>4
  <2> QED BY <1>2, <2>5 DEF planChangeTierMonths
<1> QED BY <1>1, <1>2

-----------------------------------------------------------------------------
(* How the rows of orders change: one more, each by itself, or both.        *)

LEMMA OrdersLen ==
  ASSUME orders \in Seq(OrderRow)
  PROVE  /\ Len(orders) \in Nat /\ Numbers \in SUBSET Nat /\ IsFiniteSet(Numbers)
         /\ orders \in [Numbers -> OrderRow] /\ \A o \in Numbers : orders[o] \in OrderRow
<1>1. Len(orders) \in Nat /\ orders \in [1..Len(orders) -> OrderRow]
  BY LenProperties
<1>2. IsFiniteSet(1..Len(orders))
  BY <1>1, FS_Interval
<1> QED BY <1>1, <1>2 DEF Numbers

LEMMA RowsAreSeq ==
  ASSUME NEW n \in Nat, NEW f \in [1..n -> OrderRow]
  PROVE  f \in Seq(OrderRow) /\ Len(f) = n
<1>1. f \in Seq(OrderRow)
  BY SeqDef
<1>2. Len(f) \in Nat /\ DOMAIN f = 1..Len(f)
  BY <1>1, LenProperties
<1>3. 1..Len(f) = 1..n
  BY <1>2
<1> QED BY <1>1, <1>2, <1>3

LEMMA AppendOrders ==
  ASSUME orders \in Seq(OrderRow), NEW r \in OrderRow, orders' = Append(orders, r)
  PROVE  /\ orders' \in Seq(OrderRow)
         /\ Len(orders) + 1 \notin Numbers /\ Numbers' = Numbers \cup {Len(orders) + 1}
         /\ \A o \in Numbers : orders'[o] = orders[o]
         /\ orders'[Len(orders) + 1] = r
<1>1. Len(orders) \in Nat
  BY OrdersLen
<1>2. /\ orders' \in Seq(OrderRow) /\ Len(orders') = Len(orders) + 1
      /\ \A o \in 1..Len(orders) : orders'[o] = orders[o]
      /\ orders'[Len(orders) + 1] = r
  BY AppendProperties
<1> QED BY <1>1, <1>2 DEF Numbers

LEMMA MapOrders ==
  ASSUME orders \in Seq(OrderRow), orders' \in [Numbers -> OrderRow]
  PROVE  orders' \in Seq(OrderRow) /\ Numbers' = Numbers
<1>1. Len(orders) \in Nat
  BY OrdersLen
<1> QED BY <1>1, RowsAreSeq DEF Numbers

LEMMA ConcatOrders ==
  ASSUME orders \in Seq(OrderRow), NEW f \in [Numbers -> OrderRow],
         NEW n \in Nat, NEW g \in [1..n -> OrderRow], orders' = f \o g
  PROVE  /\ orders' \in Seq(OrderRow)
         /\ Numbers' = Numbers \cup {Len(orders) + k : k \in 1..n}
         /\ \A o \in Numbers : orders'[o] = f[o]
         /\ \A k \in 1..n : Len(orders) + k \notin Numbers /\ orders'[Len(orders) + k] = g[k]
<1> DEFINE m == Len(orders)
<1>1. m \in Nat
  BY OrdersLen
<1>2. f \in Seq(OrderRow) /\ Len(f) = m /\ g \in Seq(OrderRow) /\ Len(g) = n
  BY <1>1, RowsAreSeq DEF Numbers
<1> HIDE DEF m
<1>3. /\ orders' \in Seq(OrderRow) /\ Len(orders') = m + n
      /\ \A o \in 1..m + n : orders'[o] = IF o <= m THEN f[o] ELSE g[o - m]
  <2>1. orders' = f \o g
    OBVIOUS
  <2> QED BY <1>2, <2>1, ConcatProperties
<1>4. Numbers = 1..m /\ Numbers' = 1..m + n
  BY <1>3 DEF Numbers, m
<1>5. Numbers' = Numbers \cup {m + k : k \in 1..n}
  <2>1. ASSUME NEW o \in Numbers' PROVE o \in Numbers \cup {m + k : k \in 1..n}
    <3>1. CASE o <= m
      BY <1>1, <1>4, <3>1
    <3>2. CASE o > m
      <4>1. o - m \in 1..n /\ o = m + (o - m)
        BY <1>1, <1>4, <3>2
      <4> QED BY <4>1
    <3> QED BY <1>1, <1>4, <3>1, <3>2
  <2> QED BY <1>1, <1>4, <2>1
<1>6. \A o \in Numbers : orders'[o] = f[o]
  BY <1>1, <1>3, <1>4
<1>7. ASSUME NEW k \in 1..n PROVE m + k \notin Numbers /\ orders'[m + k] = g[k]
  <2>1. m + k \in 1..m + n /\ ~ (m + k <= m) /\ (m + k) - m = k
    BY <1>1
  <2> QED BY <1>1, <1>3, <1>4, <2>1
<1> QED BY <1>3, <1>5, <1>6, <1>7 DEF m

-----------------------------------------------------------------------------
(* Types.                                                                   *)

ChangeRow ==
    [status : {"none", "quoted", "processing", "blocked"}, instance : Instances,
     target : Plans \cup {NoPlan}, cutoff : Nat, items : SUBSET Item]

ChangeInv ==
    /\ change \in ChangeRow /\ IsFiniteSet(change.items)
    /\ change.status # "none" => change.target \in Plans

Listed == Instances \X {"listed", "expired"}

TypeInv ==
    /\ now \in 0..MaxNow /\ balance \in Nat /\ orders \in Seq(OrderRow)
    /\ ins \in [Instances -> InstanceRow] /\ ChangeInv
    /\ expiring \subseteq Listed /\ Cardinality(expiring) <= 1
    /\ program \in [Programs -> ProgramRow] /\ extras \in 0..MaxExtras

LEMMA TypesHold == TypeInv => TypeOK
  BY DEF TypeInv, TypeOK, ChangeInv, ChangeRow, Listed

LEMMA NowNat == ASSUME TypeInv PROVE now \in Nat
  BY BillingAssumption DEF BillingAssumption, TypeInv

LEMMA NoChangeRow == NoChange \in ChangeRow /\ IsFiniteSet(NoChange.items) /\ NoChange.status = "none"
<1>1. PICK i : i \in Instances
  BY BillingAssumption DEF BillingAssumption
<1>2. (CHOOSE j \in Instances : TRUE) \in Instances
  BY <1>1
<1>3. IsFiniteSet({})
  BY FS_EmptySet
<1> QED BY <1>2, <1>3 DEF NoChange, ChangeRow

LEMMA CountedRow ==
  ASSUME NEW row \in ProgramRow, NEW d \in Nat, NEW x \in Nat
  PROVE  Counted(row, d, x) \in ProgramRow
<1> DEFINE r1 == [row EXCEPT !.used = row.used + 1]
           r2 == [r1 EXCEPT !.spent = row.spent + d]
           r3 == [r2 EXCEPT !.days = row.days + x]
<1>1. row.used + 1 \in Nat /\ row.spent + d \in Nat /\ row.days + x \in Nat
  BY DEF ProgramRow
<1>2. r1 \in ProgramRow
  BY <1>1 DEF ProgramRow
<1>3. r2 \in ProgramRow
  <2> HIDE DEF r1
  <2> QED BY <1>1, <1>2 DEF ProgramRow
<1>4. r3 \in ProgramRow
  <2> HIDE DEF r2
  <2> QED BY <1>1, <1>3 DEF ProgramRow
<1>5. Counted(row, d, x) = [row EXCEPT !.used = row.used + 1, !.spent = row.spent + d, !.days = row.days + x]
  BY DEF Counted
<1>6. [row EXCEPT !.used = row.used + 1, !.spent = row.spent + d, !.days = row.days + x] = r3
  OBVIOUS
<1> QED BY <1>4, <1>5, <1>6

LEMMA ProgramSet ==
  ASSUME program \in [Programs -> ProgramRow], NEW b \in Programs, NEW r \in ProgramRow,
         program' = [program EXCEPT ![b] = r]
  PROVE  program' \in [Programs -> ProgramRow]
  OBVIOUS

LEMMA ConsumeType ==
  ASSUME TypeInv, NEW scope, NEW i, NEW plan \in Plans, NEW months \in Months, NEW code \in Codes,
         NEW q \in quoteCommercialBenefit(scope, i, plan, months, code),
         consumeCommercialBenefit(q)
  PROVE  program' \in [Programs -> ProgramRow]
<1>0. program \in [Programs -> ProgramRow]
  BY DEF TypeInv
<1>1. CASE q.benefit = NoProgram
  BY <1>0, <1>1 DEF consumeCommercialBenefit
<1>2. CASE q.benefit # NoProgram
  <2> DEFINE b == q.benefit
             row == Counted(program[b], q.discount, q.days)
             r == [row EXCEPT !.grant = GrantUsed(b)]
  <2>1. q.discount \in Nat /\ q.days \in Nat /\ b \in Programs
    BY <1>2, QuoteRow
  <2>2. program[b] \in ProgramRow
    BY <1>0, <2>1
  <2>3. row \in ProgramRow
    BY <2>1, <2>2, CountedRow
  <2>4. GrantUsed(b) \in {"none", "available", "used", "voided"}
    BY <2>2 DEF GrantUsed, ProgramRow
  <2>5. program' = [program EXCEPT ![b] = r]
    BY <1>2 DEF consumeCommercialBenefit
  <2> HIDE DEF row, b
  <2>6. r \in ProgramRow
    BY <2>3, <2>4 DEF ProgramRow
  <2> HIDE DEF r
  <2> QED BY <1>0, <2>1, <2>5, <2>6, ProgramSet
<1> QED BY <1>1, <1>2

LEMMA NewOrderRow ==
  ASSUME NEW i \in Instances, NEW plan \in Plans, NEW amount \in Nat, NEW start \in Nat, NEW end \in Nat,
         NEW status \in {"deploying", "active"}, NEW benefit \in Programs \cup {NoProgram}
  PROVE  NewOrder(i, plan, amount, start, end, status, benefit) \in OrderRow
  BY DEF NewOrder, OrderRow

LEMMA NextInstanceUnused == ASSUME Unused # {} PROVE NextInstance \in Unused
<1>1. Unused \in SUBSET Nat
  BY BillingAssumption DEF BillingAssumption, Unused
<1>2. \E m \in Unused : \A x \in Unused : m <= x
  BY <1>1, NatMin
<1> QED BY <1>2 DEF NextInstance

\* The period of a new order: a whole number of days, and not none.
LEMMA PeriodLasts ==
  ASSUME NEW base \in Nat, NEW months \in Months, NEW days \in Nat
  PROVE  base + months * Month + days \in Nat /\ base + months * Month + days > base
<1>1. months \in Nat /\ months # 0 /\ Month \in Nat /\ Month # 0
  BY BillingAssumption DEF BillingAssumption
<1>2. months * Month \in Nat /\ months * Month >= 1
  BY <1>1
<1> QED BY <1>2

LEMMA SetStatusRows ==
  ASSUME orders \in Seq(OrderRow), NEW S, NEW from,
         NEW to \in {"active", "expired", "deployment_failed"}, orders' = SetStatus(S, from, to)
  PROVE  /\ orders' \in Seq(OrderRow) /\ Numbers' = Numbers
         /\ \A o \in Numbers :
              orders'[o] = IF o \in S /\ orders[o].status \in from
                             THEN [orders[o] EXCEPT !.status = to] ELSE orders[o]
<1>1. \A o \in Numbers : orders[o] \in OrderRow /\ [orders[o] EXCEPT !.status = to] \in OrderRow
  BY OrdersLen DEF OrderRow
<1>2. orders' \in [Numbers -> OrderRow]
  BY <1>1 DEF SetStatus
<1> QED BY <1>2, MapOrders DEF SetStatus

-----------------------------------------------------------------------------
(* What a step does to instances and orders, field by field.                *)

Inst(s, r, e, p) == [status |-> s, reason |-> r, expires |-> e, plan |-> p]

InsTo(i, s, r, e, p) == ins' = [ins EXCEPT ![i] = Inst(s, r, e, p)]

LEMMA InsRow ==
  ASSUME ins \in [Instances -> InstanceRow], NEW i \in Instances
  PROVE  /\ ins[i] = Inst(ins[i].status, ins[i].reason, ins[i].expires, ins[i].plan)
         /\ ins[i].status \in {"none", "deploying", "running", "deployment_failed", "destroy_scheduled", "destroyed"}
         /\ ins[i].reason \in {"none", "expired", "refund", "manual", "user_no_refund"}
         /\ ins[i].expires \in Nat /\ ins[i].plan \in Plans \cup {NoPlan}
<1>1. ins[i] \in InstanceRow
  OBVIOUS
<1> QED BY <1>1 DEF InstanceRow, Inst

\* How the model writes a row of an instance.
LEMMA InsTo1 ==
  ASSUME ins \in [Instances -> InstanceRow], NEW i \in Instances, NEW s, ins' = [ins EXCEPT ![i].status = s]
  PROVE  InsTo(i, s, ins[i].reason, ins[i].expires, ins[i].plan)
<1>1. [ins[i] EXCEPT !.status = s] = Inst(s, ins[i].reason, ins[i].expires, ins[i].plan)
  BY InsRow DEF Inst
<1>2. [ins EXCEPT ![i].status = s] = [ins EXCEPT ![i] = [ins[i] EXCEPT !.status = s]]
  OBVIOUS
<1> QED BY <1>1, <1>2 DEF InsTo

LEMMA InsTo2 ==
  ASSUME ins \in [Instances -> InstanceRow], NEW i \in Instances, NEW s, NEW e,
         ins' = [ins EXCEPT ![i].status = s, ![i].expires = e]
  PROVE  InsTo(i, s, ins[i].reason, e, ins[i].plan)
<1>1. [ins[i] EXCEPT !.status = s] = Inst(s, ins[i].reason, ins[i].expires, ins[i].plan)
  BY InsRow DEF Inst
<1>2. [Inst(s, ins[i].reason, ins[i].expires, ins[i].plan) EXCEPT !.expires = e]
        = Inst(s, ins[i].reason, e, ins[i].plan)
  BY DEF Inst
<1>3. [ins EXCEPT ![i].status = s, ![i].expires = e]
        = [ins EXCEPT ![i] = [[ins[i] EXCEPT !.status = s] EXCEPT !.expires = e]]
  OBVIOUS
<1> QED BY <1>1, <1>2, <1>3 DEF InsTo

LEMMA InsTo3 ==
  ASSUME ins \in [Instances -> InstanceRow], NEW i \in Instances, NEW s, NEW r,
         ins' = [ins EXCEPT ![i].status = s, ![i].reason = r]
  PROVE  InsTo(i, s, r, ins[i].expires, ins[i].plan)
<1>1. [ins[i] EXCEPT !.status = s] = Inst(s, ins[i].reason, ins[i].expires, ins[i].plan)
  BY InsRow DEF Inst
<1>2. [Inst(s, ins[i].reason, ins[i].expires, ins[i].plan) EXCEPT !.reason = r]
        = Inst(s, r, ins[i].expires, ins[i].plan)
  BY DEF Inst
<1>3. [ins EXCEPT ![i].status = s, ![i].reason = r]
        = [ins EXCEPT ![i] = [[ins[i] EXCEPT !.status = s] EXCEPT !.reason = r]]
  OBVIOUS
<1> QED BY <1>1, <1>2, <1>3 DEF InsTo

LEMMA InsTo4 ==
  ASSUME ins \in [Instances -> InstanceRow], NEW i \in Instances, NEW s, NEW r, NEW e,
         ins' = [ins EXCEPT ![i].status = s, ![i].reason = r, ![i].expires = e]
  PROVE  InsTo(i, s, r, e, ins[i].plan)
<1>1. [ins[i] EXCEPT !.status = s] = Inst(s, ins[i].reason, ins[i].expires, ins[i].plan)
  BY InsRow DEF Inst
<1>2. [Inst(s, ins[i].reason, ins[i].expires, ins[i].plan) EXCEPT !.reason = r]
        = Inst(s, r, ins[i].expires, ins[i].plan)
  BY DEF Inst
<1>3. [Inst(s, r, ins[i].expires, ins[i].plan) EXCEPT !.expires = e] = Inst(s, r, e, ins[i].plan)
  BY DEF Inst
<1>4. [ins EXCEPT ![i].status = s, ![i].reason = r, ![i].expires = e]
        = [ins EXCEPT ![i] = [[[ins[i] EXCEPT !.status = s] EXCEPT !.reason = r] EXCEPT !.expires = e]]
  OBVIOUS
<1> QED BY <1>1, <1>2, <1>3, <1>4 DEF InsTo

LEMMA InsTo5 ==
  ASSUME ins \in [Instances -> InstanceRow], NEW i \in Instances, NEW p, ins' = [ins EXCEPT ![i].plan = p]
  PROVE  InsTo(i, ins[i].status, ins[i].reason, ins[i].expires, p)
<1>1. [ins[i] EXCEPT !.plan = p] = Inst(ins[i].status, ins[i].reason, ins[i].expires, p)
  BY InsRow DEF Inst
<1>2. [ins EXCEPT ![i].plan = p] = [ins EXCEPT ![i] = [ins[i] EXCEPT !.plan = p]]
  OBVIOUS
<1> QED BY <1>1, <1>2 DEF InsTo

\* The row of an instance is written, and no other.
LEMMA InsSet ==
  ASSUME ins \in [Instances -> InstanceRow], NEW i \in Instances, NEW s, NEW r, NEW e, NEW p,
         InsTo(i, s, r, e, p),
         s \in {"none", "deploying", "running", "deployment_failed", "destroy_scheduled", "destroyed"},
         r \in {"none", "expired", "refund", "manual", "user_no_refund"},
         e \in Nat, p \in Plans \cup {NoPlan}
  PROVE  /\ ins' \in [Instances -> InstanceRow]
         /\ ins'[i].status = s /\ ins'[i].reason = r /\ ins'[i].expires = e /\ ins'[i].plan = p
         /\ \A j \in Instances : j # i => ins'[j] = ins[j]
<1>1. Inst(s, r, e, p) \in InstanceRow
  BY DEF Inst, InstanceRow
<1>2. ins' = [ins EXCEPT ![i] = Inst(s, r, e, p)]
  BY DEF InsTo
<1>3. ins'[i] = Inst(s, r, e, p)
  BY <1>2
<1>4. ins'[i].status = s /\ ins'[i].reason = r /\ ins'[i].expires = e /\ ins'[i].plan = p
  BY <1>3 DEF Inst
<1> QED BY <1>1, <1>2, <1>4

Added(n, r) ==
    /\ orders' \in Seq(OrderRow) /\ r \in OrderRow
    /\ n \notin Numbers /\ Numbers' = Numbers \cup {n}
    /\ \A o \in Numbers : orders'[o] = orders[o]
    /\ orders'[n] = r

LEMMA PurchaseStep ==
  ASSUME TypeInv, NEW i \in Instances, NEW plan \in Plans, NEW months \in Months, NEW code \in Codes,
         purchaseWithWallet(i, plan, months, code)
  PROVE  \E q \in quoteCommercialBenefit("purchase", i, plan, months, code), end \in Nat :
            /\ end > now /\ ins[i].status = "none" /\ balance' \in Nat
            /\ InsTo(i, "deploying", ins[i].reason, end, ins[i].plan)
            /\ Added(Len(orders) + 1, NewOrder(i, plan, q.amount, now, end, "deploying", q.benefit))
            /\ consumeCommercialBenefit(q)
<1>1. PICK q \in quoteCommercialBenefit("purchase", i, plan, months, code) :
        /\ balance >= q.amount
        /\ balance' = balance - q.amount
        /\ orders' = Append(orders, NewOrder(i, plan, q.amount, now, now + months * Month + q.days,
                                             "deploying", q.benefit))
        /\ consumeCommercialBenefit(q)
        /\ ins' = [ins EXCEPT ![i].status = "deploying", ![i].expires = now + months * Month + q.days]
  BY DEF purchaseWithWallet
<1> DEFINE end == now + months * Month + q.days
           r == NewOrder(i, plan, q.amount, now, end, "deploying", q.benefit)
<1>2. /\ q.amount \in Nat /\ q.days \in Nat /\ now \in Nat /\ balance \in Nat
      /\ q.benefit \in Programs \cup {NoProgram}
  BY NowNat, QuoteRow DEF TypeInv
<1>3. end \in Nat /\ end > now
  BY <1>2, PeriodLasts
<1> HIDE DEF end
<1>4. ins[i].status = "none"
  <2>1. Unused # {} /\ i = NextInstance
    BY DEF purchaseWithWallet
  <2> QED BY <2>1, NextInstanceUnused DEF Unused
<1>5. r \in OrderRow
  BY <1>2, <1>3, NewOrderRow
<1>6. orders' = Append(orders, r) /\ orders \in Seq(OrderRow)
  BY <1>1 DEF end, TypeInv, TypeOK
<1> HIDE DEF r
<1>7. Added(Len(orders) + 1, r)
  BY <1>5, <1>6, AppendOrders DEF Added
<1>8. InsTo(i, "deploying", ins[i].reason, end, ins[i].plan)
  <2>1. ins' = [ins EXCEPT ![i].status = "deploying", ![i].expires = end]
    BY <1>1 DEF end
  <2>2. ins \in [Instances -> InstanceRow]
    BY DEF TypeInv
  <2> QED BY <2>1, <2>2, InsTo2
<1>9. balance' \in Nat
  BY <1>1, <1>2
<1> QED BY <1>1, <1>3, <1>4, <1>7, <1>8, <1>9 DEF r

LEMMA RenewStep ==
  ASSUME TypeInv, NEW source \in Numbers, NEW months \in Months, NEW code \in Codes,
         renewWithWallet(source, months, code)
  PROVE  LET i == orders[source].instance
             plan == IF ins[i].plan = NoPlan THEN orders[source].plan ELSE ins[i].plan
             base == RenewalBase(i) IN
         /\ i \in Instances /\ plan \in Plans /\ base \in Nat
         /\ base >= ins[i].expires /\ Renewable(i)
         /\ \E q \in quoteCommercialBenefit("renewal", i, plan, months, code), end \in Nat :
                /\ end > base /\ balance' \in Nat
                /\ InsTo(i, "running", "none", end, ins[i].plan)
                /\ Added(Len(orders) + 1, NewOrder(i, plan, q.amount, base, end, "active", q.benefit))
                /\ consumeCommercialBenefit(q)
<1> DEFINE i == orders[source].instance
           plan == IF ins[i].plan = NoPlan THEN orders[source].plan ELSE ins[i].plan
           base == RenewalBase(i)
<1>1. PICK q \in quoteCommercialBenefit("renewal", i, plan, months, code) :
        /\ balance >= q.amount
        /\ balance' = balance - q.amount
        /\ orders' = Append(orders, NewOrder(i, plan, q.amount, base, base + months * Month + q.days,
                                             "active", q.benefit))
        /\ consumeCommercialBenefit(q)
        /\ ins' = [ins EXCEPT ![i].status = "running", ![i].reason = "none",
                              ![i].expires = base + months * Month + q.days]
  BY DEF renewWithWallet
<1>2. Renewable(i)
  BY DEF renewWithWallet
<1>3. orders \in Seq(OrderRow) /\ ins \in [Instances -> InstanceRow] /\ balance \in Nat /\ now \in Nat
  BY NowNat DEF TypeInv
<1>4. i \in Instances /\ orders[source].plan \in Plans
  BY <1>3, OrdersLen DEF OrderRow
<1>5. ins[i].expires \in Nat /\ ins[i].plan \in Plans \cup {NoPlan}
  BY <1>3, <1>4, InsRow
<1>6. plan \in Plans
  BY <1>4, <1>5
<1>7. base \in Nat /\ base >= ins[i].expires
  BY <1>3, <1>5, LaterNat DEF RenewalBase
<1> HIDE DEF i, plan, base
<1> DEFINE end == base + months * Month + q.days
           r == NewOrder(i, plan, q.amount, base, end, "active", q.benefit)
<1>8. q.amount \in Nat /\ q.days \in Nat /\ q.benefit \in Programs \cup {NoProgram}
  BY <1>6, QuoteRow
<1>9. end \in Nat /\ end > base
  BY <1>7, <1>8, PeriodLasts
<1> HIDE DEF end
<1>10. r \in OrderRow
  BY <1>4, <1>6, <1>7, <1>8, <1>9, NewOrderRow
<1>11. orders' = Append(orders, r)
  BY <1>1 DEF end
<1> HIDE DEF r
<1>12. Added(Len(orders) + 1, r)
  BY <1>3, <1>10, <1>11, AppendOrders DEF Added
<1>13. InsTo(i, "running", "none", end, ins[i].plan)
  <2>1. ins' = [ins EXCEPT ![i].status = "running", ![i].reason = "none", ![i].expires = end]
    BY <1>1 DEF end
  <2> QED BY <1>3, <1>4, <2>1, InsTo4
<1>14. balance' \in Nat
  BY <1>1, <1>3, <1>8
<1>15. \E qq \in quoteCommercialBenefit("renewal", i, plan, months, code), e \in Nat :
                /\ e > base /\ balance' \in Nat
                /\ InsTo(i, "running", "none", e, ins[i].plan)
                /\ Added(Len(orders) + 1, NewOrder(i, plan, qq.amount, base, e, "active", qq.benefit))
                /\ consumeCommercialBenefit(qq)
  BY <1>1, <1>9, <1>12, <1>13, <1>14 DEF r
<1> QED BY <1>2, <1>4, <1>6, <1>7, <1>15 DEF i, plan, base

\* The row of a refunded order.
Refunded(r, fen, end) ==
    [instance |-> r.instance, plan |-> r.plan, amount |-> r.amount, start |-> r.start, end |-> end,
     credited |-> r.credited + fen, benefit |-> r.benefit, status |-> "refunded"]

LEMMA RefundedRow ==
  ASSUME NEW r \in OrderRow, NEW fen \in Nat, NEW end \in Nat
  PROVE  /\ [r EXCEPT !.status = "refunded", !.credited = r.credited + fen, !.end = end] = Refunded(r, fen, end)
         /\ Refunded(r, fen, end) \in OrderRow
<1> DEFINE R == [instance |-> r.instance, plan |-> r.plan, amount |-> r.amount, start |-> r.start,
                 end |-> r.end, credited |-> r.credited, benefit |-> r.benefit, status |-> r.status]
<1>1. r = R
  BY DEF OrderRow
<1> DEFINE R1 == [instance |-> r.instance, plan |-> r.plan, amount |-> r.amount, start |-> r.start,
                  end |-> r.end, credited |-> r.credited, benefit |-> r.benefit, status |-> "refunded"]
           R2 == [instance |-> r.instance, plan |-> r.plan, amount |-> r.amount, start |-> r.start,
                  end |-> r.end, credited |-> r.credited + fen, benefit |-> r.benefit, status |-> "refunded"]
<1>2. [R EXCEPT !.status = "refunded", !.credited = r.credited + fen, !.end = end] = Refunded(r, fen, end)
  <2>1. [R EXCEPT !.status = "refunded"] = R1
    OBVIOUS
  <2>2. [R1 EXCEPT !.credited = r.credited + fen] = R2
    OBVIOUS
  <2>3. [R2 EXCEPT !.end = end] = Refunded(r, fen, end)
    BY DEF Refunded
  <2>4. [R EXCEPT !.status = "refunded", !.credited = r.credited + fen, !.end = end]
          = [[[R EXCEPT !.status = "refunded"] EXCEPT !.credited = r.credited + fen] EXCEPT !.end = end]
    OBVIOUS
  <2> QED BY <2>1, <2>2, <2>3, <2>4
<1>3. Refunded(r, fen, end) \in OrderRow
  BY DEF Refunded, OrderRow
<1> QED BY <1>1, <1>2, <1>3

LEMMA RefundStep ==
  ASSUME TypeInv, NEW i \in Instances, refundOrder(i)
  PROVE  LET cutoff == now + PrepaidDays IN
         /\ orders' \in Seq(OrderRow) /\ Numbers' = Numbers
         /\ \A o \in Active(i) : orders'[o] = Refunded(orders[o], RefundOf(o, cutoff), Later(cutoff, orders[o].start))
         /\ \A o \in Numbers : o \notin Active(i) => orders'[o] = orders[o]
         /\ \A o \in Active(i) : RefundOf(o, cutoff) \in Nat /\ RefundOf(o, cutoff) <= orders[o].amount
         /\ Active(i) # {} /\ balance' \in Nat /\ cutoff \in Nat
         /\ \/ InUse(i) /\ InsTo(i, "destroy_scheduled", "refund", cutoff, ins[i].plan)
            \/ ins[i].status = "destroyed" /\ UNCHANGED ins
<1> DEFINE cutoff == now + PrepaidDays
           S == Active(i)
           f == [o \in S |-> RefundOf(o, cutoff)]
           row(o) == Refunded(orders[o], RefundOf(o, cutoff), Later(cutoff, orders[o].start))
<1>1. /\ orders \in Seq(OrderRow) /\ ins \in [Instances -> InstanceRow] /\ balance \in Nat
      /\ cutoff \in Nat
  BY NowNat, BillingAssumption DEF TypeInv, BillingAssumption
<1> HIDE DEF cutoff
<1>2. S \subseteq Numbers /\ IsFiniteSet(S) /\ \A o \in Numbers : orders[o] \in OrderRow
  BY <1>1, OrdersLen, FS_Subset DEF Active, OrdersOf
<1> HIDE DEF S
<1>3. \A o \in S : RefundOf(o, cutoff) \in Nat /\ RefundOf(o, cutoff) <= orders[o].amount
  BY <1>1, <1>2, RefundShare
<1>4. /\ S # {} /\ balance' = balance + SumFunctionOnSet(f, S)
      /\ orders' = [o \in Numbers |->
                     IF o \in S
                       THEN [orders[o] EXCEPT !.status = "refunded", !.credited = @ + RefundOf(o, cutoff),
                                              !.end = Later(cutoff, orders[o].start)]
                       ELSE orders[o]]
      /\ \/ InUse(i) /\ ins' = [ins EXCEPT ![i].status = "destroy_scheduled", ![i].reason = "refund",
                                         ![i].expires = cutoff]
         \/ ins[i].status = "destroyed" /\ UNCHANGED ins
  BY DEF refundOrder, cutoff, S
<1>5. SumFunctionOnSet(f, S) \in Nat
  BY <1>2, <1>3, SumNat
<1>6. balance' \in Nat
  <2> DEFINE total == SumFunctionOnSet(f, S)
  <2>1. balance' = balance + total
    BY <1>4
  <2>2. total \in Nat /\ balance \in Nat
    BY <1>1, <1>5
  <2> HIDE DEF total
  <2> QED BY <2>1, <2>2
<1>7. ASSUME NEW o \in S
      PROVE  /\ [orders[o] EXCEPT !.status = "refunded", !.credited = @ + RefundOf(o, cutoff),
                                  !.end = Later(cutoff, orders[o].start)] = row(o)
             /\ row(o) \in OrderRow
  <2>1. orders[o] \in OrderRow /\ orders[o].start \in Nat
    BY <1>2 DEF OrderRow
  <2>2. Later(cutoff, orders[o].start) \in Nat
    BY <1>1, <2>1, LaterNat
  <2>3. RefundOf(o, cutoff) \in Nat
    BY <1>3
  <2> QED BY <2>1, <2>2, <2>3, RefundedRow
<1> HIDE DEF row, f
<1>8. orders' = [o \in Numbers |-> IF o \in S THEN row(o) ELSE orders[o]]
  BY <1>4, <1>7
<1>9. orders' \in [Numbers -> OrderRow]
  BY <1>2, <1>7, <1>8
<1>10. orders' \in Seq(OrderRow) /\ Numbers' = Numbers
  BY <1>1, <1>9, MapOrders
<1>11. /\ \A o \in S : orders'[o] = row(o)
       /\ \A o \in Numbers : o \notin S => orders'[o] = orders[o]
  BY <1>2, <1>8
<1>12. \/ InUse(i) /\ InsTo(i, "destroy_scheduled", "refund", cutoff, ins[i].plan)
       \/ ins[i].status = "destroyed" /\ UNCHANGED ins
  BY <1>1, <1>4, InsTo4
<1> QED BY <1>1, <1>3, <1>4, <1>6, <1>10, <1>11, <1>12 DEF row, S, cutoff

\* What a quote says of order o.
ItemOf(o, x) ==
    /\ x \in Item
    /\ x.source = o /\ o \in Active(change'.instance) /\ orders[o].end > now
    /\ x.start = Later(now, orders[o].start) /\ x.end = orders[o].end
    /\ x.refund <= orders[o].amount

LEMMA MaxOfEnds ==
  ASSUME orders \in Seq(OrderRow), NEW S \in SUBSET Numbers
  PROVE  Max({orders[o].end : o \in S} \cup {0}) \in Nat
<1> DEFINE f == [o \in S |-> orders[o].end]
           T == {f[o] : o \in S}
<1>1. IsFiniteSet(S) /\ \A o \in S : orders[o].end \in Nat
  BY OrdersLen, FS_Subset DEF OrderRow
<1>2. IsFiniteSet(T)
  BY <1>1, FiniteImage
<1>3. T = {orders[o].end : o \in S}
  OBVIOUS
<1>4. T \subseteq Nat
  BY <1>1
<1> HIDE DEF T
<1>5. IsFiniteSet(T \cup {0}) /\ T \cup {0} # {} /\ T \cup {0} \subseteq Int
  BY <1>2, <1>4, FS_AddElement
<1>6. \E m \in T \cup {0} : \A x \in T \cup {0} : m >= x
  BY <1>5, FiniteMax
<1>7. Max(T \cup {0}) \in T \cup {0}
  BY <1>6 DEF Max
<1> QED BY <1>3, <1>4, <1>7

LEMMA ItemsQuoted ==
  ASSUME TypeInv, NEW i \in Instances, NEW target \in Plans, change'.instance = i
  PROVE  /\ IsFiniteSet(QuoteItems(i, target))
         /\ \A x \in QuoteItems(i, target) : ItemOf(x.source, x)
         /\ \A x, y \in QuoteItems(i, target) : x.source = y.source => x = y
<1> DEFINE S == {o \in Active(i) : orders[o].end > now}
           periodEnd == Later(now, Max({orders[o].end : o \in S} \cup {0}))
           tier == planChangeTierMonths(now, periodEnd)
           monthly == (Monthly[target] * TierBps[tier]) \div 10000
           item(o) == [source |-> o, paid |-> orders[o].amount,
                       refund |-> RefundOf(o, now), start |-> Later(now, orders[o].start), end |-> orders[o].end,
                       charge |-> prorateMonthlyFen(monthly, Later(now, orders[o].start), orders[o].end)]
           f == [o \in S |-> item(o)]
<1>1. orders \in Seq(OrderRow) /\ now \in Nat
  BY NowNat DEF TypeInv
<1>2. S \in SUBSET Numbers /\ \A o \in Numbers : orders[o] \in OrderRow
  BY <1>1, OrdersLen DEF Active, OrdersOf
<1>3. IsFiniteSet(S)
  BY <1>1, <1>2, OrdersLen, FS_Subset
<1>4. periodEnd \in Nat
  BY <1>1, <1>2, MaxOfEnds, LaterNat
<1> HIDE DEF periodEnd
<1>5. tier \in Months
  BY <1>1, <1>4, TierOnSale
<1> HIDE DEF tier
<1>6. monthly \in Nat
  <2>1. Monthly[target] \in Nat /\ TierBps[tier] \in Nat
    BY <1>5, BillingAssumption DEF BillingAssumption
  <2> QED BY <2>1, ProductNat, QuotientNat
<1>7. QuoteItems(i, target) = {item(o) : o \in S}
  BY DEF QuoteItems, periodEnd, tier
<1> HIDE DEF monthly
<1>8. ASSUME NEW o \in S PROVE ItemOf(o, item(o)) /\ item(o).source = o
  <2> DEFINE start == Later(now, orders[o].start)
             end == orders[o].end
  <2>1. /\ orders[o].amount \in Nat /\ orders[o].start \in Nat /\ end \in Nat
        /\ o \in Active(i) /\ end > now
    BY <1>2 DEF OrderRow
  <2>2. start \in Nat
    BY <1>1, <2>1, LaterNat
  <2>3. RefundOf(o, now) \in Nat /\ RefundOf(o, now) <= orders[o].amount
    BY <1>1, <1>2, RefundShare
  <2>4. prorateMonthlyFen(monthly, start, end) \in Nat
    <3> HIDE DEF start, end
    <3>1. CASE end <= start
      BY <3>1 DEF prorateMonthlyFen
    <3>2. CASE ~ (end <= start)
      <4>1. end - start \in Nat /\ Month \in Nat /\ Month # 0
        BY <2>1, <2>2, <3>2, BillingAssumption DEF BillingAssumption
      <4> HIDE DEF S
      <4>2. monthly * (end - start) \in Nat
        BY <1>6, <4>1, ProductNat
      <4>3. (monthly * (end - start)) \div Month \in Nat
        BY <4>1, <4>2, QuotientNat
      <4> QED BY <3>2, <4>3 DEF prorateMonthlyFen
    <3> QED BY <3>1, <3>2
  <2>5. o \in Nat
    BY <1>1, <1>2, OrdersLen
  <2> HIDE DEF start, end, S
  <2>6. item(o) = [source |-> o, paid |-> orders[o].amount, refund |-> RefundOf(o, now), start |-> start,
                   end |-> end, charge |-> prorateMonthlyFen(monthly, start, end)]
    BY DEF start, end
  <2> HIDE DEF item
  <2>7. item(o) \in Item
    BY <2>1, <2>2, <2>3, <2>4, <2>5, <2>6 DEF Item
  <2>8. item(o).source = o /\ item(o).start = start /\ item(o).end = end /\ item(o).refund = RefundOf(o, now)
    BY <2>6
  <2> QED BY <2>1, <2>3, <2>7, <2>8 DEF ItemOf, start, end
<1> HIDE DEF S, item
<1>9. IsFiniteSet({f[o] : o \in S})
  BY <1>3, FiniteImage
<1>10. {f[o] : o \in S} = {item(o) : o \in S}
  OBVIOUS
<1>11. IsFiniteSet(QuoteItems(i, target))
  BY <1>7, <1>9, <1>10
<1>12. ASSUME NEW x \in QuoteItems(i, target)
       PROVE  ItemOf(x.source, x) /\ x = item(x.source)
  <2>1. PICK o \in S : x = item(o)
    BY <1>7
  <2>2. ItemOf(o, item(o)) /\ item(o).source = o
    BY <1>8
  <2> QED BY <2>1, <2>2
<1> QED BY <1>11, <1>12

\* One change of plan: the hold.
LEMMA HoldNat == ASSUME TypeInv PROVE Hold \in Nat
<1> DEFINE f == [x \in change.items |-> x.charge]
<1>1. IsFiniteSet(change.items) /\ \A x \in change.items : x.charge \in Nat
  BY DEF TypeInv, ChangeInv, ChangeRow, Item
<1>2. \A x \in change.items : f[x] \in Nat
  BY <1>1
<1> QED BY <1>1, <1>2, SumNat DEF Hold

ExchangedRow(r, fen) ==
    [instance |-> r.instance, plan |-> r.plan, amount |-> r.amount, start |-> r.start, end |-> r.end,
     credited |-> r.credited + fen, benefit |-> r.benefit,
     status |-> IF r.status = "active" THEN "exchanged" ELSE r.status]

LEMMA ExchangedIs ==
  ASSUME NEW r \in OrderRow, NEW fen \in Nat
  PROVE  /\ Exchanged([r EXCEPT !.credited = r.credited + fen]) = ExchangedRow(r, fen)
         /\ ExchangedRow(r, fen) \in OrderRow
<1> DEFINE R == [instance |-> r.instance, plan |-> r.plan, amount |-> r.amount, start |-> r.start,
                 end |-> r.end, credited |-> r.credited, benefit |-> r.benefit, status |-> r.status]
           R1 == [instance |-> r.instance, plan |-> r.plan, amount |-> r.amount, start |-> r.start,
                  end |-> r.end, credited |-> r.credited + fen, benefit |-> r.benefit, status |-> r.status]
<1>1. r = R
  BY DEF OrderRow
<1>2. [R EXCEPT !.credited = r.credited + fen] = R1
  OBVIOUS
<1>3. Exchanged(R1) = ExchangedRow(r, fen)
  <2>1. CASE r.status = "active"
    <3>1. R1.status = "active"
      BY <2>1
    <3>2. [R1 EXCEPT !.status = "exchanged"] = ExchangedRow(r, fen)
      BY <2>1 DEF ExchangedRow
    <3> HIDE DEF R1
    <3> QED BY <3>1, <3>2 DEF Exchanged
  <2>2. CASE r.status # "active"
    BY <2>2 DEF Exchanged, ExchangedRow
  <2> QED BY <2>1, <2>2
<1>4. ExchangedRow(r, fen) \in OrderRow
  BY DEF ExchangedRow, OrderRow
<1> HIDE DEF R1
<1>5. [r EXCEPT !.credited = r.credited + fen] = R1
  BY <1>1, <1>2
<1> QED BY <1>3, <1>4, <1>5

\* What comes back for the sources.
Back(o) ==
    LET S == {x \in change.items : x.source = o} IN SumFunctionOnSet([x \in S |-> x.refund], S)

LEMMA BackNat ==
  ASSUME TypeInv
  PROVE  /\ SumFunctionOnSet([x \in change.items |-> x.refund], change.items) \in Nat
         /\ \A o : Back(o) \in Nat
<1>1. IsFiniteSet(change.items) /\ \A x \in change.items : x.refund \in Nat
  BY DEF TypeInv, ChangeInv, ChangeRow, Item
<1>2. ASSUME NEW S \in SUBSET change.items
      PROVE  SumFunctionOnSet([x \in S |-> x.refund], S) \in Nat
  <2> DEFINE f == [x \in S |-> x.refund]
  <2>1. IsFiniteSet(S)
    BY <1>1, FS_Subset
  <2>2. \A x \in S : f[x] \in Nat
    BY <1>1
  <2> QED BY <2>1, <2>2, SumNat
<1> QED BY <1>2 DEF Back

Copies(S) == {Replacement(x) : x \in S}

LEMMA ReplacementsChosen ==
  ASSUME NEW S, IsFiniteSet(S)
  PROVE  /\ Cardinality(S) \in Nat
         /\ ReplacementsOf(S) \in Surjection(1..Cardinality(S), Copies(S))
<1> DEFINE n == Cardinality(S)
<1>1. n \in Nat /\ ExistsBijection(1..n, S)
  BY FS_CardinalityType
<1>2. PICK h : h \in Bijection(1..n, S)
  BY <1>1 DEF ExistsBijection
<1>3. h \in [1..n -> S] /\ \A x \in S : \E k \in 1..n : h[k] = x
  BY <1>2 DEF Bijection, Surjection
<1> DEFINE g == [k \in 1..n |-> Replacement(h[k])]
           Good(s) == s \in [1..n -> Copies(S)] /\ \A x \in S : \E k \in DOMAIN s : s[k] = Replacement(x)
<1> HIDE DEF n
<1>4. g \in [1..n -> Copies(S)]
  BY <1>3 DEF Copies
<1>5. \A x \in S : \E k \in DOMAIN g : g[k] = Replacement(x)
  BY <1>3
<1>6. ReplacementsOf(S) = CHOOSE s \in [1..n -> Copies(S)] : \A x \in S : \E k \in DOMAIN s : s[k] = Replacement(x)
  BY DEF ReplacementsOf, Copies, n
<1>7. Good(ReplacementsOf(S))
  BY <1>4, <1>5, <1>6
<1>8. ReplacementsOf(S) \in Surjection(1..n, Copies(S))
  BY <1>7 DEF Surjection, Copies
<1> QED BY <1>1, <1>8 DEF n

LEMMA ReplacementRow ==
  ASSUME TypeInv, change.status # "none", NEW x \in change.items
  PROVE  Replacement(x) \in OrderRow
<1>1. /\ change.instance \in Instances /\ change.target \in Plans
      /\ x.charge \in Nat /\ x.start \in Nat /\ x.end \in Nat
  BY DEF TypeInv, ChangeInv, ChangeRow, Item
<1> QED BY <1>1, NewOrderRow DEF Replacement

Sources == {x.source : x \in change.items}

LEMMA CompleteStep ==
  ASSUME TypeInv, completePlanChange
  PROVE  LET i == change.instance
             n == Cardinality(change.items)
             g == ReplacementsOf(change.items) IN
         /\ change.status # "none" /\ i \in Instances /\ InUse(i) /\ balance' \in Nat
         /\ change' = NoChange
         /\ InsTo(i, ins[i].status, ins[i].reason, ins[i].expires, change.target)
         /\ orders' \in Seq(OrderRow) /\ n \in Nat
         /\ Numbers' = Numbers \cup {Len(orders) + k : k \in 1..n}
         /\ \A o \in Numbers :
              orders'[o] = IF o \in Sources THEN ExchangedRow(orders[o], Back(o)) ELSE orders[o]
         /\ g \in Surjection(1..n, Copies(change.items))
         /\ \A k \in 1..n : Len(orders) + k \notin Numbers /\ orders'[Len(orders) + k] = g[k]
<1> DEFINE i == change.instance
           n == Cardinality(change.items)
           g == ReplacementsOf(change.items)
           total == SumFunctionOnSet([x \in change.items |-> x.refund], change.items)
           f == [o \in Numbers |-> IF o \in Sources THEN Exchanged([orders[o] EXCEPT !.credited = @ + Back(o)])
                                                     ELSE orders[o]]
<1>1. /\ change.status # "none" /\ InUse(i) /\ change' = NoChange
      /\ balance' = balance + total
      /\ ins' = [ins EXCEPT ![i].plan = change.target]
  BY DEF completePlanChange, MayApply
<1>2. orders' = f \o g
  BY DEF completePlanChange, Sources, Back
<1>3. /\ orders \in Seq(OrderRow) /\ ins \in [Instances -> InstanceRow] /\ balance \in Nat
      /\ i \in Instances /\ IsFiniteSet(change.items)
  BY DEF TypeInv, ChangeInv, ChangeRow
<1>4. balance' \in Nat
  <2>1. total \in Nat
    BY BackNat
  <2> HIDE DEF total
  <2> QED BY <1>1, <1>3, <2>1
<1>5. InsTo(i, ins[i].status, ins[i].reason, ins[i].expires, change.target)
  BY <1>1, <1>3, InsTo5
<1>6. n \in Nat /\ g \in Surjection(1..n, Copies(change.items))
  BY <1>3, ReplacementsChosen
<1>7. g \in [1..n -> OrderRow]
  <2>1. Copies(change.items) \subseteq OrderRow
    BY <1>1, ReplacementRow DEF Copies
  <2> QED BY <1>6, <2>1 DEF Surjection
<1>8. ASSUME NEW o \in Numbers
      PROVE  /\ Exchanged([orders[o] EXCEPT !.credited = orders[o].credited + Back(o)]) = ExchangedRow(orders[o], Back(o))
             /\ ExchangedRow(orders[o], Back(o)) \in OrderRow /\ orders[o] \in OrderRow
  <2>1. orders[o] \in OrderRow /\ Back(o) \in Nat
    BY <1>3, OrdersLen, BackNat
  <2> QED BY <2>1, ExchangedIs
<1>9. f = [o \in Numbers |-> IF o \in Sources THEN ExchangedRow(orders[o], Back(o)) ELSE orders[o]]
  BY <1>8
<1>10. f \in [Numbers -> OrderRow]
  BY <1>8, <1>9
<1>11. \A o \in Numbers : f[o] = IF o \in Sources THEN ExchangedRow(orders[o], Back(o)) ELSE orders[o]
  BY <1>9
<1> HIDE DEF f, g, n, i
<1>12. /\ orders' \in Seq(OrderRow)
       /\ Numbers' = Numbers \cup {Len(orders) + k : k \in 1..n}
       /\ \A o \in Numbers : orders'[o] = f[o]
       /\ \A k \in 1..n : Len(orders) + k \notin Numbers /\ orders'[Len(orders) + k] = g[k]
  BY <1>2, <1>3, <1>6, <1>7, <1>10, ConcatOrders
<1> QED BY <1>1, <1>3, <1>4, <1>5, <1>6, <1>11, <1>12 DEF g, n, i

LEMMA ExtrasType == ASSUME TypeInv, Extra PROVE extras' \in 0..MaxExtras
  BY BillingAssumption DEF BillingAssumption, TypeInv, Extra

LEMMA InitType == Init => TypeInv
<1> SUFFICES ASSUME Init PROVE TypeInv
  OBVIOUS
<1>1. now \in 0..MaxNow /\ balance \in Nat /\ extras \in 0..MaxExtras
  BY BillingAssumption DEF Init, BillingAssumption
<1>2. orders \in Seq(OrderRow)
  BY EmptySeq DEF Init
<1>3. ins \in [Instances -> InstanceRow]
  BY DEF Init, InstanceRow
<1>4. ChangeInv
  BY NoChangeRow DEF Init, ChangeInv
<1>5. expiring \subseteq Listed /\ Cardinality(expiring) <= 1
  BY FS_EmptySet DEF Init
<1>6. program \in [Programs -> ProgramRow]
  BY LimitRows DEF Init, ProgramRow
<1> QED BY <1>1, <1>2, <1>3, <1>4, <1>5, <1>6 DEF TypeInv

LEMMA NoChangeType == ASSUME change' = NoChange PROVE ChangeInv'
  BY NoChangeRow DEF ChangeInv

LEMMA PurchaseType ==
  ASSUME TypeInv, NEW i \in Instances, NEW plan \in Plans, NEW months \in Months, NEW code \in Codes,
         purchaseWithWallet(i, plan, months, code)
  PROVE  TypeInv'
<1>1. PICK q \in quoteCommercialBenefit("purchase", i, plan, months, code), end \in Nat :
            /\ balance' \in Nat
            /\ InsTo(i, "deploying", ins[i].reason, end, ins[i].plan)
            /\ Added(Len(orders) + 1, NewOrder(i, plan, q.amount, now, end, "deploying", q.benefit))
            /\ consumeCommercialBenefit(q)
  BY PurchaseStep
<1>2. ins' \in [Instances -> InstanceRow]
  BY <1>1, InsRow, InsSet DEF TypeInv
<1>3. program' \in [Programs -> ProgramRow]
  BY <1>1, ConsumeType
<1>4. orders' \in Seq(OrderRow)
  BY <1>1 DEF Added
<1>5. ChangeInv'
  BY DEF TypeInv, purchaseWithWallet, ChangeInv
<1> QED BY <1>1, <1>2, <1>3, <1>4, <1>5 DEF TypeInv, purchaseWithWallet

LEMMA RenewType ==
  ASSUME TypeInv, NEW o \in Numbers, NEW months \in Months, NEW code \in Codes,
         renewWithWallet(o, months, code)
  PROVE  TypeInv'
<1> DEFINE i == orders[o].instance
           plan == IF ins[i].plan = NoPlan THEN orders[o].plan ELSE ins[i].plan
           base == RenewalBase(i)
<1>0. i \in Instances /\ plan \in Plans
  BY RenewStep
<1>1. PICK q \in quoteCommercialBenefit("renewal", i, plan, months, code), end \in Nat :
            /\ balance' \in Nat
            /\ InsTo(i, "running", "none", end, ins[i].plan)
            /\ Added(Len(orders) + 1, NewOrder(i, plan, q.amount, base, end, "active", q.benefit))
            /\ consumeCommercialBenefit(q)
  BY RenewStep
<1> HIDE DEF i, plan, base
<1>2. ins' \in [Instances -> InstanceRow]
  BY <1>0, <1>1, InsRow, InsSet DEF TypeInv
<1>3. program' \in [Programs -> ProgramRow]
  BY <1>0, <1>1, ConsumeType
<1>4. orders' \in Seq(OrderRow)
  BY <1>1 DEF Added
<1>5. ChangeInv'
  BY DEF TypeInv, renewWithWallet, ChangeInv
<1> QED BY <1>1, <1>2, <1>3, <1>4, <1>5 DEF TypeInv, renewWithWallet

LEMMA RefundType == ASSUME TypeInv, NEW i \in Instances, refundOrder(i) PROVE TypeInv'
<1>1. /\ orders' \in Seq(OrderRow) /\ balance' \in Nat /\ now + PrepaidDays \in Nat
      /\ \/ InsTo(i, "destroy_scheduled", "refund", now + PrepaidDays, ins[i].plan)
         \/ UNCHANGED ins
  BY RefundStep
<1>2. ins' \in [Instances -> InstanceRow]
  BY <1>1, InsRow, InsSet DEF TypeInv
<1>3. ChangeInv'
  BY DEF TypeInv, refundOrder, ChangeInv
<1> QED BY <1>1, <1>2, <1>3 DEF TypeInv, refundOrder

LEMMA QuoteType ==
  ASSUME TypeInv, NEW i \in Instances, NEW target \in Plans, buildPlanChangeQuote(i, target)
  PROVE  TypeInv'
<1>1. change' = [status |-> "quoted", instance |-> i, target |-> target, cutoff |-> now,
                 items |-> QuoteItems(i, target)]
  BY DEF buildPlanChangeQuote
<1>2. change'.instance = i
  BY <1>1
<1>3. IsFiniteSet(QuoteItems(i, target)) /\ QuoteItems(i, target) \subseteq Item
  BY <1>2, ItemsQuoted DEF ItemOf
<1>4. now \in Nat
  BY NowNat
<1>5. ChangeInv'
  BY <1>1, <1>3, <1>4 DEF ChangeInv, ChangeRow
<1> QED BY <1>5 DEF TypeInv, buildPlanChangeQuote

\* The change under way moves on or ends.
LEMMA StatusType ==
  ASSUME TypeInv, change.status # "none", NEW s \in {"processing", "blocked"},
         change' = [change EXCEPT !.status = s]
  PROVE  ChangeInv' /\ change'.items = change.items /\ change'.instance = change.instance
         /\ change'.target = change.target /\ change'.status = s
  BY DEF TypeInv, ChangeInv, ChangeRow

LEMMA SettleType ==
  ASSUME TypeInv, createPlanChange \/ markPlanChangeBlocked \/ failPlanChange PROVE TypeInv'
<1>1. balance' \in Nat
  <2>1. Hold \in Nat /\ balance \in Nat
    BY HoldNat DEF TypeInv
  <2>2. balance' = balance \/ balance' = balance + Hold \/ (balance >= Hold /\ balance' = balance - Hold)
    BY DEF createPlanChange, markPlanChangeBlocked, failPlanChange, Affordable
  <2> HIDE DEF Hold
  <2> QED BY <2>1, <2>2
<1>2. ChangeInv'
  BY StatusType, NoChangeType DEF createPlanChange, markPlanChangeBlocked, failPlanChange
<1> QED BY <1>1, <1>2 DEF TypeInv, createPlanChange, markPlanChangeBlocked, failPlanChange

LEMMA CompleteType == ASSUME TypeInv, completePlanChange PROVE TypeInv'
<1>1. /\ change.status # "none" /\ change.instance \in Instances /\ balance' \in Nat
      /\ change' = NoChange /\ orders' \in Seq(OrderRow)
      /\ InsTo(change.instance, ins[change.instance].status, ins[change.instance].reason,
               ins[change.instance].expires, change.target)
  BY CompleteStep
<1>2. change.target \in Plans
  BY <1>1 DEF TypeInv, ChangeInv
<1>3. ins' \in [Instances -> InstanceRow]
  BY <1>1, <1>2, InsRow, InsSet DEF TypeInv
<1>4. ChangeInv'
  BY <1>1, NoChangeType
<1> QED BY <1>1, <1>3, <1>4 DEF TypeInv, completePlanChange

\* An instance has another status, and its days stay.
Becomes(i, s, r) ==
    /\ ins' \in [Instances -> InstanceRow]
    /\ ins'[i].status = s /\ ins'[i].reason = r
    /\ ins'[i].expires = ins[i].expires /\ ins'[i].plan = ins[i].plan
    /\ \A j \in Instances : j # i => ins'[j] = ins[j]

LEMMA BecomesIs ==
  ASSUME TypeInv, NEW i \in Instances, NEW s, NEW r, InsTo(i, s, r, ins[i].expires, ins[i].plan),
         s \in {"none", "deploying", "running", "deployment_failed", "destroy_scheduled", "destroyed"},
         r \in {ins[i].reason, "expired", "manual", "user_no_refund"}
  PROVE  Becomes(i, s, r)
<1>1. ins \in [Instances -> InstanceRow]
  BY DEF TypeInv
<1>2. /\ r \in {"none", "expired", "refund", "manual", "user_no_refund"}
      /\ ins[i].expires \in Nat /\ ins[i].plan \in Plans \cup {NoPlan}
  BY <1>1, InsRow
<1> QED BY <1>1, <1>2, InsSet DEF Becomes

LEMMA StatusStep ==
  ASSUME TypeInv, NEW i \in Instances, NEW s, ins' = [ins EXCEPT ![i].status = s],
         s \in {"deploying", "running", "deployment_failed", "destroyed"}
  PROVE  Becomes(i, s, ins[i].reason)
<1>1. InsTo(i, s, ins[i].reason, ins[i].expires, ins[i].plan)
  BY InsTo1 DEF TypeInv
<1> QED BY <1>1, BecomesIs

LEMMA ReasonStep ==
  ASSUME TypeInv, NEW i \in Instances, NEW s, NEW r, ins' = [ins EXCEPT ![i].status = s, ![i].reason = r],
         s \in {"destroy_scheduled", "destroyed"}, r \in {"expired", "manual", "user_no_refund"}
  PROVE  Becomes(i, s, r)
<1>1. InsTo(i, s, r, ins[i].expires, ins[i].plan)
  BY InsTo3 DEF TypeInv
<1> QED BY <1>1, BecomesIs

\* The orders of an instance in some statuses have another one.
Becoming(i, from, to) ==
    /\ orders' \in Seq(OrderRow) /\ Numbers' = Numbers
    /\ \A o \in Numbers : orders'[o] = IF o \in OrdersOf(i) /\ orders[o].status \in from
                                         THEN [orders[o] EXCEPT !.status = to] ELSE orders[o]

LEMMA DoneStep ==
  ASSUME TypeInv, NEW i \in Instances, DeploymentDone(i)
  PROVE  /\ Becomes(i, "running", ins[i].reason) /\ ins[i].status = "deploying"
         /\ Becoming(i, {"deploying"}, "active")
<1>1. /\ ins' = [ins EXCEPT ![i].status = "running"] /\ ins[i].status = "deploying"
      /\ orders' = SetStatus(OrdersOf(i), {"deploying"}, "active")
  BY DEF DeploymentDone
<1>2. Becoming(i, {"deploying"}, "active")
  BY <1>1, SetStatusRows DEF TypeInv, Becoming
<1> QED BY <1>1, <1>2, StatusStep

LEMMA FailStep ==
  ASSUME TypeInv, NEW i \in Instances, failDeployment(i)
  PROVE  /\ Becomes(i, "deployment_failed", ins[i].reason) /\ ins[i].status = "deploying"
         /\ Becoming(i, {"deploying"}, "deployment_failed")
<1>1. /\ ins' = [ins EXCEPT ![i].status = "deployment_failed"] /\ ins[i].status = "deploying"
      /\ orders' = SetStatus(OrdersOf(i), {"deploying"}, "deployment_failed")
  BY DEF failDeployment
<1>2. Becoming(i, {"deploying"}, "deployment_failed")
  BY <1>1, SetStatusRows DEF TypeInv, Becoming
<1> QED BY <1>1, <1>2, StatusStep

LEMMA RetryStep ==
  ASSUME TypeInv, NEW i \in Instances, queueDeploymentRetry(i)
  PROVE  Becomes(i, "deploying", ins[i].reason) /\ ins[i].status = "deployment_failed"
<1>1. ins' = [ins EXCEPT ![i].status = "deploying"] /\ ins[i].status = "deployment_failed"
  BY DEF queueDeploymentRetry
<1> QED BY <1>1, StatusStep

LEMMA ExpireStep ==
  ASSUME TypeInv, NEW i \in Instances, ExpireInstance(i)
  PROVE  (Becomes(i, "destroy_scheduled", "expired") /\ InUse(i)) \/ ins' = ins
<1>1. \/ /\ ins' = [ins EXCEPT ![i].status = "destroy_scheduled", ![i].reason = "expired"]
         /\ InUse(i)
      \/ ins' = ins
  BY DEF ExpireInstance
<1> QED BY <1>1, ReasonStep

\* At most one row of the loop's list is worked on.
LEMMA ListedStep ==
  ASSUME NEW i \in Instances, NEW s \in {"listed", "expired"},
         expiring' = {<<i, s>>} \/ expiring' = {}
  PROVE  expiring' \subseteq Listed /\ Cardinality(expiring') <= 1
<1>1. Cardinality({<<i, s>>}) = 1 /\ Cardinality({}) = 0
  BY FS_Singleton, FS_EmptySet
<1> QED BY <1>1 DEF Listed

LEMMA DestroyedStep ==
  ASSUME TypeInv, NEW i \in Instances, Destroyed(i)
  PROVE  /\ \E r : Becomes(i, "destroyed", r)
         /\ InUse(i) \/ ins[i].status = "destroy_scheduled"
<1>1. CASE ins[i].status = "destroy_scheduled" /\ ins' = [ins EXCEPT ![i].status = "destroyed"]
  BY <1>1, StatusStep
<1>2. CASE InUse(i) /\ \E r \in {"manual", "user_no_refund"} :
                ins' = [ins EXCEPT ![i].status = "destroyed", ![i].reason = r]
  <2>1. PICK r \in {"manual", "user_no_refund"} : ins' = [ins EXCEPT ![i].status = "destroyed", ![i].reason = r]
    BY <1>2
  <2>2. Becomes(i, "destroyed", r)
    BY <2>1, ReasonStep
  <2> QED BY <1>2, <2>2
<1> QED BY <1>1, <1>2 DEF Destroyed

LEMMA ExpireOrdersStep ==
  ASSUME TypeInv, NEW i \in Instances, ExpireOrders(i)
  PROVE  Becoming(i, {"active", "deploying"}, "expired")
<1>1. orders' = SetStatus(OrdersOf(i), {"active", "deploying"}, "expired")
  BY DEF ExpireOrders
<1> QED BY <1>1, SetStatusRows DEF TypeInv, Becoming

LEMMA OrderOrInstanceType ==
  ASSUME TypeInv, NEW i \in Instances,
         \/ DeploymentDone(i) \/ failDeployment(i) \/ queueDeploymentRetry(i)
         \/ ExpiredSeen(i) \/ ExpireInstance(i) \/ ExpireOrders(i) \/ Destroyed(i)
  PROVE  TypeInv'
<1>1. CASE DeploymentDone(i)
  BY <1>1, DoneStep DEF DeploymentDone, TypeInv, ChangeInv, Becomes, Becoming
<1>2. CASE failDeployment(i)
  BY <1>2, FailStep, ExtrasType DEF failDeployment, TypeInv, ChangeInv, Becomes, Becoming
<1>3. CASE queueDeploymentRetry(i)
  BY <1>3, RetryStep DEF queueDeploymentRetry, TypeInv, ChangeInv, Becomes
<1>4. CASE ExpireInstance(i)
  <2>1. expiring' = {<<i, "expired">>} \/ expiring' = {}
    BY <1>4 DEF ExpireInstance
  <2>2. ins' \in [Instances -> InstanceRow]
    BY <1>4, ExpireStep DEF Becomes, TypeInv
  <2> QED BY <1>4, <2>1, <2>2, ListedStep DEF ExpireInstance, TypeInv, ChangeInv
<1>5. CASE ExpireOrders(i)
  <2>1. expiring' \subseteq Listed /\ Cardinality(expiring') <= 1
    BY <1>5, ListedStep DEF ExpireOrders
  <2> QED BY <1>5, <2>1, ExpireOrdersStep DEF ExpireOrders, TypeInv, ChangeInv, Becoming
<1>7. CASE ExpiredSeen(i)
  <2>1. expiring' \subseteq Listed /\ Cardinality(expiring') <= 1
    BY <1>7, ListedStep DEF ExpiredSeen
  <2> QED BY <1>7, <2>1 DEF ExpiredSeen, TypeInv, ChangeInv
<1>6. CASE Destroyed(i)
  BY <1>6, DestroyedStep DEF Destroyed, TypeInv, ChangeInv, Becomes
<1> QED BY <1>1, <1>2, <1>3, <1>4, <1>5, <1>6, <1>7

RedeemedBy(b) == {o \in Numbers : orders[o].benefit = b}

LEMMA RedeemedNat ==
  ASSUME TypeInv, NEW b
  PROVE  Redeemed(b) = Cardinality(RedeemedBy(b)) /\ IsFiniteSet(RedeemedBy(b)) /\ Redeemed(b) \in Nat
<1>1. IsFiniteSet(Numbers) /\ RedeemedBy(b) \in SUBSET Numbers
  BY OrdersLen DEF TypeInv, RedeemedBy
<1>2. IsFiniteSet(RedeemedBy(b))
  BY <1>1, FS_Subset
<1> QED BY <1>2, FS_CardinalityType DEF Redeemed, RedeemedBy

LEMMA ProgramType ==
  ASSUME TypeInv, NEW b \in Programs,
         \/ OtherRedeems(b) \/ adminSaveBenefitProgram(b) \/ syncBenefitProgramStates(b)
         \/ adminGrantBenefit(b) \/ adminVoidBenefitGrant(b)
  PROVE  program' \in [Programs -> ProgramRow] /\ extras' \in 0..MaxExtras
<1>0. program \in [Programs -> ProgramRow] /\ program[b] \in ProgramRow
  BY DEF TypeInv
<1>1. extras' \in 0..MaxExtras
  BY ExtrasType DEF TypeInv, OtherRedeems, adminSaveBenefitProgram, syncBenefitProgramStates,
     adminGrantBenefit, adminVoidBenefitGrant
<1>2. \E r \in ProgramRow : program' = [program EXCEPT ![b] = r]
  <2>1. CASE OtherRedeems(b)
    <3>1. PICK plan \in Plans, months \in Months :
            program' = [program EXCEPT ![b] = Counted(program[b], benefitDiscount(b, tierPrice(plan, months)),
                                                      bonusDays(b))]
      BY <2>1 DEF OtherRedeems
    <3>2. benefitDiscount(b, tierPrice(plan, months)) \in Nat /\ bonusDays(b) \in Nat
      BY tierPriceNat, DiscountShare, bonusDaysNat
    <3> QED BY <1>0, <3>1, <3>2, CountedRow
  <2>2. CASE adminSaveBenefitProgram(b)
    <3>1. PICK s \in {"active", "paused"}, l \in Limits[b] \cup {program[b].limits} :
            \E c \in {program[b].code, Offer[b].trigger = "promo_code" /\ s = "active"} :
              program' = [program EXCEPT ![b] = SavedRow(b, s, c, l)]
      BY <2>2 DEF adminSaveBenefitProgram
    <3>0. PICK c \in {program[b].code, Offer[b].trigger = "promo_code" /\ s = "active"} :
            program' = [program EXCEPT ![b] = SavedRow(b, s, c, l)]
      BY <3>1
    <3>2. l \in LimitRow /\ c \in BOOLEAN
      BY <1>0, LimitRows DEF ProgramRow
    <3>3. SavedRow(b, s, c, l) \in ProgramRow
      BY <1>0, <3>2, RedeemedNat DEF SavedRow, ProgramRow
    <3> QED BY <3>0, <3>3
  <2>3. CASE syncBenefitProgramStates(b)
    <3>1. program' = [program EXCEPT ![b] = [program[b] EXCEPT !.code = FALSE]]
      BY <2>3 DEF syncBenefitProgramStates
    <3>2. [program[b] EXCEPT !.code = FALSE] \in ProgramRow
      BY <1>0 DEF ProgramRow
    <3> QED BY <3>1, <3>2
  <2>4. CASE adminGrantBenefit(b) \/ adminVoidBenefitGrant(b)
    <3>1. PICK g \in {"available", "voided"} : program' = [program EXCEPT ![b] = [program[b] EXCEPT !.grant = g]]
      BY <2>4 DEF adminGrantBenefit, adminVoidBenefitGrant
    <3>2. [program[b] EXCEPT !.grant = g] \in ProgramRow
      BY <1>0 DEF ProgramRow
    <3> QED BY <3>1, <3>2
  <2> QED BY <2>1, <2>2, <2>3, <2>4
<1> QED BY <1>0, <1>1, <1>2, ProgramSet

LEMMA NextType == TypeInv /\ [Next]_vars => TypeInv'
<1> SUFFICES ASSUME TypeInv, [Next]_vars PROVE TypeInv'
  OBVIOUS
<1>1. CASE UNCHANGED vars
  BY <1>1 DEF vars, TypeInv, ChangeInv
<1>2. CASE Customer
  BY <1>2, PurchaseType, RenewType, RefundType, QuoteType, SettleType, OrderOrInstanceType DEF Customer
<1>3. CASE Platform
  <2>1. ASSUME NEW b \in Programs, syncBenefitProgramStates(b) PROVE TypeInv'
    BY <2>1, ProgramType DEF syncBenefitProgramStates, TypeInv, ChangeInv
  <2> QED BY <1>3, <2>1, OrderOrInstanceType, SettleType, CompleteType DEF Platform
<1>4. CASE Others
  <2>1. ASSUME NEW amount \in {-1, 1}, adjustWallet(amount) PROVE TypeInv'
    <3>1. balance' \in Nat
      BY <2>1 DEF adjustWallet, TypeInv
    <3> QED BY <2>1, <3>1, ExtrasType DEF adjustWallet, TypeInv, ChangeInv
  <2>2. ASSUME NEW b \in Programs,
               \/ OtherRedeems(b) \/ adminSaveBenefitProgram(b)
               \/ adminGrantBenefit(b) \/ adminVoidBenefitGrant(b)
        PROVE  TypeInv'
    BY <2>2, ProgramType DEF OtherRedeems, adminSaveBenefitProgram, adminGrantBenefit,
       adminVoidBenefitGrant, TypeInv, ChangeInv
  <2> QED BY <1>4, <2>1, <2>2 DEF Others
<1>5. CASE Tick
  BY <1>5, NowNat, BillingAssumption DEF Tick, TypeInv, ChangeInv, BillingAssumption
<1> QED BY <1>1, <1>2, <1>3, <1>4, <1>5 DEF Next

\* Whatever is bought, renewed, changed, refunded or adjusted, in any order: the
\* wallet is never overdrawn, no price, share or hold is negative.
THEOREM TypeCorrect == Spec => []TypeOK
<1> QED BY InitType, NextType, TypesHold, PTL DEF Spec

-----------------------------------------------------------------------------
(* A refund is final.                                                       *)

\* An order that was refunded is of an instance that has no order in force and
\* is destroyed, or will be because of the refund.
Out(r) == r.status = "destroyed" \/ (r.status = "destroy_scheduled" /\ r.reason = "refund")

RefundedOut ==
    \A o \in Numbers : orders[o].status = "refunded" =>
        /\ Out(ins[orders[o].instance])
        /\ \A p \in Numbers : orders[p].instance = orders[o].instance => orders[p].status # "active"

\* An order that goes from one status to another keeps the rest.
Moved(o, s) ==
    /\ orders'[o].instance = orders[o].instance /\ orders'[o].plan = orders[o].plan
    /\ orders'[o].amount = orders[o].amount /\ orders'[o].start = orders[o].start
    /\ orders'[o].end = orders[o].end /\ orders'[o].credited = orders[o].credited
    /\ orders'[o].benefit = orders[o].benefit /\ orders'[o].status = s

LEMMA BecomingFields ==
  ASSUME TypeInv, NEW i \in Instances, NEW from, NEW to \in {"active", "expired", "deployment_failed"},
         Becoming(i, from, to)
  PROVE  \A o \in Numbers :
            Moved(o, IF orders[o].instance = i /\ orders[o].status \in from THEN to ELSE orders[o].status)
<1> SUFFICES ASSUME NEW o \in Numbers
             PROVE  Moved(o, IF orders[o].instance = i /\ orders[o].status \in from THEN to ELSE orders[o].status)
  OBVIOUS
<1>1. orders[o] \in OrderRow
  BY OrdersLen DEF TypeInv
<1>2. orders'[o] = IF orders[o].instance = i /\ orders[o].status \in from
                     THEN [orders[o] EXCEPT !.status = to] ELSE orders[o]
  BY DEF Becoming, OrdersOf
<1>3. CASE orders[o].instance = i /\ orders[o].status \in from
  BY <1>1, <1>2, <1>3 DEF OrderRow, Moved
<1>4. CASE ~ (orders[o].instance = i /\ orders[o].status \in from)
  BY <1>2, <1>4 DEF Moved
<1> QED BY <1>3, <1>4

LEMMA RefundedFields ==
  ASSUME NEW r, NEW fen, NEW end
  PROVE  LET s == Refunded(r, fen, end) IN
         /\ s.instance = r.instance /\ s.plan = r.plan /\ s.amount = r.amount /\ s.start = r.start
         /\ s.end = end /\ s.credited = r.credited + fen /\ s.benefit = r.benefit /\ s.status = "refunded"
  BY DEF Refunded

LEMMA ExchangedFields ==
  ASSUME NEW r, NEW fen
  PROVE  LET s == ExchangedRow(r, fen) IN
         /\ s.instance = r.instance /\ s.plan = r.plan /\ s.amount = r.amount /\ s.start = r.start
         /\ s.end = r.end /\ s.credited = r.credited + fen /\ s.benefit = r.benefit
         /\ s.status = IF r.status = "active" THEN "exchanged" ELSE r.status
  BY DEF ExchangedRow

LEMMA NewFields ==
  ASSUME NEW i, NEW plan, NEW amount, NEW start, NEW end, NEW status, NEW benefit
  PROVE  LET s == NewOrder(i, plan, amount, start, end, status, benefit) IN
         /\ s.instance = i /\ s.plan = plan /\ s.amount = amount /\ s.start = start /\ s.end = end
         /\ s.credited = 0 /\ s.benefit = benefit /\ s.status = status
  BY DEF NewOrder

\* No step but a purchase and a renewal adds an order that was paid with a
\* benefit, and only the settlement of a change adds several.
LEMMA CompleteFields ==
  ASSUME TypeInv, completePlanChange
  PROVE  /\ Numbers \subseteq Numbers'
         /\ \A o \in Numbers : o \in Sources =>
              /\ orders'[o] = ExchangedRow(orders[o], Back(o))
              /\ orders'[o].instance = orders[o].instance
              /\ orders'[o].status = IF orders[o].status = "active" THEN "exchanged" ELSE orders[o].status
         /\ \A o \in Numbers : o \notin Sources => orders'[o] = orders[o]
         /\ \A o \in Numbers' \ Numbers : \E x \in change.items :
              orders'[o] = Replacement(x) /\ orders'[o].instance = change.instance
<1> DEFINE n == Cardinality(change.items)
           g == ReplacementsOf(change.items)
<1>1. /\ Numbers' = Numbers \cup {Len(orders) + k : k \in 1..n}
      /\ \A o \in Numbers :
              orders'[o] = IF o \in Sources THEN ExchangedRow(orders[o], Back(o)) ELSE orders[o]
      /\ g \in Surjection(1..n, Copies(change.items))
      /\ \A k \in 1..n : Len(orders) + k \notin Numbers /\ orders'[Len(orders) + k] = g[k]
  BY CompleteStep
<1> HIDE DEF n, g
<1>2. \A k \in 1..n : g[k] \in Copies(change.items)
  BY <1>1 DEF Surjection
<1>3. \A o \in Numbers' \ Numbers : orders'[o] \in Copies(change.items)
  BY <1>1, <1>2
<1>4. ASSUME NEW x \in change.items PROVE Replacement(x).instance = change.instance
  BY NewFields DEF Replacement
<1>5. \A o \in Numbers' \ Numbers : \E x \in change.items :
              orders'[o] = Replacement(x) /\ orders'[o].instance = change.instance
  BY <1>3, <1>4 DEF Copies
<1>6. \A o \in Numbers : o \in Sources =>
              /\ orders'[o] = ExchangedRow(orders[o], Back(o))
              /\ orders'[o].instance = orders[o].instance
              /\ orders'[o].status = IF orders[o].status = "active" THEN "exchanged" ELSE orders[o].status
  BY <1>1, ExchangedFields
<1> QED BY <1>1, <1>5, <1>6

LEMMA InitOut == Init => RefundedOut
  BY DEF Init, RefundedOut, Numbers

\* An order is added, and its instance is not out.
LEMMA AddedOut ==
  ASSUME TypeInv, RefundedOut, NEW i \in Instances, NEW n, NEW r, Added(n, r), r.instance = i,
         r.status # "refunded", ~ Out(ins[i]), \A j \in Instances : j # i => ins'[j] = ins[j]
  PROVE  RefundedOut'
<1>1. \A o \in Numbers : orders[o].instance \in Instances
  BY OrdersLen DEF TypeInv, OrderRow
<1>2. \A o \in Numbers : orders[o].instance = i => orders[o].status # "refunded"
  BY DEF RefundedOut
<1> SUFFICES ASSUME NEW o \in Numbers', orders'[o].status = "refunded"
             PROVE  /\ Out(ins'[orders'[o].instance])
                    /\ \A p \in Numbers' : orders'[p].instance = orders'[o].instance => orders'[p].status # "active"
  BY DEF RefundedOut
<1>4. o \in Numbers /\ orders'[o] = orders[o]
  BY DEF Added
<1>5. orders[o].instance # i /\ orders[o].instance \in Instances
  BY <1>1, <1>2, <1>4
<1>6. /\ Out(ins[orders[o].instance])
      /\ \A p \in Numbers : orders[p].instance = orders[o].instance => orders[p].status # "active"
  BY <1>4 DEF RefundedOut
<1>7. ins'[orders[o].instance] = ins[orders[o].instance]
  BY <1>5
<1> QED BY <1>4, <1>5, <1>6, <1>7 DEF Added

\* No order of the instance was refunded, and none is now.
LEMMA MovedOut ==
  ASSUME TypeInv, RefundedOut, NEW i \in Instances, Numbers' = Numbers,
         \A o \in Numbers :
            /\ orders'[o].instance = orders[o].instance
            /\ orders[o].instance # i => orders'[o].status = orders[o].status
            /\ orders[o].instance = i => (orders'[o].status = "refunded" => orders[o].status = "refunded"),
         Out(ins[i]) => Out(ins'[i]) /\ \A o \in Numbers : orders'[o].status = "active" => orders[o].status = "active",
         \A j \in Instances : j # i => ins'[j] = ins[j]
  PROVE  RefundedOut'
<1>1. \A o \in Numbers : orders[o].instance \in Instances
  BY OrdersLen DEF TypeInv, OrderRow
<1> SUFFICES ASSUME NEW o \in Numbers, orders'[o].status = "refunded"
             PROVE  /\ Out(ins'[orders'[o].instance])
                    /\ \A p \in Numbers : orders'[p].instance = orders'[o].instance => orders'[p].status # "active"
  BY DEF RefundedOut
<1>2. orders[o].status = "refunded" /\ orders'[o].instance = orders[o].instance
  OBVIOUS
<1>3. /\ Out(ins[orders[o].instance])
      /\ \A p \in Numbers : orders[p].instance = orders[o].instance => orders[p].status # "active"
  BY <1>2 DEF RefundedOut
<1>4. CASE orders[o].instance = i
  BY <1>2, <1>3, <1>4
<1>5. CASE orders[o].instance # i
  <2>1. ins'[orders[o].instance] = ins[orders[o].instance]
    BY <1>1, <1>5
  <2> QED BY <1>2, <1>3, <1>5, <2>1
<1> QED BY <1>4, <1>5

\* The steps, by what they write.
LEMMA Kinds ==
  ASSUME [Next]_vars
  PROVE  \/ \E i \in Instances, p \in Plans, m \in Months, c \in Codes : purchaseWithWallet(i, p, m, c)
         \/ \E o \in Numbers, m \in Months, c \in Codes : renewWithWallet(o, m, c)
         \/ \E i \in Instances :
              \/ refundOrder(i) \/ DeploymentDone(i) \/ failDeployment(i) \/ queueDeploymentRetry(i)
              \/ ExpireInstance(i) \/ ExpireOrders(i) \/ Destroyed(i)
         \/ completePlanChange
         \/ \E i \in Instances, p \in Plans : buildPlanChangeQuote(i, p)
         \/ createPlanChange \/ markPlanChangeBlocked \/ failPlanChange
         \/ UNCHANGED <<orders, ins, change>>
  BY DEF Next, Customer, Platform, Others, vars, syncBenefitProgramStates, adjustWallet, OtherRedeems,
     adminSaveBenefitProgram, adminGrantBenefit, adminVoidBenefitGrant, ExpiredSeen, Tick

LEMMA PurchaseOut ==
  ASSUME TypeInv, RefundedOut, NEW i \in Instances, NEW plan \in Plans, NEW months \in Months, NEW code \in Codes,
         purchaseWithWallet(i, plan, months, code)
  PROVE  RefundedOut'
<1>1. PICK q \in quoteCommercialBenefit("purchase", i, plan, months, code), end \in Nat :
            /\ ins[i].status = "none"
            /\ InsTo(i, "deploying", ins[i].reason, end, ins[i].plan)
            /\ Added(Len(orders) + 1, NewOrder(i, plan, q.amount, now, end, "deploying", q.benefit))
  BY PurchaseStep
<1> DEFINE r == NewOrder(i, plan, q.amount, now, end, "deploying", q.benefit)
<1>2. r.instance = i /\ r.status = "deploying"
  BY NewFields
<1>3. \A j \in Instances : j # i => ins'[j] = ins[j]
  BY <1>1, InsRow, InsSet DEF TypeInv
<1>4. ~ Out(ins[i])
  BY <1>1 DEF Out
<1> HIDE DEF r
<1>5. Added(Len(orders) + 1, r)
  BY <1>1 DEF r
<1> QED BY <1>2, <1>3, <1>4, <1>5, AddedOut

LEMMA RenewOut ==
  ASSUME TypeInv, RefundedOut, NEW o \in Numbers, NEW months \in Months, NEW code \in Codes,
         renewWithWallet(o, months, code)
  PROVE  RefundedOut'
<1> DEFINE i == orders[o].instance
           plan == IF ins[i].plan = NoPlan THEN orders[o].plan ELSE ins[i].plan
           base == RenewalBase(i)
<1>0. i \in Instances /\ Renewable(i)
  BY RenewStep
<1>1. PICK q \in quoteCommercialBenefit("renewal", i, plan, months, code), end \in Nat :
            /\ InsTo(i, "running", "none", end, ins[i].plan)
            /\ Added(Len(orders) + 1, NewOrder(i, plan, q.amount, base, end, "active", q.benefit))
  BY RenewStep
<1> HIDE DEF i, plan, base
<1> DEFINE r == NewOrder(i, plan, q.amount, base, end, "active", q.benefit)
<1>2. r.instance = i /\ r.status = "active"
  BY NewFields
<1>3. \A j \in Instances : j # i => ins'[j] = ins[j]
  BY <1>0, <1>1, InsRow, InsSet DEF TypeInv
<1>4. ~ Out(ins[i])
  BY <1>0 DEF Renewable, InUse, Out
<1> HIDE DEF r
<1>5. Added(Len(orders) + 1, r)
  BY <1>1 DEF r
<1> QED BY <1>0, <1>2, <1>3, <1>4, <1>5, AddedOut

LEMMA RefundOut == ASSUME TypeInv, RefundedOut, NEW i \in Instances, refundOrder(i) PROVE RefundedOut'
<1> DEFINE cutoff == now + PrepaidDays
<1>1. /\ Numbers' = Numbers /\ cutoff \in Nat
      /\ \A o \in Active(i) : orders'[o] = Refunded(orders[o], RefundOf(o, cutoff), Later(cutoff, orders[o].start))
      /\ \A o \in Numbers : o \notin Active(i) => orders'[o] = orders[o]
      /\ \/ InUse(i) /\ InsTo(i, "destroy_scheduled", "refund", cutoff, ins[i].plan)
         \/ ins[i].status = "destroyed" /\ UNCHANGED ins
  BY RefundStep
<1> HIDE DEF cutoff
<1>2. \A o \in Numbers : orders[o].instance \in Instances
  BY OrdersLen DEF TypeInv, OrderRow
<1>3. \A o \in Numbers :
         /\ o \in Active(i) <=> orders[o].instance = i /\ orders[o].status = "active"
         /\ orders'[o].instance = orders[o].instance
         /\ orders'[o].status = IF o \in Active(i) THEN "refunded" ELSE orders[o].status
  BY <1>1, RefundedFields DEF Active, OrdersOf
<1>4. Out(ins'[i]) /\ \A j \in Instances : j # i => ins'[j] = ins[j]
  BY <1>1, InsRow, InsSet DEF TypeInv, Out
<1> SUFFICES ASSUME NEW o \in Numbers, orders'[o].status = "refunded"
             PROVE  /\ Out(ins'[orders'[o].instance])
                    /\ \A p \in Numbers : orders'[p].instance = orders'[o].instance => orders'[p].status # "active"
  BY <1>1 DEF RefundedOut
<1>5. CASE orders[o].instance = i
  BY <1>3, <1>4, <1>5
<1>6. CASE orders[o].instance # i
  BY <1>2, <1>3, <1>4, <1>6 DEF RefundedOut
<1> QED BY <1>5, <1>6

LEMMA CompleteOut == ASSUME TypeInv, RefundedOut, completePlanChange PROVE RefundedOut'
<1> DEFINE i == change.instance
<1>1. /\ i \in Instances /\ InUse(i) /\ change.status # "none"
      /\ InsTo(i, ins[i].status, ins[i].reason, ins[i].expires, change.target)
  BY CompleteStep
<1> HIDE DEF i
<1>2. \A o \in Numbers : orders[o].instance \in Instances
  BY OrdersLen DEF TypeInv, OrderRow
<1>3. change.target \in Plans
  BY <1>1 DEF TypeInv, ChangeInv
<1>4. \A j \in Instances : j # i => ins'[j] = ins[j]
  BY <1>1, <1>3, InsRow, InsSet DEF TypeInv
<1>5. /\ Numbers \subseteq Numbers'
      /\ \A o \in Numbers :
            /\ orders'[o].instance = orders[o].instance
            /\ orders'[o].status \in {"exchanged", orders[o].status}
      /\ \A o \in Numbers' \ Numbers : orders'[o].instance = i /\ orders'[o].status = "active"
  <2>1. \A x : Replacement(x).status = "active"
    BY NewFields DEF Replacement
  <2> QED BY <2>1, CompleteFields DEF i
<1>6. \A o \in Numbers : orders[o].instance = i => orders[o].status # "refunded"
  BY <1>1 DEF RefundedOut, Out, InUse
<1> SUFFICES ASSUME NEW o \in Numbers', orders'[o].status = "refunded"
             PROVE  /\ Out(ins'[orders'[o].instance])
                    /\ \A p \in Numbers' : orders'[p].instance = orders'[o].instance => orders'[p].status # "active"
  BY DEF RefundedOut
<1>7. o \in Numbers /\ orders[o].status = "refunded" /\ orders[o].instance # i /\ orders'[o].instance = orders[o].instance
  BY <1>5, <1>6
<1>8. /\ Out(ins[orders[o].instance])
      /\ \A p \in Numbers : orders[p].instance = orders[o].instance => orders[p].status # "active"
  BY <1>7 DEF RefundedOut
<1> QED BY <1>2, <1>4, <1>5, <1>7, <1>8

LEMMA BecomingOut ==
  ASSUME TypeInv, RefundedOut, NEW i \in Instances, NEW from, NEW to \in {"active", "expired", "deployment_failed"},
         Becoming(i, from, to), Out(ins[i]) => Out(ins'[i]) /\ to # "active",
         \A j \in Instances : j # i => ins'[j] = ins[j]
  PROVE  RefundedOut'
<1>1. ASSUME NEW o \in Numbers
      PROVE  /\ orders'[o].instance = orders[o].instance
             /\ orders[o].instance # i => orders'[o].status = orders[o].status
             /\ orders'[o].status \in {to, orders[o].status}
  BY BecomingFields DEF Moved
<1>2. Numbers' = Numbers
  BY DEF Becoming
<1>3. /\ \A o \in Numbers :
            /\ orders'[o].instance = orders[o].instance
            /\ orders[o].instance # i => orders'[o].status = orders[o].status
            /\ orders[o].instance = i => (orders'[o].status = "refunded" => orders[o].status = "refunded")
      /\ Out(ins[i]) => Out(ins'[i]) /\ \A o \in Numbers : orders'[o].status = "active" => orders[o].status = "active"
  BY <1>1
<1> QED BY <1>2, <1>3, MovedOut

LEMMA NextOut == ASSUME TypeInv, RefundedOut, [Next]_vars PROVE RefundedOut'
<1>1. ASSUME NEW i \in Instances, DeploymentDone(i) PROVE RefundedOut'
  <2>1. /\ Becoming(i, {"deploying"}, "active") /\ ~ Out(ins[i])
        /\ \A j \in Instances : j # i => ins'[j] = ins[j]
    BY <1>1, DoneStep DEF Becomes, Out
  <2> QED BY <2>1, BecomingOut
<1>2. ASSUME NEW i \in Instances, failDeployment(i) PROVE RefundedOut'
  <2>1. /\ Becoming(i, {"deploying"}, "deployment_failed") /\ ~ Out(ins[i])
        /\ \A j \in Instances : j # i => ins'[j] = ins[j]
    BY <1>2, FailStep DEF Becomes, Out
  <2> QED BY <2>1, BecomingOut
<1>3. ASSUME NEW i \in Instances, ExpireOrders(i) PROVE RefundedOut'
  <2>1. ins' = ins /\ Becoming(i, {"active", "deploying"}, "expired")
    BY <1>3, ExpireOrdersStep DEF ExpireOrders
  <2> QED BY <2>1, BecomingOut
<1>4. ASSUME NEW i \in Instances, queueDeploymentRetry(i) \/ ExpireInstance(i) \/ Destroyed(i) PROVE RefundedOut'
  <2>1. orders' = orders /\ Numbers' = Numbers
    BY <1>4 DEF queueDeploymentRetry, ExpireInstance, Destroyed, Numbers
  <2>2. (Out(ins[i]) => Out(ins'[i])) /\ \A j \in Instances : j # i => ins'[j] = ins[j]
    BY <1>4, RetryStep, ExpireStep, DestroyedStep DEF Becomes, Out, InUse
  <2> QED BY <2>1, <2>2, MovedOut
<1>5. CASE UNCHANGED <<orders, ins>>
  BY <1>5 DEF RefundedOut, Numbers
<1> QED BY <1>1, <1>2, <1>3, <1>4, <1>5, Kinds, PurchaseOut, RenewOut, RefundOut, CompleteOut
     DEF buildPlanChangeQuote, createPlanChange, markPlanChangeBlocked, failPlanChange

\* An order once refunded is a refunded order of its instance.
Stays(o) == o \in Numbers' /\ orders'[o].instance = orders[o].instance /\ orders'[o].status = "refunded"

LEMMA BecomingStays ==
  ASSUME TypeInv, NEW o \in Numbers, orders[o].status = "refunded",
         NEW i \in Instances, NEW from \in SUBSET {"active", "deploying"},
         NEW to \in {"active", "expired", "deployment_failed"}, Becoming(i, from, to)
  PROVE  Stays(o)
<1>1. Moved(o, IF orders[o].instance = i /\ orders[o].status \in from THEN to ELSE orders[o].status)
  BY BecomingFields
<1>2. orders[o].status \notin from
  OBVIOUS
<1> QED BY <1>1, <1>2 DEF Moved, Stays, Becoming

\* What a step does to the row of an instance that is out.
KeepsDays(i) == ins'[i].expires = ins[i].expires

LEMMA Finally ==
  ASSUME TypeInv, RefundedOut, [Next]_vars, NEW o \in Numbers, orders[o].status = "refunded"
  PROVE  Stays(o) /\ KeepsDays(orders[o].instance)
<1> DEFINE j == orders[o].instance
<1>1. /\ j \in Instances /\ Out(ins[j])
      /\ \A p \in Numbers : orders[p].instance = j => orders[p].status # "active"
  BY OrdersLen DEF TypeInv, OrderRow, RefundedOut
<1>2. ins \in [Instances -> InstanceRow]
  BY DEF TypeInv
<1>3. ASSUME NEW i \in Instances, NEW s, NEW r, Becomes(i, s, r) PROVE KeepsDays(j)
  BY <1>1, <1>3 DEF Becomes, KeepsDays
<1>4. ASSUME NEW i \in Instances, NEW p \in Plans, NEW m \in Months, NEW c \in Codes, purchaseWithWallet(i, p, m, c)
      PROVE  Stays(o) /\ KeepsDays(j)
  <2>1. PICK q \in quoteCommercialBenefit("purchase", i, p, m, c), end \in Nat :
            /\ ins[i].status = "none"
            /\ InsTo(i, "deploying", ins[i].reason, end, ins[i].plan)
            /\ Added(Len(orders) + 1, NewOrder(i, p, q.amount, now, end, "deploying", q.benefit))
    BY <1>4, PurchaseStep
  <2>2. \A k \in Instances : k # i => ins'[k] = ins[k]
    BY <1>2, <2>1, InsRow, InsSet
  <2>3. j # i
    BY <1>1, <2>1 DEF Out
  <2>4. Stays(o)
    BY <2>1 DEF Added, Stays
  <2> HIDE DEF j
  <2> QED BY <1>1, <2>2, <2>3, <2>4 DEF KeepsDays
<1>5. ASSUME NEW n \in Numbers, NEW m \in Months, NEW c \in Codes, renewWithWallet(n, m, c)
      PROVE  Stays(o) /\ KeepsDays(j)
  <2> DEFINE i == orders[n].instance
             p == IF ins[i].plan = NoPlan THEN orders[n].plan ELSE ins[i].plan
             base == RenewalBase(i)
  <2>0. i \in Instances /\ Renewable(i)
    BY <1>5, RenewStep
  <2>1. PICK q \in quoteCommercialBenefit("renewal", i, p, m, c), end \in Nat :
            /\ InsTo(i, "running", "none", end, ins[i].plan)
            /\ Added(Len(orders) + 1, NewOrder(i, p, q.amount, base, end, "active", q.benefit))
    BY <1>5, RenewStep
  <2> HIDE DEF i, p, base
  <2>2. \A k \in Instances : k # i => ins'[k] = ins[k]
    BY <1>2, <2>0, <2>1, InsRow, InsSet
  <2>3. j # i
    BY <1>1, <2>0 DEF Out, Renewable, InUse
  <2>4. Stays(o)
    BY <2>1 DEF Added, Stays
  <2> HIDE DEF j
  <2> QED BY <1>1, <2>2, <2>3, <2>4 DEF KeepsDays
<1>6. ASSUME NEW i \in Instances, refundOrder(i) PROVE Stays(o) /\ KeepsDays(j)
  <2> DEFINE cutoff == now + PrepaidDays
  <2>1. /\ Numbers' = Numbers /\ Active(i) # {} /\ cutoff \in Nat
        /\ \A n \in Numbers : n \notin Active(i) => orders'[n] = orders[n]
        /\ \/ InsTo(i, "destroy_scheduled", "refund", cutoff, ins[i].plan)
           \/ UNCHANGED ins
    BY <1>6, RefundStep
  <2> HIDE DEF cutoff
  <2>2. o \notin Active(i) /\ i # j
    BY <1>1, <2>1 DEF Active, OrdersOf
  <2>3. Stays(o)
    BY <2>1, <2>2 DEF Stays
  <2>4. ins'[j] = ins[j]
    BY <1>1, <1>2, <2>1, <2>2, InsRow, InsSet
  <2> QED BY <2>3, <2>4 DEF KeepsDays
<1>7. ASSUME completePlanChange PROVE Stays(o) /\ KeepsDays(j)
  <2> DEFINE i == change.instance
  <2>1. /\ i \in Instances /\ change.status # "none"
        /\ InsTo(i, ins[i].status, ins[i].reason, ins[i].expires, change.target)
    BY <1>7, CompleteStep
  <2> HIDE DEF i
  <2>2. change.target \in Plans
    BY <2>1 DEF TypeInv, ChangeInv
  <2>3. ins'[i].expires = ins[i].expires /\ \A k \in Instances : k # i => ins'[k] = ins[k]
    BY <1>2, <2>1, <2>2, InsRow, InsSet
  <2>4. Stays(o)
    BY <1>7, CompleteFields DEF Stays
  <2> QED BY <1>1, <2>3, <2>4 DEF KeepsDays
<1>8. ASSUME NEW i \in Instances, DeploymentDone(i) \/ failDeployment(i) PROVE Stays(o) /\ KeepsDays(j)
  <2>1. KeepsDays(j)
    BY <1>3, <1>8, DoneStep, FailStep
  <2>2. Becoming(i, {"deploying"}, "active") \/ Becoming(i, {"deploying"}, "deployment_failed")
    BY <1>8, DoneStep, FailStep
  <2>3. Stays(o)
    BY <2>2, BecomingStays
  <2> QED BY <2>1, <2>3
<1>9. ASSUME NEW i \in Instances, ExpireOrders(i) PROVE Stays(o) /\ KeepsDays(j)
  <2>1. Becoming(i, {"active", "deploying"}, "expired") /\ ins' = ins
    BY <1>9, ExpireOrdersStep DEF ExpireOrders
  <2> QED BY <2>1, BecomingStays DEF KeepsDays
<1>10. ASSUME NEW i \in Instances, queueDeploymentRetry(i) \/ ExpireInstance(i) \/ Destroyed(i)
       PROVE  Stays(o) /\ KeepsDays(j)
  <2>1. KeepsDays(j)
    BY <1>3, <1>10, RetryStep, ExpireStep, DestroyedStep DEF KeepsDays
  <2>2. orders' = orders
    BY <1>10 DEF queueDeploymentRetry, ExpireInstance, Destroyed
  <2> QED BY <2>1, <2>2 DEF Stays, Numbers
<1>11. ASSUME orders' = orders, ins' = ins PROVE Stays(o) /\ KeepsDays(j)
  BY <1>11 DEF Stays, KeepsDays, Numbers
<1>12. ASSUME \/ \E i \in Instances, p \in Plans : buildPlanChangeQuote(i, p)
              \/ createPlanChange \/ markPlanChangeBlocked \/ failPlanChange
              \/ UNCHANGED <<orders, ins, change>>
       PROVE  orders' = orders /\ ins' = ins
  BY <1>12 DEF buildPlanChangeQuote, createPlanChange, markPlanChangeBlocked, failPlanChange
<1> DEFINE Good == Stays(o) /\ KeepsDays(j)
<1>13. /\ \A i \in Instances, p \in Plans, m \in Months, c \in Codes : purchaseWithWallet(i, p, m, c) => Good
       /\ \A n \in Numbers, m \in Months, c \in Codes : renewWithWallet(n, m, c) => Good
       /\ \A i \in Instances :
            /\ refundOrder(i) => Good
            /\ DeploymentDone(i) => Good
            /\ failDeployment(i) => Good
            /\ ExpireOrders(i) => Good
            /\ queueDeploymentRetry(i) => Good
            /\ ExpireInstance(i) => Good
            /\ Destroyed(i) => Good
       /\ completePlanChange => Good
       /\ orders' = orders /\ ins' = ins => Good
  BY <1>4, <1>5, <1>6, <1>7, <1>8, <1>9, <1>10, <1>11
<1>14. Good
  <2> HIDE DEF Good
  <2> QED BY <1>12, <1>13, Kinds
<1> QED BY <1>14

OutInv == TypeInv /\ RefundedOut

LEMMA FinallyFinal ==
  ASSUME OutInv, OutInv', [Next]_vars, NEW i \in Instances, Of(i, {"refunded"}) # {}
  PROVE  /\ ins'[i].status # "running" /\ ins'[i].expires = ins[i].expires
         /\ \A o \in 1..Len(orders') : orders'[o].instance = i => orders'[o].status # "active"
<1>1. PICK o \in Numbers : orders[o].instance = i /\ orders[o].status = "refunded"
  BY DEF Of, OrdersOf
<1>2. Stays(o) /\ KeepsDays(i)
  BY <1>1, Finally DEF OutInv
<1>3. Out(ins'[i]) /\ \A p \in Numbers' : orders'[p].instance = i => orders'[p].status # "active"
  BY <1>1, <1>2 DEF OutInv, RefundedOut, Stays
<1>4. Numbers' = 1..Len(orders')
  BY DEF Numbers
<1> QED BY <1>2, <1>3, <1>4 DEF KeepsDays, Out

\* docs/06, renewWithWallet, completePlanChange: once an order is refunded,
\* neither a renewal nor the settlement of a change that waited brings the
\* instance back, sells a new period of it or moves its end.
THEOREM RefundCorrect == Spec => RefundFinal
<1>1. OutInv /\ [Next]_vars => OutInv'
  BY NextType, NextOut DEF OutInv
<1>2. Init => OutInv
  BY InitType, InitOut DEF OutInv
<1>3. OutInv /\ OutInv' /\ [Next]_vars =>
        [\A i \in Instances : Of(i, {"refunded"}) # {} =>
         /\ ins'[i].status # "running" /\ ins'[i].expires = ins[i].expires
         /\ \A o \in 1..Len(orders') : orders'[o].instance = i => orders'[o].status # "active"]_vars
  BY FinallyFinal
<1> QED BY <1>1, <1>2, <1>3, PTL DEF Spec, RefundFinal

-----------------------------------------------------------------------------
(* The days that are paid for.                                              *)

Undeployed(r) == r.status \in {"none", "deploying", "deployment_failed"}
RenewableRow(r) == r.status = "running" \/ (r.status = "destroy_scheduled" /\ r.reason = "expired")
Apart(a, b) == a.end <= b.start \/ b.end <= a.start
InForce(o) == orders[o].status = "active"

\* Until an instance has run, it has one order at most, within its days.
FirstPeriod ==
    \A a \in Numbers : LET r == ins[orders[a].instance] IN
        /\ r.status # "none"
        /\ Undeployed(r) =>
             /\ orders[a].end <= r.expires
             /\ \A b \in Numbers : orders[b].instance = orders[a].instance => b = a

PeriodsLast == \A o \in Numbers : orders[o].status \in {"deploying", "active"} => orders[o].start < orders[o].end

DaysApart ==
    \A a, b \in Numbers :
        a # b /\ orders[a].instance = orders[b].instance /\ InForce(a) /\ InForce(b) => Apart(orders[a], orders[b])

DaysServed ==
    \A o \in Numbers :
        InForce(o) /\ ins[orders[o].instance].status \in {"running", "destroy_scheduled"}
            => orders[o].end <= ins[orders[o].instance].expires

\* The periods of a change under way: while the instance can be renewed they
\* are within its days, apart from each other and from the orders in force that
\* they do not replace.
ItemsFit ==
    change.status # "none" =>
        /\ ~ Undeployed(ins[change.instance])
        /\ \A x \in change.items :
            /\ x.start < x.end
            /\ RenewableRow(ins[change.instance]) => x.end <= ins[change.instance].expires
            /\ \A o \in Numbers :
                 orders[o].instance = change.instance /\ InForce(o) /\ o \notin Sources => Apart(x, orders[o])
            /\ \A y \in change.items : x # y => Apart(x, y)

DaysInv == FirstPeriod /\ PeriodsLast /\ DaysApart /\ DaysServed /\ ItemsFit

LEMMA OrderFields ==
  ASSUME TypeInv, NEW o \in Numbers
  PROVE  /\ orders[o].instance \in Instances /\ orders[o].plan \in Plans
         /\ orders[o].amount \in Nat /\ orders[o].start \in Nat /\ orders[o].end \in Nat
         /\ orders[o].credited \in Nat /\ ins[orders[o].instance].expires \in Nat
<1>1. orders[o] \in OrderRow
  BY OrdersLen DEF TypeInv
<1>2. orders[o].instance \in Instances
  BY <1>1 DEF OrderRow
<1>3. ins[orders[o].instance].expires \in Nat
  BY <1>2, InsRow DEF TypeInv
<1> QED BY <1>1, <1>2, <1>3 DEF OrderRow

LEMMA ItemFields ==
  ASSUME TypeInv
  PROVE  /\ change.instance \in Instances /\ ins[change.instance].expires \in Nat
         /\ \A x \in change.items : x.start \in Nat /\ x.end \in Nat /\ x.refund \in Nat /\ x.charge \in Nat
<1>1. change.instance \in Instances /\ change.items \subseteq Item
  BY DEF TypeInv, ChangeInv, ChangeRow
<1>2. ins[change.instance].expires \in Nat
  BY <1>1, InsRow DEF TypeInv
<1> QED BY <1>1, <1>2 DEF Item

LEMMA InitDays == Init => DaysInv
  BY NoChangeRow DEF Init, DaysInv, FirstPeriod, PeriodsLast, DaysApart, DaysServed, ItemsFit, Numbers

LEMMA PurchaseDays ==
  ASSUME TypeInv, DaysInv, NEW i \in Instances, NEW plan \in Plans, NEW months \in Months, NEW code \in Codes,
         purchaseWithWallet(i, plan, months, code)
  PROVE  DaysInv'
<1> DEFINE n == Len(orders) + 1
<1>1. PICK q \in quoteCommercialBenefit("purchase", i, plan, months, code), end \in Nat :
            /\ end > now /\ ins[i].status = "none"
            /\ InsTo(i, "deploying", ins[i].reason, end, ins[i].plan)
            /\ Added(n, NewOrder(i, plan, q.amount, now, end, "deploying", q.benefit))
  BY PurchaseStep
<1>2. /\ ins'[i].status = "deploying" /\ ins'[i].expires = end
      /\ \A j \in Instances : j # i => ins'[j] = ins[j]
  BY <1>1, InsRow, InsSet DEF TypeInv
<1> HIDE DEF n
<1>3. /\ Numbers' = Numbers \cup {n} /\ n \notin Numbers
      /\ \A o \in Numbers : orders'[o] = orders[o]
      /\ orders'[n].instance = i /\ orders'[n].status = "deploying"
      /\ orders'[n].start = now /\ orders'[n].end = end
  BY <1>1, NewFields DEF Added
<1>4. \A a \in Numbers : orders[a].instance # i /\ orders[a].instance \in Instances
  BY <1>1, OrderFields DEF DaysInv, FirstPeriod
<1>5. change' = change /\ now \in Nat
  BY NowNat DEF purchaseWithWallet
<1>6. FirstPeriod'
  <2> SUFFICES ASSUME NEW a \in Numbers'
               PROVE  LET r == ins'[orders'[a].instance] IN
                      /\ r.status # "none"
                      /\ Undeployed(r) =>
                           /\ orders'[a].end <= r.expires
                           /\ \A b \in Numbers' : orders'[b].instance = orders'[a].instance => b = a
    BY DEF FirstPeriod
  <2>1. CASE a = n
    BY <1>2, <1>3, <1>4, <2>1
  <2>2. CASE a \in Numbers
    <3>1. orders'[a] = orders[a] /\ ins'[orders[a].instance] = ins[orders[a].instance]
      BY <1>2, <1>3, <1>4, <2>2
    <3> QED BY <1>3, <1>4, <2>2, <3>1 DEF DaysInv, FirstPeriod
  <2> QED BY <1>3, <2>1, <2>2
<1>7. PeriodsLast'
  BY <1>1, <1>3, <1>5 DEF DaysInv, PeriodsLast
<1>8. DaysApart'
  BY <1>3 DEF DaysInv, DaysApart, InForce
<1>9. DaysServed'
  BY <1>2, <1>3, <1>4 DEF DaysInv, DaysServed, InForce
<1>10. ItemsFit'
  <2>1. CASE change.status = "none"
    BY <1>5, <2>1 DEF ItemsFit
  <2>2. CASE change.status # "none"
    <3>1. change.instance # i /\ change.instance \in Instances
      BY <1>1, <2>2, ItemFields DEF DaysInv, ItemsFit, Undeployed
    <3>2. ins'[change.instance] = ins[change.instance]
      BY <1>2, <3>1
    <3> QED BY <1>3, <1>5, <2>2, <3>2 DEF DaysInv, ItemsFit, InForce, Sources
  <2> QED BY <2>1, <2>2
<1> QED BY <1>6, <1>7, <1>8, <1>9, <1>10 DEF DaysInv

LEMMA RenewDays ==
  ASSUME TypeInv, DaysInv, NEW source \in Numbers, NEW months \in Months, NEW code \in Codes,
         renewWithWallet(source, months, code)
  PROVE  DaysInv'
<1> DEFINE i == orders[source].instance
           plan == IF ins[i].plan = NoPlan THEN orders[source].plan ELSE ins[i].plan
           base == RenewalBase(i)
           n == Len(orders) + 1
<1>0. i \in Instances /\ base \in Nat /\ base >= ins[i].expires /\ Renewable(i)
  BY RenewStep
<1>1. PICK q \in quoteCommercialBenefit("renewal", i, plan, months, code), end \in Nat :
            /\ end > base
            /\ InsTo(i, "running", "none", end, ins[i].plan)
            /\ Added(n, NewOrder(i, plan, q.amount, base, end, "active", q.benefit))
  BY RenewStep
<1>2. change' = change
  BY DEF renewWithWallet
<1> HIDE DEF i, plan, base, n
<1>3. /\ ins'[i].status = "running" /\ ins'[i].expires = end /\ ins[i].expires \in Nat
      /\ \A j \in Instances : j # i => ins'[j] = ins[j]
  BY <1>0, <1>1, InsRow, InsSet DEF TypeInv
<1>4. /\ Numbers' = Numbers \cup {n} /\ n \notin Numbers
      /\ \A o \in Numbers : orders'[o] = orders[o]
      /\ orders'[n].instance = i /\ orders'[n].status = "active"
      /\ orders'[n].start = base /\ orders'[n].end = end
  BY <1>1, NewFields DEF Added
<1>5. RenewableRow(ins[i]) /\ ins[i].status \in {"running", "destroy_scheduled"}
  BY <1>0 DEF Renewable, RenewableRow, InUse
<1>6. \A a \in Numbers : /\ orders[a].instance \in Instances /\ orders[a].start \in Nat /\ orders[a].end \in Nat
                         /\ ins[orders[a].instance].expires \in Nat
  BY OrderFields
<1>7. \A a \in Numbers : orders[a].instance = i /\ InForce(a) => orders[a].end <= base /\ orders[a].end <= end
  BY <1>0, <1>1, <1>3, <1>5, <1>6 DEF DaysInv, DaysServed
<1>8. FirstPeriod'
  <2> SUFFICES ASSUME NEW a \in Numbers'
               PROVE  LET r == ins'[orders'[a].instance] IN
                      /\ r.status # "none"
                      /\ Undeployed(r) =>
                           /\ orders'[a].end <= r.expires
                           /\ \A b \in Numbers' : orders'[b].instance = orders'[a].instance => b = a
    BY DEF FirstPeriod
  <2>1. CASE orders'[a].instance = i
    BY <1>3, <2>1 DEF Undeployed
  <2>2. CASE orders'[a].instance # i
    <3>1. a \in Numbers /\ orders'[a] = orders[a] /\ ins'[orders[a].instance] = ins[orders[a].instance]
      BY <1>3, <1>4, <1>6, <2>2
    <3> QED BY <1>4, <2>2, <3>1 DEF DaysInv, FirstPeriod
  <2> QED BY <2>1, <2>2
<1>9. PeriodsLast'
  BY <1>1, <1>4 DEF DaysInv, PeriodsLast
<1>10. DaysApart'
  <2> SUFFICES ASSUME NEW a \in Numbers', NEW b \in Numbers', a # b, orders'[a].instance = orders'[b].instance,
                      orders'[a].status = "active", orders'[b].status = "active"
               PROVE  Apart(orders'[a], orders'[b])
    BY DEF DaysApart, InForce
  <2>1. CASE a \in Numbers /\ b \in Numbers
    BY <1>4, <2>1 DEF DaysInv, DaysApart, InForce
  <2>2. CASE a = n
    <3>1. b \in Numbers /\ orders'[b] = orders[b] /\ orders[b].end <= base
      BY <1>4, <1>7, <2>2 DEF InForce
    <3> QED BY <1>4, <2>2, <3>1 DEF Apart
  <2>3. CASE b = n
    <3>1. a \in Numbers /\ orders'[a] = orders[a] /\ orders[a].end <= base
      BY <1>4, <1>7, <2>3 DEF InForce
    <3> QED BY <1>4, <2>3, <3>1 DEF Apart
  <2> QED BY <1>4, <2>1, <2>2, <2>3
<1>11. DaysServed'
  <2> SUFFICES ASSUME NEW a \in Numbers', orders'[a].status = "active",
                      ins'[orders'[a].instance].status \in {"running", "destroy_scheduled"}
               PROVE  orders'[a].end <= ins'[orders'[a].instance].expires
    BY DEF DaysServed, InForce
  <2>1. CASE a = n
    BY <1>3, <1>4, <2>1
  <2>2. CASE a \in Numbers
    <3>1. orders'[a] = orders[a] /\ orders[a].instance \in Instances
      BY <1>4, <1>6, <2>2
    <3>2. CASE orders[a].instance = i
      BY <1>3, <1>7, <2>2, <3>1, <3>2 DEF InForce
    <3>3. CASE orders[a].instance # i
      BY <1>3, <2>2, <3>1, <3>3 DEF DaysInv, DaysServed, InForce
    <3> QED BY <3>2, <3>3
  <2> QED BY <1>4, <2>1, <2>2
<1>12. ItemsFit'
  <2>1. CASE change.status = "none"
    BY <1>2, <2>1 DEF ItemsFit
  <2>2. CASE change.status # "none" /\ change.instance # i
    <3>1. ins'[change.instance] = ins[change.instance]
      BY <1>3, <2>2, ItemFields
    <3> QED BY <1>2, <1>4, <2>2, <3>1 DEF DaysInv, ItemsFit, InForce, Sources
  <2>3. CASE change.status # "none" /\ change.instance = i
    <3>1. ~ Undeployed(ins'[i])
      BY <1>3 DEF Undeployed
    <3>2. ASSUME NEW x \in change.items
          PROVE  /\ x.start < x.end /\ x.end <= end /\ x.end <= base
                 /\ \A o \in Numbers : orders[o].instance = i /\ InForce(o) /\ o \notin Sources => Apart(x, orders[o])
                 /\ \A y \in change.items : x # y => Apart(x, y)
      <4>1. /\ x.start < x.end /\ x.end <= ins[i].expires
            /\ \A o \in Numbers : orders[o].instance = i /\ InForce(o) /\ o \notin Sources => Apart(x, orders[o])
            /\ \A y \in change.items : x # y => Apart(x, y)
        BY <1>5, <2>3 DEF DaysInv, ItemsFit
      <4>2. x.end \in Nat
        BY ItemFields
      <4> QED BY <1>0, <1>1, <1>3, <4>1, <4>2
    <3>3. ASSUME NEW x \in change.items, NEW o \in Numbers', orders'[o].instance = i, orders'[o].status = "active",
                 o \notin Sources
          PROVE  Apart(x, orders'[o])
      <4>1. CASE o = n
        BY <1>4, <3>2, <4>1 DEF Apart
      <4>2. CASE o \in Numbers
        BY <1>4, <3>2, <3>3, <4>2 DEF InForce
      <4> QED BY <1>4, <4>1, <4>2
    <3> QED BY <1>2, <1>3, <2>3, <3>1, <3>2, <3>3 DEF ItemsFit, InForce, Sources
  <2> QED BY <2>1, <2>2, <2>3
<1> QED BY <1>8, <1>9, <1>10, <1>11, <1>12 DEF DaysInv

\* What keeps the terms of the orders, puts none in force whose instance was in
\* use, and changes no days of an instance, keeps all of it.
LEMMA SameDays ==
  ASSUME TypeInv, DaysInv, NEW i \in Instances, Numbers' = Numbers, change' = change,
         \A o \in Numbers :
            /\ orders'[o].instance = orders[o].instance
            /\ orders'[o].start = orders[o].start /\ orders'[o].end = orders[o].end
            /\ orders[o].instance # i => orders'[o].status = orders[o].status
            /\ orders'[o].status \in {"deploying", "active"} => orders[o].status \in {"deploying", "active"}
            /\ orders'[o].status = "active" =>
                 orders[o].status = "active" \/ (orders[o].instance = i /\ ins[i].status = "deploying"),
         \A j \in Instances : j # i => ins'[j] = ins[j],
         ins'[i].expires = ins[i].expires,
         ins[i].status # "none" => ins'[i].status # "none",
         ~ Undeployed(ins[i]) => ~ Undeployed(ins'[i]),
         RenewableRow(ins'[i]) => RenewableRow(ins[i]) \/ Undeployed(ins[i]),
         ins'[i].status \in {"running", "destroy_scheduled"} =>
            ins[i].status \in {"running", "destroy_scheduled", "deploying"}
  PROVE  DaysInv'
<1>1. \A a \in Numbers : /\ orders[a].instance \in Instances /\ orders[a].start \in Nat /\ orders[a].end \in Nat
                         /\ ins[orders[a].instance].expires \in Nat
  BY OrderFields
<1>2. \A a \in Numbers : orders[a].instance # i => ins'[orders[a].instance] = ins[orders[a].instance]
  BY <1>1
<1>3. \A a \in Numbers : Undeployed(ins'[orders[a].instance]) => Undeployed(ins[orders[a].instance])
  BY <1>1
<1>4. FirstPeriod'
  <2> SUFFICES ASSUME NEW a \in Numbers
               PROVE  LET r == ins'[orders'[a].instance] IN
                      /\ r.status # "none"
                      /\ Undeployed(r) =>
                           /\ orders'[a].end <= r.expires
                           /\ \A b \in Numbers : orders'[b].instance = orders'[a].instance => b = a
    BY DEF FirstPeriod
  <2>1. ins'[orders[a].instance].status # "none" /\ ins'[orders[a].instance].expires = ins[orders[a].instance].expires
    BY <1>2 DEF DaysInv, FirstPeriod
  <2> QED BY <1>3, <2>1 DEF DaysInv, FirstPeriod
<1>5. PeriodsLast'
  BY DEF DaysInv, PeriodsLast
<1>6. DaysApart'
  <2> SUFFICES ASSUME NEW a \in Numbers, NEW b \in Numbers, a # b, orders'[a].instance = orders'[b].instance,
                      orders'[a].status = "active", orders'[b].status = "active"
               PROVE  Apart(orders'[a], orders'[b])
    BY DEF DaysApart, InForce
  <2>1. CASE InForce(a) /\ InForce(b)
    BY <2>1 DEF DaysInv, DaysApart, Apart
  <2>2. CASE ~ (InForce(a) /\ InForce(b))
    <3>1. orders[a].instance = i /\ orders[b].instance = i /\ Undeployed(ins[i])
      BY <2>2 DEF InForce, Undeployed
    <3> QED BY <3>1 DEF DaysInv, FirstPeriod
  <2> QED BY <2>1, <2>2
<1>7. DaysServed'
  <2> SUFFICES ASSUME NEW a \in Numbers, orders'[a].status = "active",
                      ins'[orders'[a].instance].status \in {"running", "destroy_scheduled"}
               PROVE  orders'[a].end <= ins'[orders'[a].instance].expires
    BY DEF DaysServed, InForce
  <2>1. CASE orders[a].instance # i
    BY <1>2, <2>1 DEF DaysInv, DaysServed, InForce
  <2>2. CASE orders[a].instance = i /\ ins[i].status = "deploying"
    BY <2>2 DEF DaysInv, FirstPeriod, Undeployed
  <2>3. CASE orders[a].instance = i /\ ins[i].status # "deploying"
    BY <2>3 DEF DaysInv, DaysServed, InForce
  <2> QED BY <2>1, <2>2, <2>3
<1>8. ItemsFit'
  <2>1. CASE change.status = "none"
    BY <2>1 DEF ItemsFit
  <2>2. CASE change.status # "none"
    <3> DEFINE j == change.instance
    <3>0. j \in Instances /\ ~ Undeployed(ins[j])
      BY <2>2, ItemFields DEF DaysInv, ItemsFit
    <3>1. /\ ~ Undeployed(ins'[j]) /\ ins'[j].expires = ins[j].expires
          /\ RenewableRow(ins'[j]) => RenewableRow(ins[j])
      BY <3>0
    <3>2. \A o \in Numbers : orders'[o].instance = j /\ orders'[o].status = "active" =>
              orders[o].instance = j /\ InForce(o)
      BY <3>0 DEF InForce, Undeployed
    <3>3. \A x \in change.items, o \in Numbers : Apart(x, orders[o]) => Apart(x, orders'[o])
      BY DEF Apart
    <3> QED BY <2>2, <3>1, <3>2, <3>3 DEF DaysInv, ItemsFit, InForce, Sources
  <2> QED BY <2>1, <2>2
<1> QED BY <1>4, <1>5, <1>6, <1>7, <1>8 DEF DaysInv

LEMMA InstanceDays ==
  ASSUME TypeInv, DaysInv, NEW i \in Instances,
         \/ DeploymentDone(i) \/ failDeployment(i) \/ queueDeploymentRetry(i)
         \/ ExpireInstance(i) \/ ExpireOrders(i) \/ Destroyed(i)
  PROVE  DaysInv'
<1> DEFINE Terms ==
             \A o \in Numbers :
               /\ orders'[o].instance = orders[o].instance
               /\ orders'[o].start = orders[o].start /\ orders'[o].end = orders[o].end
               /\ orders[o].instance # i => orders'[o].status = orders[o].status
               /\ orders'[o].status \in {"deploying", "active"} => orders[o].status \in {"deploying", "active"}
               /\ orders'[o].status = "active" =>
                    orders[o].status = "active" \/ (orders[o].instance = i /\ ins[i].status = "deploying")
<1>0. ASSUME NEW from \in SUBSET {"active", "deploying"}, NEW to \in {"active", "expired", "deployment_failed"},
             Becoming(i, from, to), to = "active" => ins[i].status = "deploying"
      PROVE  Numbers' = Numbers /\ Terms
  <2>1. Numbers' = Numbers
    BY <1>0 DEF Becoming
  <2>2. ASSUME NEW o \in Numbers
        PROVE  Moved(o, IF orders[o].instance = i /\ orders[o].status \in from THEN to ELSE orders[o].status)
    BY <1>0, BecomingFields
  <2> QED BY <1>0, <2>1, <2>2 DEF Moved
<1>1. CASE DeploymentDone(i)
  <2>1. Becomes(i, "running", ins[i].reason) /\ ins[i].status = "deploying" /\ change' = change
    BY <1>1, DoneStep DEF DeploymentDone
  <2>2. Numbers' = Numbers /\ Terms
    BY <1>0, <1>1, <2>1, DoneStep
  <2> QED BY <2>1, <2>2, SameDays DEF Becomes, Undeployed, RenewableRow
<1>2. CASE failDeployment(i)
  <2>1. Becomes(i, "deployment_failed", ins[i].reason) /\ ins[i].status = "deploying" /\ change' = change
    BY <1>2, FailStep DEF failDeployment
  <2>2. Numbers' = Numbers /\ Terms
    BY <1>0, <1>2, FailStep
  <2> QED BY <2>1, <2>2, SameDays DEF Becomes, Undeployed, RenewableRow
<1>3. CASE ExpireOrders(i)
  <2>1. ins' = ins /\ change' = change
    BY <1>3 DEF ExpireOrders
  <2>2. Numbers' = Numbers /\ Terms
    BY <1>0, <1>3, ExpireOrdersStep
  <2> QED BY <2>1, <2>2, SameDays
<1>4. CASE queueDeploymentRetry(i) \/ ExpireInstance(i) \/ Destroyed(i)
  <2>1. orders' = orders /\ Numbers' = Numbers /\ change' = change
    BY <1>4 DEF queueDeploymentRetry, ExpireInstance, Destroyed, Numbers
  <2>2. CASE queueDeploymentRetry(i)
    <3>1. Becomes(i, "deploying", ins[i].reason) /\ ins[i].status = "deployment_failed"
      BY <2>2, RetryStep
    <3> QED BY <2>1, <3>1, SameDays DEF Becomes, Undeployed, RenewableRow
  <2>3. CASE ExpireInstance(i)
    <3>1. CASE ins' = ins
      BY <2>1, <3>1, SameDays
    <3>2. CASE Becomes(i, "destroy_scheduled", "expired") /\ ins[i].status = "running"
      BY <2>1, <3>2, SameDays DEF Becomes, Undeployed, RenewableRow
    <3> QED BY <2>3, <3>1, <3>2, ExpireStep DEF InUse
  <2>4. CASE Destroyed(i)
    <3>1. PICK r : Becomes(i, "destroyed", r)
      BY <2>4, DestroyedStep
    <3>2. ins[i].status \in {"running", "destroy_scheduled"}
      BY <2>4, DestroyedStep DEF InUse
    <3> QED BY <2>1, <3>1, <3>2, SameDays DEF Becomes, Undeployed, RenewableRow
  <2> QED BY <1>4, <2>2, <2>3, <2>4
<1> QED BY <1>1, <1>2, <1>3, <1>4

LEMMA RefundDays == ASSUME TypeInv, DaysInv, NEW i \in Instances, refundOrder(i) PROVE DaysInv'
<1> DEFINE cutoff == now + PrepaidDays
<1>1. /\ Numbers' = Numbers /\ cutoff \in Nat
      /\ \A o \in Active(i) : orders'[o] = Refunded(orders[o], RefundOf(o, cutoff), Later(cutoff, orders[o].start))
      /\ \A o \in Numbers : o \notin Active(i) => orders'[o] = orders[o]
      /\ \/ InUse(i) /\ InsTo(i, "destroy_scheduled", "refund", cutoff, ins[i].plan)
         \/ ins[i].status = "destroyed" /\ UNCHANGED ins
  BY RefundStep
<1>2. change' = change
  BY DEF refundOrder
<1> HIDE DEF cutoff
<1>3. \A o \in Numbers :
         /\ o \in Active(i) <=> orders[o].instance = i /\ InForce(o)
         /\ orders'[o].instance = orders[o].instance
         /\ orders'[o].status = IF o \in Active(i) THEN "refunded" ELSE orders[o].status
         /\ orders'[o].status = "active" => orders'[o] = orders[o] /\ InForce(o) /\ orders[o].instance # i
  BY <1>1, RefundedFields DEF Active, OrdersOf, InForce
<1>4. /\ ~ Undeployed(ins[i]) /\ ~ Undeployed(ins'[i]) /\ ~ RenewableRow(ins'[i])
      /\ \A j \in Instances : j # i => ins'[j] = ins[j]
  BY <1>1, InsRow, InsSet DEF TypeInv, Undeployed, RenewableRow, InUse
<1>5. \A a \in Numbers : orders[a].instance \in Instances
  BY OrderFields
<1>6. FirstPeriod'
  <2> SUFFICES ASSUME NEW a \in Numbers
               PROVE  LET r == ins'[orders'[a].instance] IN
                      /\ r.status # "none"
                      /\ Undeployed(r) =>
                           /\ orders'[a].end <= r.expires
                           /\ \A b \in Numbers : orders'[b].instance = orders'[a].instance => b = a
    BY <1>1 DEF FirstPeriod
  <2>1. CASE orders[a].instance = i
    BY <1>3, <1>4, <2>1 DEF Undeployed
  <2>2. CASE orders[a].instance # i
    <3>1. orders'[a] = orders[a] /\ ins'[orders[a].instance] = ins[orders[a].instance]
      BY <1>1, <1>3, <1>4, <1>5, <2>2
    <3> QED BY <1>3, <2>2, <3>1 DEF DaysInv, FirstPeriod
  <2> QED BY <2>1, <2>2
<1>7. PeriodsLast'
  <2>1. \A o \in Numbers : orders'[o].status \in {"deploying", "active"} => orders'[o] = orders[o]
    BY <1>1, <1>3
  <2> QED BY <1>1, <2>1 DEF DaysInv, PeriodsLast
<1>8. DaysApart'
  BY <1>1, <1>3 DEF DaysInv, DaysApart, InForce
<1>9. DaysServed'
  BY <1>1, <1>3, <1>4, <1>5 DEF DaysInv, DaysServed, InForce
<1>10. ItemsFit'
  <2>1. CASE change.status = "none"
    BY <1>2, <2>1 DEF ItemsFit
  <2>2. CASE change.status # "none"
    <3>1. change.instance \in Instances
      BY ItemFields
    <3>2. /\ ~ Undeployed(ins'[change.instance])
          /\ RenewableRow(ins'[change.instance]) =>
               RenewableRow(ins[change.instance]) /\ ins'[change.instance] = ins[change.instance]
      BY <1>4, <2>2, <3>1 DEF DaysInv, ItemsFit
    <3> QED BY <1>1, <1>2, <1>3, <2>2, <3>2 DEF DaysInv, ItemsFit, InForce, Sources
  <2> QED BY <2>1, <2>2
<1> QED BY <1>6, <1>7, <1>8, <1>9, <1>10 DEF DaysInv

LEMMA QuoteDays ==
  ASSUME TypeInv, DaysInv, NEW i \in Instances, NEW target \in Plans, buildPlanChangeQuote(i, target)
  PROVE  DaysInv'
<1>1. /\ change'.instance = i /\ change'.items = QuoteItems(i, target)
      /\ orders' = orders /\ Numbers' = Numbers /\ ins' = ins /\ ins[i].status = "running"
  BY DEF buildPlanChangeQuote, Numbers, InUse
<1>2. /\ \A x \in change'.items : ItemOf(x.source, x)
      /\ \A x, y \in change'.items : x.source = y.source => x = y
  BY <1>1, ItemsQuoted
<1>3. ASSUME NEW x \in change'.items
      PROVE  /\ x.source \in Numbers /\ orders[x.source].instance = i /\ InForce(x.source)
             /\ x.start >= orders[x.source].start /\ x.end = orders[x.source].end /\ x.start < x.end
             /\ orders[x.source].start \in Nat /\ x.end \in Nat /\ x.start \in Nat
  <2>1. /\ x \in Item /\ x.source \in Active(i) /\ orders[x.source].end > now
        /\ x.start = Later(now, orders[x.source].start) /\ x.end = orders[x.source].end
    BY <1>1, <1>2 DEF ItemOf
  <2>2. x.source \in Numbers /\ orders[x.source].instance = i /\ InForce(x.source)
    BY <2>1 DEF Active, OrdersOf, InForce
  <2>3. now \in Nat /\ orders[x.source].start \in Nat /\ orders[x.source].end \in Nat
    BY <2>2, NowNat, OrderFields
  <2>4. orders[x.source].start < orders[x.source].end
    BY <2>2 DEF DaysInv, PeriodsLast, InForce
  <2> QED BY <2>1, <2>2, <2>3, <2>4 DEF Later
<1>4. ASSUME NEW x \in change'.items, NEW o \in Numbers, o # x.source, orders[o].instance = i, InForce(o)
      PROVE  Apart(x, orders[o])
  <2>1. Apart(orders[x.source], orders[o])
    BY <1>3, <1>4 DEF DaysInv, DaysApart
  <2>2. orders[o].end \in Nat /\ orders[o].start \in Nat
    BY OrderFields
  <2> QED BY <1>3, <2>1, <2>2 DEF Apart
<1>5. ASSUME NEW x \in change'.items, NEW y \in change'.items, x # y PROVE Apart(x, y)
  <2>1. Apart(x, orders[y.source])
    BY <1>2, <1>3, <1>4, <1>5
  <2> QED BY <1>3, <2>1 DEF Apart
<1>6. ASSUME NEW x \in change'.items PROVE x.end <= ins[i].expires
  BY <1>1, <1>3 DEF DaysInv, DaysServed
<1>7. ItemsFit'
  <2>1. Sources' = {x.source : x \in change'.items}
    BY DEF Sources
  <2>2. ASSUME NEW x \in change'.items, NEW o \in Numbers', orders'[o].instance = i, orders'[o].status = "active",
               o \notin Sources'
        PROVE  Apart(x, orders'[o])
    BY <1>1, <1>4, <2>1, <2>2 DEF InForce
  <2> QED BY <1>1, <1>3, <1>5, <1>6, <2>2 DEF ItemsFit, InForce, Undeployed
<1> QED BY <1>1, <1>7 DEF DaysInv, FirstPeriod, PeriodsLast, DaysApart, DaysServed, InForce

\* Different orders that the settlement adds are of different periods.
LEMMA AddedApart ==
  ASSUME TypeInv, DaysInv, completePlanChange, NEW a \in Numbers' \ Numbers, NEW b \in Numbers' \ Numbers, a # b
  PROVE  Apart(orders'[a], orders'[b])
<1> DEFINE n == Cardinality(change.items)
           g == ReplacementsOf(change.items)
           T == Copies(change.items)
<1>1. /\ change.status # "none" /\ n \in Nat
      /\ Numbers' = Numbers \cup {Len(orders) + k : k \in 1..n}
      /\ g \in Surjection(1..n, T)
      /\ \A k \in 1..n : orders'[Len(orders) + k] = g[k]
  BY CompleteStep
<1>2. \A x, y \in change.items : x # y => Apart(x, y)
  BY <1>1 DEF DaysInv, ItemsFit
<1>3. \A x \in change.items : /\ x.start \in Nat /\ x.end \in Nat /\ x.start < x.end
                              /\ Replacement(x).start = x.start /\ Replacement(x).end = x.end
  BY <1>1, ItemFields, NewFields DEF DaysInv, ItemsFit, Replacement
<1>4. \A x, y \in change.items : x # y => Replacement(x) # Replacement(y)
  BY <1>2, <1>3 DEF Apart
<1>5. IsFiniteSet(T) /\ Cardinality(T) = n
  <2> DEFINE f == [x \in change.items |-> Replacement(x)]
  <2>1. f \in [change.items -> T] /\ \A t \in T : \E x \in change.items : f[x] = t
    BY DEF Copies
  <2>2. \A x, y \in change.items : f[x] = f[y] => x = y
    BY <1>4
  <2>3. f \in Bijection(change.items, T)
    BY <2>1, <2>2 DEF Bijection, Surjection, Injection, IsInjective
  <2>4. IsFiniteSet(change.items)
    BY DEF TypeInv, ChangeInv
  <2> QED BY <2>3, <2>4, FS_Bijection DEF ExistsBijection
<1> HIDE DEF n, g
<1>6. IsFiniteSet(1..n) /\ Cardinality(1..n) = n
  <2>1. 1 \in Int /\ n \in Int /\ IF 1 > n THEN n = 0 ELSE n - 1 + 1 = n
    BY <1>1
  <2> QED BY <2>1, FS_Interval
<1>7. g \in Injection(1..n, T)
  BY <1>1, <1>5, <1>6, FS_SurjSameCardinalityImpliesInj
<1>8. PICK k \in 1..n, l \in 1..n : a = Len(orders) + k /\ b = Len(orders) + l
  BY <1>1
<1>9. g[k] # g[l] /\ g[k] \in T /\ g[l] \in T
  BY <1>7, <1>8 DEF Injection, IsInjective
<1>10. PICK x \in change.items, y \in change.items : g[k] = Replacement(x) /\ g[l] = Replacement(y)
  BY <1>9 DEF Copies
<1>11. Apart(x, y)
  BY <1>2, <1>9, <1>10
<1>12. orders'[a] = Replacement(x) /\ orders'[b] = Replacement(y)
  BY <1>1, <1>8, <1>10
<1> QED BY <1>3, <1>11, <1>12 DEF Apart

LEMMA CompleteDays == ASSUME TypeInv, DaysInv, completePlanChange PROVE DaysInv'
<1> DEFINE i == change.instance
<1>1. /\ change.status # "none" /\ i \in Instances /\ ins[i].status = "running"
      /\ change' = NoChange
      /\ InsTo(i, ins[i].status, ins[i].reason, ins[i].expires, change.target)
  BY CompleteStep DEF InUse
<1>2. change.target \in Plans
  BY <1>1 DEF TypeInv, ChangeInv
<1>3. \A j \in Instances : ins'[j].status = ins[j].status /\ ins'[j].expires = ins[j].expires
  BY <1>1, <1>2, InsRow, InsSet DEF TypeInv
<1>4. \A x \in change.items :
        /\ x.start \in Nat /\ x.end \in Nat /\ x.start < x.end /\ x.end <= ins[i].expires
        /\ \A o \in Numbers : orders[o].instance = i /\ InForce(o) /\ o \notin Sources => Apart(x, orders[o])
  BY <1>1, ItemFields DEF DaysInv, ItemsFit, RenewableRow
<1>5. ASSUME NEW o \in Numbers
      PROVE  /\ o \in Numbers' /\ orders'[o].instance = orders[o].instance
             /\ orders'[o].start = orders[o].start /\ orders'[o].end = orders[o].end
             /\ orders'[o].status \in {"deploying", "active"} => orders'[o].status = orders[o].status
             /\ orders'[o].status = "active" => o \notin Sources
             /\ orders[o].instance \in Instances
  <2>1. o \in Numbers' /\ orders[o].instance \in Instances
    BY CompleteFields, OrderFields
  <2>2. CASE o \in Sources
    <3>1. orders'[o] = ExchangedRow(orders[o], Back(o))
      BY <2>2, CompleteFields
    <3>2. /\ orders'[o].instance = orders[o].instance
          /\ orders'[o].start = orders[o].start /\ orders'[o].end = orders[o].end
          /\ orders'[o].status = IF orders[o].status = "active" THEN "exchanged" ELSE orders[o].status
      BY <3>1, ExchangedFields
    <3> QED BY <2>1, <3>2
  <2>3. CASE o \notin Sources
    <3>1. orders'[o] = orders[o]
      BY <2>3, CompleteFields
    <3> QED BY <2>1, <2>3, <3>1
  <2> QED BY <2>2, <2>3
<1>6. ASSUME NEW o \in Numbers' \ Numbers
      PROVE  \E x \in change.items :
               /\ orders'[o].instance = i /\ orders'[o].status = "active"
               /\ orders'[o].start = x.start /\ orders'[o].end = x.end
  <2>1. PICK x \in change.items : orders'[o] = Replacement(x)
    BY CompleteFields
  <2>2. /\ Replacement(x).instance = i /\ Replacement(x).status = "active"
        /\ Replacement(x).start = x.start /\ Replacement(x).end = x.end
    BY NewFields DEF Replacement
  <2> QED BY <2>1, <2>2
<1> HIDE DEF i
<1>7. FirstPeriod'
  <2> SUFFICES ASSUME NEW a \in Numbers'
               PROVE  LET r == ins'[orders'[a].instance] IN
                      /\ r.status # "none"
                      /\ Undeployed(r) =>
                           /\ orders'[a].end <= r.expires
                           /\ \A b \in Numbers' : orders'[b].instance = orders'[a].instance => b = a
    BY DEF FirstPeriod
  <2>1. CASE orders'[a].instance = i
    BY <1>1, <1>3, <2>1 DEF Undeployed
  <2>2. CASE orders'[a].instance # i
    <3>1. a \in Numbers /\ \A b \in Numbers' : orders'[b].instance = orders'[a].instance => b \in Numbers
      BY <1>6, <2>2
    <3> QED BY <1>3, <1>5, <3>1 DEF DaysInv, FirstPeriod, Undeployed
  <2> QED BY <2>1, <2>2
<1>8. PeriodsLast'
  <2> SUFFICES ASSUME NEW o \in Numbers', orders'[o].status \in {"deploying", "active"}
               PROVE  orders'[o].start < orders'[o].end
    BY DEF PeriodsLast
  <2>1. CASE o \in Numbers
    BY <1>5, <2>1 DEF DaysInv, PeriodsLast
  <2>2. CASE o \notin Numbers
    BY <1>4, <1>6, <2>2
  <2> QED BY <2>1, <2>2
<1>9. DaysApart'
  <2> SUFFICES ASSUME NEW a \in Numbers', NEW b \in Numbers', a # b, orders'[a].instance = orders'[b].instance,
                      orders'[a].status = "active", orders'[b].status = "active"
               PROVE  Apart(orders'[a], orders'[b])
    BY DEF DaysApart, InForce
  <2>1. ASSUME NEW o \in Numbers, NEW n \in Numbers' \ Numbers, orders'[o].instance = orders'[n].instance,
               orders'[o].status = "active"
        PROVE  Apart(orders'[o], orders'[n]) /\ Apart(orders'[n], orders'[o])
    <3>1. PICK x \in change.items :
               /\ orders'[n].instance = i /\ orders'[n].start = x.start /\ orders'[n].end = x.end
      BY <1>6
    <3>2. Apart(x, orders[o])
      BY <1>4, <1>5, <2>1, <3>1 DEF InForce
    <3> QED BY <1>5, <3>1, <3>2 DEF Apart
  <2>2. CASE a \in Numbers /\ b \in Numbers
    <3>1. Apart(orders[a], orders[b])
      BY <1>5, <2>2 DEF DaysInv, DaysApart, InForce
    <3> QED BY <1>5, <2>2, <3>1 DEF Apart
  <2>3. CASE a \notin Numbers /\ b \notin Numbers
    BY <2>3, AddedApart
  <2> QED BY <2>1, <2>2, <2>3
<1>10. DaysServed'
  <2> SUFFICES ASSUME NEW a \in Numbers', orders'[a].status = "active",
                      ins'[orders'[a].instance].status \in {"running", "destroy_scheduled"}
               PROVE  orders'[a].end <= ins'[orders'[a].instance].expires
    BY DEF DaysServed, InForce
  <2>1. CASE a \in Numbers
    BY <1>3, <1>5, <2>1 DEF DaysInv, DaysServed, InForce
  <2>2. CASE a \notin Numbers
    BY <1>1, <1>3, <1>4, <1>6, <2>2
  <2> QED BY <2>1, <2>2
<1>11. ItemsFit'
  BY <1>1, NoChangeRow DEF ItemsFit
<1> QED BY <1>7, <1>8, <1>9, <1>10, <1>11 DEF DaysInv

\* Creating, blocking and giving up a change leaves its periods or none.
LEMMA SettleDays ==
  ASSUME TypeInv, DaysInv, createPlanChange \/ markPlanChangeBlocked \/ failPlanChange PROVE DaysInv'
<1>1. orders' = orders /\ ins' = ins /\ Numbers' = Numbers
  BY DEF createPlanChange, markPlanChangeBlocked, failPlanChange, Numbers
<1>2. \/ change' = NoChange
      \/ /\ change.status # "none" /\ change'.items = change.items /\ change'.instance = change.instance
  BY StatusType DEF createPlanChange, markPlanChangeBlocked, failPlanChange
<1>3. ItemsFit'
  <2>1. CASE change' = NoChange
    BY <2>1, NoChangeRow DEF ItemsFit
  <2>2. CASE change' # NoChange
    <3>1. Sources' = Sources
      BY <1>2, <2>2 DEF Sources
    <3> QED BY <1>1, <1>2, <2>2, <3>1 DEF DaysInv, ItemsFit, InForce
  <2> QED BY <2>1, <2>2
<1> QED BY <1>1, <1>3 DEF DaysInv, FirstPeriod, PeriodsLast, DaysApart, DaysServed, InForce

LEMMA NextDays == ASSUME TypeInv, DaysInv, [Next]_vars PROVE DaysInv'
<1>1. CASE UNCHANGED <<orders, ins, change>>
  BY <1>1 DEF DaysInv, FirstPeriod, PeriodsLast, DaysApart, DaysServed, ItemsFit, InForce, Numbers, Sources
<1> QED BY <1>1, Kinds, PurchaseDays, RenewDays, RefundDays, InstanceDays, CompleteDays, QuoteDays, SettleDays

LEMMA DaysAlways == Spec => [](TypeInv /\ DaysInv)
<1>1. Init => TypeInv /\ DaysInv
  BY InitType, InitDays
<1>2. TypeInv /\ DaysInv /\ [Next]_vars => (TypeInv /\ DaysInv)'
  BY NextType, NextDays
<1> QED BY <1>1, <1>2, PTL DEF Spec

\* renewWithWallet, completePlanChange: however renewals, expiries and refunds
\* fall between the quote and the settlement of a change, no day of an instance
\* is covered by two orders in force.
THEOREM DaysCorrect == Spec => []NoDayTwice
<1>1. DaysInv => NoDayTwice
  BY DEF DaysInv, DaysApart, NoDayTwice, Active, OrdersOf, InForce, Apart
<1> QED BY <1>1, DaysAlways, PTL

\* renewWithWallet, completePlanChange: and no paid day is after the expiry that
\* the loop goes by.
THEOREM ServedCorrect == Spec => []PaidDaysServed
<1>1. DaysInv => PaidDaysServed
  BY DEF DaysInv, DaysServed, PaidDaysServed, Active, OrdersOf, InForce
<1> QED BY <1>1, DaysAlways, PTL

-----------------------------------------------------------------------------
(* What comes back for an order.                                            *)

\* Nothing has come back for an order that is in force or will be.
Credits ==
    \A o \in Numbers :
        /\ orders[o].credited <= orders[o].amount
        /\ orders[o].status \in {"deploying", "active"} => orders[o].credited = 0

\* Each source of a change under way is an order of the instance that is not in
\* deployment and for which nothing has come back, unless it was refunded.
SourcesOwed ==
    change.status # "none" =>
        \A x \in change.items :
            /\ x.source \in Numbers /\ orders[x.source].instance = change.instance
            /\ orders[x.source].status # "deploying"
            /\ x.refund <= orders[x.source].amount
            /\ orders[x.source].credited = 0 \/ orders[x.source].status = "refunded"
            /\ \A y \in change.items : x.source = y.source => x = y

CreditInv == Credits /\ SourcesOwed

LEMMA InitCredit == Init => CreditInv
  BY NoChangeRow DEF Init, CreditInv, Credits, SourcesOwed, Numbers

\* An order is added for which nothing has come back.
LEMMA AddedCredit ==
  ASSUME TypeInv, CreditInv, NEW n, NEW r, Added(n, r), r.credited = 0, change' = change
  PROVE  CreditInv'
<1>1. r.amount \in Nat
  BY DEF Added, OrderRow
<1>2. Credits'
  BY <1>1 DEF CreditInv, Credits, Added
<1>3. SourcesOwed'
  BY DEF CreditInv, SourcesOwed, Added
<1> QED BY <1>2, <1>3 DEF CreditInv

\* Orders go from one status to another, in deployment or in force only if they were.
LEMMA MovedCredit ==
  ASSUME TypeInv, CreditInv, NEW i \in Instances, NEW from \in SUBSET {"active", "deploying"},
         NEW to \in {"active", "expired", "deployment_failed"}, Becoming(i, from, to), change' = change
  PROVE  CreditInv'
<1>1. Numbers' = Numbers
  BY DEF Becoming
<1>2. ASSUME NEW o \in Numbers
      PROVE  /\ orders'[o].instance = orders[o].instance
             /\ orders'[o].amount = orders[o].amount /\ orders'[o].credited = orders[o].credited
             /\ orders'[o].status \in {"deploying", "active"} => orders[o].status \in {"deploying", "active"}
             /\ orders'[o].status = "deploying" => orders[o].status = "deploying"
             /\ orders[o].status = "refunded" => orders'[o].status = "refunded"
  <2>1. Moved(o, IF orders[o].instance = i /\ orders[o].status \in from THEN to ELSE orders[o].status)
    BY BecomingFields
  <2> QED BY <2>1 DEF Moved
<1>3. Credits'
  BY <1>1, <1>2 DEF CreditInv, Credits
<1>4. SourcesOwed'
  BY <1>1, <1>2 DEF CreditInv, SourcesOwed
<1> QED BY <1>3, <1>4 DEF CreditInv

LEMMA RefundCredit == ASSUME TypeInv, CreditInv, NEW i \in Instances, refundOrder(i) PROVE CreditInv'
<1> DEFINE cutoff == now + PrepaidDays
<1>1. /\ Numbers' = Numbers
      /\ \A o \in Active(i) : orders'[o] = Refunded(orders[o], RefundOf(o, cutoff), Later(cutoff, orders[o].start))
      /\ \A o \in Numbers : o \notin Active(i) => orders'[o] = orders[o]
      /\ \A o \in Active(i) : RefundOf(o, cutoff) \in Nat /\ RefundOf(o, cutoff) <= orders[o].amount
  BY RefundStep
<1>2. change' = change
  BY DEF refundOrder
<1> HIDE DEF cutoff
<1>3. ASSUME NEW o \in Active(i)
      PROVE  /\ o \in Numbers /\ orders'[o].instance = orders[o].instance /\ orders'[o].amount = orders[o].amount
             /\ orders'[o].status = "refunded" /\ orders'[o].credited <= orders[o].amount
  <2>1. o \in Numbers /\ orders[o].status = "active"
    BY DEF Active, OrdersOf
  <2>2. orders[o].credited = 0
    BY <2>1 DEF CreditInv, Credits
  <2>3. /\ orders'[o].instance = orders[o].instance /\ orders'[o].amount = orders[o].amount
        /\ orders'[o].status = "refunded" /\ orders'[o].credited = orders[o].credited + RefundOf(o, cutoff)
    BY <1>1, RefundedFields
  <2> QED BY <1>1, <2>1, <2>2, <2>3
<1>4. Credits'
  BY <1>1, <1>3 DEF CreditInv, Credits
<1>5. SourcesOwed'
  BY <1>1, <1>2, <1>3 DEF CreditInv, SourcesOwed
<1> QED BY <1>4, <1>5 DEF CreditInv

LEMMA QuoteCredit ==
  ASSUME TypeInv, CreditInv, NEW i \in Instances, NEW target \in Plans, buildPlanChangeQuote(i, target)
  PROVE  CreditInv'
<1>1. /\ change'.instance = i /\ change'.items = QuoteItems(i, target)
      /\ orders' = orders /\ Numbers' = Numbers
  BY DEF buildPlanChangeQuote, Numbers
<1>2. /\ \A x \in change'.items : ItemOf(x.source, x)
      /\ \A x, y \in change'.items : x.source = y.source => x = y
  BY <1>1, ItemsQuoted
<1>3. ASSUME NEW x \in change'.items
      PROVE  /\ x.source \in Numbers /\ orders[x.source].instance = i /\ orders[x.source].status = "active"
             /\ x.refund <= orders[x.source].amount /\ orders[x.source].credited = 0
  <2>1. x.source \in Active(i) /\ x.refund <= orders[x.source].amount
    BY <1>1, <1>2 DEF ItemOf
  <2>2. x.source \in Numbers /\ orders[x.source].instance = i /\ orders[x.source].status = "active"
    BY <2>1 DEF Active, OrdersOf
  <2> QED BY <2>1, <2>2 DEF CreditInv, Credits
<1> QED BY <1>1, <1>2, <1>3 DEF CreditInv, Credits, SourcesOwed

LEMMA SettleCredit ==
  ASSUME TypeInv, CreditInv, createPlanChange \/ markPlanChangeBlocked \/ failPlanChange PROVE CreditInv'
<1>1. orders' = orders /\ Numbers' = Numbers
  BY DEF createPlanChange, markPlanChangeBlocked, failPlanChange, Numbers
<1>2. \/ change' = NoChange
      \/ /\ change.status # "none" /\ change'.items = change.items /\ change'.instance = change.instance
  BY StatusType DEF createPlanChange, markPlanChangeBlocked, failPlanChange
<1> QED BY <1>1, <1>2, NoChangeRow DEF CreditInv, Credits, SourcesOwed

\* The source of an item is paid back what the item says.
LEMMA BackOf ==
  ASSUME TypeInv, SourcesOwed, change.status # "none", NEW x \in change.items
  PROVE  Back(x.source) = x.refund
<1> DEFINE S == {y \in change.items : y.source = x.source}
           f == [y \in S |-> y.refund]
<1>1. S = {x}
  BY DEF SourcesOwed
<1>2. x.refund \in Int
  BY ItemFields
<1>3. f[x] = x.refund
  BY <1>1
<1>4. Back(x.source) = SumFunctionOnSet(f, S)
  BY DEF Back
<1> HIDE DEF f, S
<1>5. SumFunctionOnSet(f, {x}) = f[x]
  BY <1>2, <1>3, SumSingleton
<1> QED BY <1>1, <1>3, <1>4, <1>5

LEMMA CompleteCredit == ASSUME TypeInv, RefundedOut, CreditInv, completePlanChange PROVE CreditInv'
<1> DEFINE i == change.instance
<1>1. change.status # "none" /\ i \in Instances /\ ins[i].status = "running" /\ change' = NoChange
  BY CompleteStep DEF InUse
<1>2. ASSUME NEW o \in Sources
      PROVE  /\ o \in Numbers /\ orders'[o].amount = orders[o].amount /\ orders'[o].credited <= orders[o].amount
             /\ orders'[o].status \notin {"deploying", "active"}
  <2>1. PICK x \in change.items : o = x.source
    BY DEF Sources
  <2>2. /\ o \in Numbers /\ orders[o].instance = i /\ orders[o].status # "deploying"
        /\ x.refund <= orders[o].amount
        /\ orders[o].credited = 0 \/ orders[o].status = "refunded"
    BY <1>1, <2>1 DEF CreditInv, SourcesOwed
  <2>3. orders[o].credited = 0
    BY <1>1, <2>2 DEF RefundedOut, Out
  <2>4. Back(o) = x.refund /\ x.refund \in Nat
    BY <1>1, <2>1, BackOf, ItemFields DEF CreditInv
  <2>5. orders'[o] = ExchangedRow(orders[o], Back(o))
    BY <2>2, CompleteFields
  <2>6. /\ orders'[o].amount = orders[o].amount /\ orders'[o].credited = orders[o].credited + Back(o)
        /\ orders'[o].status = IF orders[o].status = "active" THEN "exchanged" ELSE orders[o].status
    BY <2>5, ExchangedFields
  <2> QED BY <2>2, <2>3, <2>4, <2>6
<1>3. ASSUME NEW o \in Numbers' \ Numbers
      PROVE  orders'[o].credited = 0 /\ orders'[o].amount \in Nat
  <2>1. PICK x \in change.items : orders'[o] = Replacement(x)
    BY CompleteFields
  <2>2. Replacement(x).credited = 0 /\ Replacement(x).amount = x.charge /\ x.charge \in Nat
    BY NewFields, ItemFields DEF Replacement
  <2> QED BY <2>1, <2>2
<1>4. ASSUME NEW o \in Numbers, o \notin Sources PROVE orders'[o] = orders[o]
  BY <1>4, CompleteFields
<1>5. Credits'
  <2> SUFFICES ASSUME NEW o \in Numbers'
               PROVE  /\ orders'[o].credited <= orders'[o].amount
                      /\ orders'[o].status \in {"deploying", "active"} => orders'[o].credited = 0
    BY DEF Credits
  <2>1. CASE o \in Sources
    BY <1>2, <2>1
  <2>2. CASE o \in Numbers /\ o \notin Sources
    BY <1>4, <2>2 DEF CreditInv, Credits
  <2>3. CASE o \notin Numbers
    BY <1>3, <2>3
  <2> QED BY <2>1, <2>2, <2>3
<1>6. SourcesOwed'
  BY <1>1, NoChangeRow DEF SourcesOwed
<1> QED BY <1>5, <1>6 DEF CreditInv

LEMMA NextCredit == ASSUME TypeInv, RefundedOut, CreditInv, [Next]_vars PROVE CreditInv'
<1>1. ASSUME NEW i \in Instances, NEW p \in Plans, NEW m \in Months, NEW c \in Codes, purchaseWithWallet(i, p, m, c)
      PROVE  CreditInv'
  <2>1. PICK q \in quoteCommercialBenefit("purchase", i, p, m, c), end \in Nat :
            Added(Len(orders) + 1, NewOrder(i, p, q.amount, now, end, "deploying", q.benefit))
    BY <1>1, PurchaseStep
  <2>2. NewOrder(i, p, q.amount, now, end, "deploying", q.benefit).credited = 0
    BY NewFields
  <2> QED BY <1>1, <2>1, <2>2, AddedCredit DEF purchaseWithWallet
<1>2. ASSUME NEW n \in Numbers, NEW m \in Months, NEW c \in Codes, renewWithWallet(n, m, c) PROVE CreditInv'
  <2> DEFINE i == orders[n].instance
             p == IF ins[i].plan = NoPlan THEN orders[n].plan ELSE ins[i].plan
             base == RenewalBase(i)
  <2>1. PICK q \in quoteCommercialBenefit("renewal", i, p, m, c), end \in Nat :
            Added(Len(orders) + 1, NewOrder(i, p, q.amount, base, end, "active", q.benefit))
    BY <1>2, RenewStep
  <2> HIDE DEF i, p, base
  <2>2. NewOrder(i, p, q.amount, base, end, "active", q.benefit).credited = 0
    BY NewFields
  <2>3. change' = change
    BY <1>2 DEF renewWithWallet
  <2> QED BY <2>1, <2>2, <2>3, AddedCredit
<1>3. ASSUME NEW i \in Instances, DeploymentDone(i) \/ failDeployment(i) \/ ExpireOrders(i) PROVE CreditInv'
  <2>1. \/ Becoming(i, {"deploying"}, "active") \/ Becoming(i, {"deploying"}, "deployment_failed")
        \/ Becoming(i, {"active", "deploying"}, "expired")
    BY <1>3, DoneStep, FailStep, ExpireOrdersStep
  <2>2. change' = change
    BY <1>3 DEF DeploymentDone, failDeployment, ExpireOrders
  <2> QED BY <2>1, <2>2, MovedCredit
<1>4. ASSUME orders' = orders, change' = change PROVE CreditInv'
  BY <1>4 DEF CreditInv, Credits, SourcesOwed, Numbers
<1>5. ASSUME NEW i \in Instances, queueDeploymentRetry(i) \/ ExpireInstance(i) \/ Destroyed(i) PROVE CreditInv'
  BY <1>4, <1>5 DEF queueDeploymentRetry, ExpireInstance, Destroyed
<1> QED BY <1>1, <1>2, <1>3, <1>4, <1>5, Kinds, RefundCredit, QuoteCredit, SettleCredit, CompleteCredit

\* refundOrder, completePlanChange: a refund and the settlement of a change that
\* waited cannot both pay for the same order, so none brings back more than was paid.
THEOREM ReturnCorrect == Spec => []NoDoubleReturn
<1>1. Init => OutInv /\ CreditInv
  BY InitType, InitOut, InitCredit DEF OutInv
<1>2. OutInv /\ CreditInv /\ [Next]_vars => (OutInv /\ CreditInv)'
  BY NextType, NextOut, NextCredit DEF OutInv
<1>3. CreditInv => NoDoubleReturn
  BY DEF CreditInv, Credits, NoDoubleReturn
<1> QED BY <1>1, <1>2, <1>3, PTL DEF Spec

-----------------------------------------------------------------------------
(* A benefit is enjoyed once.                                               *)

Once(b) == Offer[b].audience = "first_paid" \/ Targeted(b)

\* A grant that was redeemed is used, for good.
BenefitInv ==
    \A b \in Programs :
        /\ Targeted(b) /\ Redeemed(b) # 0 => program[b].grant = "used"
        /\ Once(b) => Redeemed(b) <= 1
        /\ LET p == program[b] IN
           p.limits.perUser > 0 => Redeemed(b) <= p.limits.perUser \/ Redeemed(b) = p.saved.own

\* The limits stay, or the redemptions so far are saved with the new ones.
LimitsFollow(b) ==
    \/ program'[b].limits = program[b].limits /\ program'[b].saved = program[b].saved
    \/ program'[b].saved.own = Redeemed(b)

LEMMA RedeemedSame ==
  ASSUME NEW b, Numbers \subseteq Numbers', \A o \in Numbers : orders'[o].benefit = orders[o].benefit,
         \A o \in Numbers' \ Numbers : orders'[o].benefit # b
  PROVE  Redeemed(b)' = Redeemed(b)
<1>1. {o \in Numbers' : orders'[o].benefit = b} = {o \in Numbers : orders[o].benefit = b}
  OBVIOUS
<1> QED BY <1>1 DEF Redeemed

LEMMA RedeemedAdded ==
  ASSUME TypeInv, NEW n, NEW r, Added(n, r), NEW b
  PROVE  Redeemed(b)' = IF r.benefit = b THEN Redeemed(b) + 1 ELSE Redeemed(b)
<1>1. CASE r.benefit = b
  <2>1. {o \in Numbers' : orders'[o].benefit = b} = RedeemedBy(b) \cup {n} /\ n \notin RedeemedBy(b)
    BY <1>1 DEF Added, RedeemedBy
  <2>2. Cardinality(RedeemedBy(b) \cup {n}) = Cardinality(RedeemedBy(b)) + 1
    BY <2>1, RedeemedNat, FS_AddElement
  <2>3. Redeemed(b)' = Cardinality(RedeemedBy(b) \cup {n})
    BY <2>1 DEF Redeemed
  <2> QED BY <1>1, <2>2, <2>3, RedeemedNat
<1>2. CASE r.benefit # b
  BY <1>2, RedeemedSame DEF Added
<1> QED BY <1>1, <1>2

LEMMA InitBenefit == Init => BenefitInv
<1> SUFFICES ASSUME Init, NEW b \in Programs PROVE Redeemed(b) = 0
  BY DEF BenefitInv, Init
<1>1. {o \in Numbers : orders[o].benefit = b} = {}
  BY DEF Init, Numbers
<1> QED BY <1>1, FS_EmptySet DEF Redeemed

\* No order is added for a benefit, and a grant that is used stays so.
LEMMA QuietBenefit ==
  ASSUME BenefitInv, Numbers \subseteq Numbers',
         \A o \in Numbers : orders'[o].benefit = orders[o].benefit,
         \A o \in Numbers' \ Numbers : orders'[o].benefit = NoProgram,
         \A b \in Programs : (program[b].grant = "used" => program'[b].grant = "used") /\ LimitsFollow(b)
  PROVE  BenefitInv'
<1>1. \A b \in Programs : Redeemed(b)' = Redeemed(b)
  BY RedeemedSame, BillingAssumption DEF BillingAssumption
<1> QED BY <1>1 DEF BenefitInv, Once, Targeted, LimitsFollow

\* The terms of a programme let it be redeemed once more.
LEMMA MayRedeem ==
  ASSUME TypeInv, BenefitInv, NEW scope, NEW i, NEW plan \in Plans, NEW months \in Months, NEW list, NEW b \in Programs,
         programEligible(b, scope, i, plan, months, list)
  PROVE  /\ Once(b) => Redeemed(b) = 0
         /\ program[b].limits.perUser > 0 => Redeemed(b) < program[b].limits.perUser
<1>1. Redeemed(b) \in Nat /\ program[b].limits.perUser \in Nat
  BY RedeemedNat DEF TypeInv, ProgramRow, LimitRow
<1>2. program[b].limits.perUser > 0 => Redeemed(b) < program[b].limits.perUser
  BY <1>1 DEF programEligible, WithinLimits
<1>3. Targeted(b) => Redeemed(b) = 0
  <2> SUFFICES ASSUME Targeted(b) PROVE Redeemed(b) = 0
    OBVIOUS
  <2>1. program[b].grant = "available"
    BY DEF programEligible
  <2> QED BY <2>1 DEF BenefitInv
<1>4. ASSUME Offer[b].audience = "first_paid" PROVE Redeemed(b) = 0
  <2>1. ~ PaidBefore(Plans)
    BY <1>4 DEF programEligible, Audience
  <2>2. Numbers = {}
    BY <2>1, OrderFields DEF PaidBefore
  <2>3. {o \in Numbers : orders[o].benefit = b} = {}
    BY <2>2
  <2> QED BY <2>3, FS_EmptySet DEF Redeemed
<1> QED BY <1>2, <1>3, <1>4 DEF Once

\* The grant that a redemption uses, and no other, changes; no limit does.
LEMMA GrantsAfter ==
  ASSUME TypeInv, NEW q, consumeCommercialBenefit(q), NEW b \in Programs
  PROVE  /\ program[b].grant = "used" => program'[b].grant = "used"
         /\ q.benefit = b /\ Targeted(b) => program'[b].grant = "used"
         /\ program'[b].limits = program[b].limits /\ program'[b].saved = program[b].saved
<1>0. program \in [Programs -> ProgramRow]
  BY DEF TypeInv
<1>1. CASE q.benefit = NoProgram
  <2>1. b # NoProgram
    BY BillingAssumption DEF BillingAssumption
  <2> QED BY <1>1, <2>1 DEF consumeCommercialBenefit
<1>2. CASE q.benefit # NoProgram
  <2> DEFINE c == q.benefit
             row == Counted(program[c], q.discount, q.days)
             r == [row EXCEPT !.grant = GrantUsed(c)]
  <2>1. program' = [program EXCEPT ![c] = r]
    BY <1>2 DEF consumeCommercialBenefit
  <2>2. CASE b # c
    <3> HIDE DEF r
    <3> QED BY <1>0, <2>1, <2>2
  <2>3. CASE b = c
    <3>1. program'[b] = r
      <4> HIDE DEF r
      <4> QED BY <1>0, <2>1, <2>3
    <3>2. program[c] = Fields(program[c].status, program[c].code, program[c].grant,
                              program[c].used, program[c].spent, program[c].days,
                              program[c].limits, program[c].saved)
          /\ program[c].used \in Nat /\ program[c].limits \in LimitRow
      BY <1>0, <2>3 DEF ProgramRow, Fields
    <3>3. row = Fields(program[c].status, program[c].code, program[c].grant, program[c].used + 1,
                       program[c].spent + q.discount, program[c].days + q.days,
                       program[c].limits, program[c].saved)
      BY <3>2, CountedFields DEF Row
    <3> HIDE DEF row
    <3>4. r.grant = GrantUsed(c) /\ r.limits = program[c].limits /\ r.saved = program[c].saved
      BY <3>3 DEF Fields
    <3> HIDE DEF r
    <3> QED BY <2>3, <3>1, <3>4 DEF GrantUsed
  <2> QED BY <2>2, <2>3
<1> QED BY <1>1, <1>2

\* A purchase or a renewal at what a quote answers.
LEMMA RedeemedBenefit ==
  ASSUME TypeInv, BenefitInv, NEW scope, NEW i, NEW plan \in Plans, NEW months \in Months, NEW code \in Codes,
         NEW q \in quoteCommercialBenefit(scope, i, plan, months, code),
         consumeCommercialBenefit(q), NEW n, NEW r, Added(n, r), r.benefit = q.benefit
  PROVE  BenefitInv'
<1> SUFFICES ASSUME NEW b \in Programs
             PROVE  /\ Targeted(b) /\ Redeemed(b)' # 0 => program'[b].grant = "used"
                    /\ Once(b) => Redeemed(b)' <= 1
                    /\ LET p == program[b] IN
                       p.limits.perUser > 0 => Redeemed(b)' <= p.limits.perUser \/ Redeemed(b)' = p.saved.own
  BY GrantsAfter DEF BenefitInv, Once, Targeted
<1>0. Redeemed(b) \in Nat /\ program[b].limits.perUser \in Nat
  BY RedeemedNat DEF TypeInv, ProgramRow, LimitRow
<1>1. Redeemed(b)' = IF q.benefit = b THEN Redeemed(b) + 1 ELSE Redeemed(b)
  BY RedeemedAdded
<1>2. CASE q.benefit = b
  <2>1. b # NoProgram
    BY BillingAssumption DEF BillingAssumption
  <2>2. programEligible(b, scope, i, plan, months, tierPrice(plan, months))
    BY <1>2, <2>1, QuoteRow
  <2>3. /\ Once(b) => Redeemed(b) = 0
        /\ program[b].limits.perUser > 0 => Redeemed(b) < program[b].limits.perUser
    BY <2>2, MayRedeem
  <2>4. Targeted(b) => program'[b].grant = "used"
    BY <1>2, GrantsAfter
  <2> QED BY <1>0, <1>1, <1>2, <2>3, <2>4
<1>3. CASE q.benefit # b
  <2>1. program[b].grant = "used" => program'[b].grant = "used"
    BY GrantsAfter
  <2> QED BY <1>1, <1>3, <2>1 DEF BenefitInv
<1> QED BY <1>2, <1>3

\* What administrators, the loop and other customers write to a programme.
LEMMA GrantsKept ==
  ASSUME TypeInv, NEW c \in Programs,
         \/ OtherRedeems(c) \/ adminSaveBenefitProgram(c) \/ syncBenefitProgramStates(c)
         \/ adminGrantBenefit(c) \/ adminVoidBenefitGrant(c)
  PROVE  \A b \in Programs : (program[b].grant = "used" => program'[b].grant = "used") /\ LimitsFollow(b)
<1> DEFINE old == program[c]
<1>0. program \in [Programs -> ProgramRow] /\ Row(old)
  BY DEF TypeInv, ProgramRow, Fields, Row
<1> SUFFICES \E r : /\ program' = [program EXCEPT ![c] = r]
                    /\ old.grant = "used" => r.grant = "used"
                    /\ (r.limits = old.limits /\ r.saved = old.saved) \/ r.saved.own = Redeemed(c)
  BY <1>0 DEF LimitsFollow
<1>1. CASE OtherRedeems(c)
  <2>1. PICK d, x : program' = [program EXCEPT ![c] = Counted(old, d, x)]
    BY <1>1 DEF OtherRedeems
  <2>2. /\ Counted(old, d, x).grant = old.grant /\ Counted(old, d, x).limits = old.limits
        /\ Counted(old, d, x).saved = old.saved
    BY <1>0, CountedFields, FieldsOf
  <2> QED BY <2>1, <2>2
<1>2. CASE adminSaveBenefitProgram(c)
  <2>1. PICK s, l, x : program' = [program EXCEPT ![c] = SavedRow(c, s, x, l)]
    BY <1>2 DEF adminSaveBenefitProgram
  <2>2. SavedRow(c, s, x, l).grant = old.grant /\ SavedRow(c, s, x, l).saved.own = Redeemed(c)
    BY <1>0 DEF SavedRow, Row, Fields
  <2> QED BY <2>1, <2>2
<1>3. CASE syncBenefitProgramStates(c)
  <2>1. program' = [program EXCEPT ![c] = [old EXCEPT !.code = FALSE]]
    BY <1>3 DEF syncBenefitProgramStates
  <2> DEFINE r == [old EXCEPT !.code = FALSE]
  <2>2. r.grant = old.grant /\ r.limits = old.limits /\ r.saved = old.saved
    BY <1>0 DEF Row, Fields
  <2> QED BY <2>1, <2>2
<1>4. CASE adminGrantBenefit(c) \/ adminVoidBenefitGrant(c)
  <2>1. PICK g : program' = [program EXCEPT ![c] = [old EXCEPT !.grant = g]]
    BY <1>4 DEF adminGrantBenefit, adminVoidBenefitGrant
  <2> DEFINE r == [old EXCEPT !.grant = g]
  <2>2. old.grant # "used" /\ r.limits = old.limits /\ r.saved = old.saved
    BY <1>0, <1>4 DEF adminGrantBenefit, adminVoidBenefitGrant, Row, Fields
  <2> QED BY <2>1, <2>2
<1> QED BY <1>1, <1>2, <1>3, <1>4

LEMMA NextBenefit == ASSUME TypeInv, BenefitInv, [Next]_vars PROVE BenefitInv'
<1>1. ASSUME NEW i \in Instances, NEW p \in Plans, NEW m \in Months, NEW c \in Codes, purchaseWithWallet(i, p, m, c)
      PROVE  BenefitInv'
  <2>1. PICK q \in quoteCommercialBenefit("purchase", i, p, m, c), end \in Nat :
            /\ Added(Len(orders) + 1, NewOrder(i, p, q.amount, now, end, "deploying", q.benefit))
            /\ consumeCommercialBenefit(q)
    BY <1>1, PurchaseStep
  <2>2. NewOrder(i, p, q.amount, now, end, "deploying", q.benefit).benefit = q.benefit
    BY NewFields
  <2> QED BY <2>1, <2>2, RedeemedBenefit
<1>2. ASSUME NEW n \in Numbers, NEW m \in Months, NEW c \in Codes, renewWithWallet(n, m, c) PROVE BenefitInv'
  <2> DEFINE i == orders[n].instance
             p == IF ins[i].plan = NoPlan THEN orders[n].plan ELSE ins[i].plan
             base == RenewalBase(i)
  <2>0. p \in Plans
    BY <1>2, RenewStep
  <2>1. PICK q \in quoteCommercialBenefit("renewal", i, p, m, c), end \in Nat :
            /\ Added(Len(orders) + 1, NewOrder(i, p, q.amount, base, end, "active", q.benefit))
            /\ consumeCommercialBenefit(q)
    BY <1>2, RenewStep
  <2> HIDE DEF i, p, base
  <2>2. NewOrder(i, p, q.amount, base, end, "active", q.benefit).benefit = q.benefit
    BY NewFields
  <2> QED BY <2>0, <2>1, <2>2, RedeemedBenefit
<1>3. ASSUME program' = program, Numbers \subseteq Numbers',
             \A o \in Numbers : orders'[o].benefit = orders[o].benefit,
             \A o \in Numbers' \ Numbers : orders'[o].benefit = NoProgram
      PROVE  BenefitInv'
  BY <1>3, QuietBenefit DEF LimitsFollow
<1>4. ASSUME NEW i \in Instances, DeploymentDone(i) \/ failDeployment(i) \/ ExpireOrders(i) PROVE BenefitInv'
  <2>1. \/ Becoming(i, {"deploying"}, "active") \/ Becoming(i, {"deploying"}, "deployment_failed")
        \/ Becoming(i, {"active", "deploying"}, "expired")
    BY <1>4, DoneStep, FailStep, ExpireOrdersStep
  <2>2. Numbers' = Numbers /\ \A o \in Numbers : orders'[o].benefit = orders[o].benefit
    BY <2>1, BecomingFields DEF Becoming, Moved
  <2>3. program' = program
    BY <1>4 DEF DeploymentDone, failDeployment, ExpireOrders
  <2> QED BY <1>3, <2>2, <2>3
<1>5. ASSUME NEW i \in Instances, refundOrder(i) PROVE BenefitInv'
  <2>1. Numbers' = Numbers
    BY <1>5, RefundStep
  <2>2. ASSUME NEW o \in Numbers PROVE orders'[o].benefit = orders[o].benefit
    <3>1. CASE o \in Active(i)
      <4>1. \E fen, end : orders'[o] = Refunded(orders[o], fen, end)
        BY <1>5, <3>1, RefundStep
      <4> QED BY <4>1, RefundedFields
    <3>2. CASE o \notin Active(i)
      BY <1>5, <3>2, RefundStep
    <3> QED BY <3>1, <3>2
  <2>3. program' = program
    BY <1>5 DEF refundOrder
  <2> QED BY <1>3, <2>1, <2>2, <2>3
<1>6. ASSUME completePlanChange PROVE BenefitInv'
  <2>1. Numbers \subseteq Numbers'
    BY <1>6, CompleteFields
  <2>2. ASSUME NEW o \in Numbers PROVE orders'[o].benefit = orders[o].benefit
    <3>1. CASE o \in Sources
      <4>1. orders'[o] = ExchangedRow(orders[o], Back(o))
        BY <1>6, <3>1, CompleteFields
      <4> QED BY <4>1, ExchangedFields
    <3>2. CASE o \notin Sources
      BY <1>6, <3>2, CompleteFields
    <3> QED BY <3>1, <3>2
  <2>3. ASSUME NEW o \in Numbers' \ Numbers PROVE orders'[o].benefit = NoProgram
    <3>1. PICK x \in change.items : orders'[o] = Replacement(x)
      BY <1>6, CompleteFields
    <3> QED BY <3>1, NewFields DEF Replacement
  <2>4. program' = program
    BY <1>6 DEF completePlanChange
  <2> QED BY <1>3, <2>1, <2>2, <2>3, <2>4
<1>7. ASSUME orders' = orders, program' = program PROVE BenefitInv'
  BY <1>3, <1>7 DEF Numbers
<1>8. ASSUME NEW b \in Programs,
             \/ OtherRedeems(b) \/ adminSaveBenefitProgram(b) \/ syncBenefitProgramStates(b)
             \/ adminGrantBenefit(b) \/ adminVoidBenefitGrant(b)
      PROVE  BenefitInv'
  <2>1. orders' = orders /\ Numbers' = Numbers
    BY <1>8 DEF OtherRedeems, adminSaveBenefitProgram, syncBenefitProgramStates, adminGrantBenefit,
       adminVoidBenefitGrant, Numbers
  <2>2. \A c \in Programs : (program[c].grant = "used" => program'[c].grant = "used") /\ LimitsFollow(c)
    BY <1>8, GrantsKept
  <2> QED BY <2>1, <2>2, QuietBenefit
<1>9. CASE UNCHANGED vars
  BY <1>7, <1>9 DEF vars
<1>10. CASE Customer
  BY <1>1, <1>2, <1>5, <1>7, <1>10 DEF Customer, queueDeploymentRetry, Destroyed, buildPlanChangeQuote, createPlanChange
<1>11. CASE Platform
  BY <1>4, <1>6, <1>7, <1>8, <1>11 DEF Platform, ExpiredSeen, ExpireInstance, markPlanChangeBlocked, failPlanChange
<1>12. CASE Others
  BY <1>7, <1>8, <1>12 DEF Others, adjustWallet
<1>13. CASE Tick
  BY <1>7, <1>13 DEF Tick
<1> QED BY <1>9, <1>10, <1>11, <1>12, <1>13 DEF Next

\* consumeCommercialBenefitTx: whatever is refunded, voided, paused or redeemed
\* by others in between, a benefit for the first order and a grant are enjoyed
\* once, any other as often as its limit in force for a customer allows.
THEOREM BenefitCorrect == Spec => []BenefitOnce
<1>1. Init => TypeInv /\ BenefitInv
  BY InitType, InitBenefit
<1>2. TypeInv /\ BenefitInv /\ [Next]_vars => (TypeInv /\ BenefitInv)'
  BY NextType, NextBenefit
<1>3. BenefitInv => BenefitOnce
  BY DEF BenefitInv, BenefitOnce, Once
<1> QED BY <1>1, <1>2, <1>3, PTL DEF Spec

=============================================================================
