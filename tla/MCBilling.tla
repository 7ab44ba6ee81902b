------------------------------ MODULE MCBilling ------------------------------
(***************************************************************************)
(* An instance of Billing for TLC: two plans, terms of one and two months  *)
(* of two days, a code for half the price of the first order, and a free   *)
(* day for the renewal of customers it was granted to, and one fen off for *)
(* one renewal of each customer.                                           *)
(***************************************************************************)
EXTENDS Billing, TLC

CONSTANTS small, large, first, back, loyal, nobody, noplan

MCMonthly == (small :> 4) @@ (large :> 10)
MCTierBps == (1 :> 10000) @@ (2 :> 8000)

NoLimits == [perUser |-> 0, total |-> 0, budget |-> 0, days |-> 0]

First == [trigger |-> "promo_code", scope |-> "purchase", type |-> "percent_discount", value |-> 5000,
             audience |-> "first_paid", plans |-> {}, months |-> {}, minimum |-> 0, ends |-> MaxNow,
             priority |-> 2, limits |-> [NoLimits EXCEPT !.budget = 5]]

Back == [First EXCEPT !.trigger = "targeted", !.scope = "renewal", !.type = "bonus_days",
                         !.value = 1, !.audience = "expiring", !.priority = 1,
                         !.limits = [NoLimits EXCEPT !.total = 1, !.days = 2]]

Loyal == [First EXCEPT !.trigger = "automatic", !.scope = "renewal", !.type = "fixed_discount", !.value = 1,
                          !.audience = "all", !.plans = {small}, !.months = {1}, !.priority = 0,
                          !.limits = [NoLimits EXCEPT !.perUser = 1]]

MCOffer == (first :> First) @@ (back :> Back) @@ (loyal :> Loyal)
MCLimits == [b \in {first, back, loyal} |-> {[NoLimits EXCEPT !.budget = 2, !.total = 2, !.perUser = 2]}]
=============================================================================
