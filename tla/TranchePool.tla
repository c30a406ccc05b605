------------------------------ MODULE TranchePool ------------------------------
(***************************************************************************)
(* One debt pool of finance/tokenization.py: its lifecycle, its two        *)
(* tranches, the investors' positions, and the daily epoch that runs the   *)
(* waterfall, revalues the tranches, pays the yields out and redeems.      *)
(* Every call runs to its end before the next one starts.                  *)
(*                                                                         *)
(* Money is counted in units so small that a token costs Par of them; a    *)
(* division rounds down to a whole unit (the code rounds to 28 digits).    *)
(***************************************************************************)
EXTENDS Integers, Sequences, FiniteSets, Functions

CONSTANTS Assets, Investors,
          Face, Current,     \* face_value and current_value of each asset
          Par,               \* what a token costs
          DropPercent,       \* drop_ratio
          ReservePercent,    \* reserve_ratio
          MinSize, MaxSize,  \* min_pool_size, max_pool_size
          TargetRate,        \* the interest a token of each tranche starts with
          Lots,              \* the numbers of tokens bought or redeemed at once
          Marks,             \* the values an asset may be marked to
          Inflows,           \* the collections of an epoch
          MaxEpoch,          \* bound: epochs that are run
          MaxPending         \* redemptions an investor has pending per tranche

Tranche == {"DROP", "TIN"}

ASSUME PoolAssumption ==
  /\ IsFiniteSet(Assets) /\ IsFiniteSet(Investors)
  /\ Face \in [Assets -> Nat] /\ Current \in [Assets -> Nat]
  /\ Par \in Nat \ {0} /\ DropPercent \in 0..100 /\ ReservePercent \in 0..100
  /\ MinSize \in Nat /\ MaxSize \in Nat
  /\ TargetRate \in [Tranche -> Nat]
  /\ Lots \subseteq Nat \ {0} /\ Marks \subseteq Nat /\ Inflows \subseteq Nat
  /\ MaxEpoch \in Nat /\ MaxPending \in Nat

VARIABLES
  pool,        \* status, assets, reserve_balance and value, which is the
               \* total_current_value its metrics were last given
  worth,       \* worth[x]: the current_value of asset x
  tranche,     \* tranche[t]: supply, circulating, nav and rate per token
  holding,     \* holding[t][i]: tokens of investor i, and those to be redeemed
  earned,      \* earned[i]: total_yield_earned
  queue,       \* queue[t]: the pending redemption requests, oldest first
  waterfall    \* the last distribution

vars == <<pool, worth, tranche, holding, earned, queue, waterfall>>

Holding   == [tokens: Int, pending: Int]
Request   == [investor: Investors, amount: Lots]
NoRate    == [supply |-> 0, circulating |-> 0, nav |-> Par, rate |-> 0]
NoFall    == [epoch |-> 0, reserve |-> 0, interest |-> [t \in Tranche |-> 0],
              shortfall |-> [t \in Tranche |-> 0]]

TypeOK ==
  /\ pool \in [status: {"open", "closed", "active"}, assets: SUBSET Assets,
               reserve: Nat, value: Nat, tranched: BOOLEAN]
  /\ worth \in [Assets -> Nat]
  /\ tranche \in [Tranche -> [supply: Nat, circulating: Int, nav: Nat, rate: Nat]]
  /\ holding \in [Tranche -> [Investors -> Holding]]
  /\ earned \in [Investors -> Nat]
  /\ queue \in [Tranche -> Seq(Request)]
  /\ waterfall.epoch \in 0..MaxEpoch

Init ==
  /\ pool = [status |-> "open", assets |-> {}, reserve |-> 0, value |-> 0,
             tranched |-> FALSE]
  /\ worth = Current
  /\ tranche = [t \in Tranche |-> NoRate]
  /\ holding = [t \in Tranche |-> [i \in Investors |-> [tokens |-> 0, pending |-> 0]]]
  /\ earned = [i \in Investors |-> 0]
  /\ queue = [t \in Tranche |-> <<>>]
  /\ waterfall = NoFall

TotalFace == SumFunctionOnSet(Face, pool.assets)

(* value_asset: an asset is marked to a new value.  The pool's metrics do  *)
(* not follow until they are calculated again.                             *)
ValueAsset(x, v) ==
  /\ worth' = [worth EXCEPT ![x] = v]
  /\ UNCHANGED <<pool, tranche, holding, earned, queue, waterfall>>

(* _update_pool_metrics, which keeps the old metrics of an empty pool.     *)
Measured(p) == [p EXCEPT !.value = IF p.assets = {} THEN @ ELSE SumFunctionOnSet(worth, p.assets)]

CalculatePoolMetrics ==
  /\ pool' = Measured(pool)
  /\ UNCHANGED <<worth, tranche, holding, earned, queue, waterfall>>

(* A token that is in a pool is locked, so it cannot be added again.       *)
AddAssetToPool(x) ==
  /\ pool.status = "open"
  /\ x \notin pool.assets
  /\ TotalFace + Face[x] <= MaxSize
  /\ pool' = Measured([pool EXCEPT !.assets = @ \union {x}])
  /\ UNCHANGED <<worth, tranche, holding, earned, queue, waterfall>>

ClosePool ==
  /\ pool.status = "open"
  /\ TotalFace >= MinSize
  /\ pool' = Measured([pool EXCEPT !.status = "closed"])
  /\ UNCHANGED <<worth, tranche, holding, earned, queue, waterfall>>

ActivatePool ==
  /\ pool.status = "closed"
  /\ pool' = [pool EXCEPT !.status = "active"]
  /\ UNCHANGED <<worth, tranche, holding, earned, queue, waterfall>>

(* The platform creates the tranches of a pool once.                       *)
CreateTranches ==
  /\ pool.status \in {"closed", "active"}
  /\ ~pool.tranched
  /\ LET Supply(percent) == (pool.value * percent) \div (100 * Par)
         New(t, percent) == [supply |-> Supply(percent), circulating |-> 0,
                             nav |-> Par, rate |-> TargetRate[t]]
     IN  tranche' = [t \in Tranche |->
           New(t, IF t = "DROP" THEN DropPercent ELSE 100 - DropPercent)]
  /\ pool' = [pool EXCEPT !.tranched = TRUE]
  /\ UNCHANGED <<worth, holding, earned, queue, waterfall>>

(* Mutant: more tokens are sold than were created.                         *)
SubscribeUnlimited(i, t, n) ==
  /\ pool.tranched
  /\ holding' = [holding EXCEPT ![t][i].tokens = @ + n]
  /\ tranche' = [tranche EXCEPT ![t].circulating = @ + n]
  /\ UNCHANGED <<pool, worth, earned, queue, waterfall>>

Subscribe(i, t, n) ==
  /\ pool.tranched
  /\ n <= tranche[t].supply - tranche[t].circulating
  /\ holding' = [holding EXCEPT ![t][i].tokens = @ + n]
  /\ tranche' = [tranche EXCEPT ![t].circulating = @ + n]
  /\ UNCHANGED <<pool, worth, earned, queue, waterfall>>

PendingOf(i, t) == {k \in DOMAIN queue[t]: queue[t][k].investor = i}

(* The balance check looks at the tokens held, not at those already        *)
(* promised to earlier requests.                                           *)
RequestRedemption(i, t, n) ==
  /\ Cardinality(PendingOf(i, t)) < MaxPending
  /\ n <= holding[t][i].tokens
  /\ queue' = [queue EXCEPT ![t] = Append(@, [investor |-> i, amount |-> n])]
  /\ holding' = [holding EXCEPT ![t][i].pending = @ + n]
  /\ UNCHANGED <<pool, worth, tranche, earned, waterfall>>

Least(x, y) == IF x <= y THEN x ELSE y
Excess(x, y) == IF x > y THEN x - y ELSE 0

(* Mutants: TIN first; TIN from what there was before DROP had its share.  *)
InterestJuniorFirst(available, due) ==
  LET tin == Least(available, due["TIN"])
  IN  [t \in Tranche |-> IF t = "TIN" THEN tin ELSE Least(available - tin, due["DROP"])]
InterestTwice(available, due) == [t \in Tranche |-> Least(available, due[t])]

(* The interest paid: DROP's due first, TIN's from what is left.           *)
Interest(available, due) ==
  LET drop == Least(available, due["DROP"])
  IN  [t \in Tranche |-> IF t = "DROP" THEN drop ELSE Least(available - drop, due["TIN"])]

(* execute_waterfall: interest for DROP, then for TIN, then the reserve up *)
(* to its target.  What is left then is kept in no account.                *)
Waterfall(collections) ==
  LET due == [t \in Tranche |-> tranche[t].circulating * tranche[t].rate]
      available == collections - collections \div 100
      paid == Interest(available, due)
      left == available - paid["DROP"] - paid["TIN"]
      target == (TotalFace * ReservePercent) \div 100
      reserve == Least(left, Excess(target, pool.reserve))
  IN [epoch |-> waterfall.epoch + 1, reserve |-> reserve, interest |-> paid,
      shortfall |-> [t \in Tranche |-> due[t] - paid[t]]]

(* _update_tranche_yields: what was paid becomes the rate of the tranche.  *)
NewRate(t, w) == IF tranche[t].circulating > 0
                 THEN w.interest[t] \div tranche[t].circulating
                 ELSE tranche[t].rate

(* calculate_nav: DROP's claim first, TIN has what is left.                *)
DropNav(assets) == Least(tranche["DROP"].circulating * tranche["DROP"].nav, assets)
NavPerToken(t, assets) ==
  LET value == IF t = "DROP" THEN DropNav(assets)
                             ELSE Excess(assets, DropNav(assets))
  IN  IF tranche[t].circulating > 0 THEN value \div tranche[t].circulating ELSE Par

(* Mutant: each share is rounded up.                                       *)
YieldRoundedUp(i, w) ==
  LET Share(t) ==
        IF tranche[t].circulating > 0 /\ holding[t][i].tokens > 0
        THEN (holding[t][i].tokens * w.interest[t] + tranche[t].circulating - 1)
               \div tranche[t].circulating
        ELSE 0
  IN  Share("DROP") + Share("TIN")

(* distribute_yield: by the share of the tranche's circulating tokens.     *)
YieldOf(i, w) ==
  LET Share(t) == IF tranche[t].circulating > 0 /\ holding[t][i].tokens > 0
                  THEN (holding[t][i].tokens * w.interest[t]) \div tranche[t].circulating
                  ELSE 0
  IN  Share("DROP") + Share("TIN")

(* Mutant: the tokens stay marked as pending.                              *)
ServedStillPending(h, n) == [h EXCEPT !.tokens = @ - n]
Served(h, n) == [tokens |-> h.tokens - n, pending |-> h.pending - n]

(* process_redemptions for one tranche: oldest first, each in full or not  *)
(* at all, from a cash figure that is counted down.                        *)
Serve(s, r, nav) ==
  IF r.amount * nav <= s.cash
  THEN [s EXCEPT !.cash = @ - r.amount * nav,
                 !.held[r.investor] = Served(@, r.amount),
                 !.tokens = @ + r.amount]
  ELSE [s EXCEPT !.waiting = Append(@, r)]

Redeem(t, nav, cash) ==
  LET Start == [cash |-> cash, held |-> holding[t], waiting |-> <<>>, tokens |-> 0]
      after[k \in 0..Len(queue[t])] ==
        IF k = 0 THEN Start ELSE Serve(after[k - 1], queue[t][k], nav)
  IN  after[Len(queue[t])]

(* run_epoch: waterfall, NAV, yields, redemptions.  The redemptions are    *)
(* limited by the reserve balance but not taken out of it.                 *)
RunEpoch(collections) ==
  LET w == Waterfall(collections)
      reserve == pool.reserve + w.reserve
      nav == [t \in Tranche |-> NavPerToken(t, pool.value + reserve)]
      drop == Redeem("DROP", nav["DROP"], reserve)
      tin == Redeem("TIN", nav["TIN"], drop.cash)
      redeemed == [t \in Tranche |-> IF t = "DROP" THEN drop ELSE tin]
  IN /\ pool.tranched
     /\ waterfall.epoch < MaxEpoch
     /\ waterfall' = w
     /\ pool' = [pool EXCEPT !.reserve = reserve]
     /\ tranche' = [t \in Tranche |->
          [tranche[t] EXCEPT !.rate = NewRate(t, w), !.nav = nav[t],
                             !.circulating = @ - redeemed[t].tokens]]
     /\ holding' = [t \in Tranche |-> redeemed[t].held]
     /\ queue' = [t \in Tranche |-> redeemed[t].waiting]
     /\ earned' = [i \in Investors |-> earned[i] + YieldOf(i, w)]
     /\ UNCHANGED worth

Next ==
  \/ \E x \in Assets: AddAssetToPool(x)
  \/ \E x \in Assets, v \in Marks: ValueAsset(x, v)
  \/ CalculatePoolMetrics
  \/ ClosePool
  \/ ActivatePool
  \/ CreateTranches
  \/ \E i \in Investors, t \in Tranche, n \in Lots:
       Subscribe(i, t, n) \/ RequestRedemption(i, t, n)
  \/ \E collections \in Inflows: RunEpoch(collections)

Spec == Init /\ [][Next]_vars

-------------------------------------------------------------------------------
TokensHeld(t) == SumFunctionOnSet([i \in Investors |-> holding[t][i].tokens], Investors)

(* The tokens of a tranche are those its investors hold, and never more    *)
(* than were created (subscribe 1902-1907, process_redemptions 2025).      *)
HoldingsMatchSupply ==
  \A t \in Tranche: /\ tranche[t].circulating = TokensHeld(t)
                    /\ tranche[t].circulating <= tranche[t].supply

(* What a position has pending is what its requests in the queue ask for,  *)
(* so no request is served twice and none is lost by a partial epoch.      *)
PendingMatchesQueue ==
  \A t \in Tranche, i \in Investors:
    holding[t][i].pending =
      SumFunctionOnSet([k \in DOMAIN queue[t] |-> queue[t][k].amount], PendingOf(i, t))

(* distribute_yield hands out no more than the waterfall allotted to the   *)
(* tranches in that epoch.                                                 *)
YieldWithinInterest ==
  [][waterfall' # waterfall =>
       SumFunctionOnSet([i \in Investors |-> earned'[i] - earned[i]], Investors)
         <= waterfall'.interest["DROP"] + waterfall'.interest["TIN"]]_vars

(* DROP is "protected by TIN" (tokenization.py:407): a revaluation lowers  *)
(* DROP only when the TIN in circulation is worth nothing, and TIN gets no *)
(* interest while DROP's is short.                                         *)
DropProtectedByTin ==
  [][waterfall' # waterfall =>
       /\ /\ tranche'["DROP"].nav < tranche["DROP"].nav
          /\ tranche["DROP"].circulating > 0
          /\ tranche["TIN"].circulating > 0
          => tranche'["TIN"].nav = 0
       /\ waterfall'.shortfall["DROP"] > 0 => waterfall'.interest["TIN"] = 0]_vars

===============================================================================
