----------------------------- MODULE OrderIntake -----------------------------
(***************************************************************************)
(* From what a strategy writes to what the escrow has to cover: the        *)
(* Commit answer is parsed and validated order by order                    *)
(* (crates/strategy/src/convert.rs), the accepted orders are matched in    *)
(* one or several fills, and every fill reserves its outflow in the        *)
(* escrow tracker while settlements of earlier batches end.  So does every *)
(* match of two other NFTs of the pool, which is taken for a sale.         *)
(*                                                                         *)
(* Amounts are fixed-point numbers in words of a machine: a u64 is         *)
(* 0 .. Word - 1, `as u64` and an addition in the release build wrap.      *)
(* The decimal system has base Base (10 in the code).                      *)
(***************************************************************************)
EXTENDS Integers, Sequences, Bags, FiniteSetsExt

CONSTANTS
    Base, Word,
    PriceDec,          \* decimals of a price (8)
    Token,
    Decimals,          \* token_decimals
    Market,            \* configured pairs: <<base token, quote token>>
    Unlisted,          \* a pair of tokens that is not configured
    MinQuantity,       \* min_quantity of the markets
    CommitsPerBatch,
    Texts,             \* decimal numbers a strategy may write
    Balances,          \* balances the tracker may start with
    OtherFills,        \* what a match of two other NFTs may fill
    MaxBatches,
    MaxOthers          \* bound on such matches that reserve a token in a batch

(* 10.pow(n): one, times the base n times. *)
Pow[n \in Nat] == IF n = 0 THEN 1 ELSE Base * Pow[n - 1]

ASSUME IntakeAssumption ==
    /\ Base \in Nat \ {0, 1} /\ Word \in Nat \ {0} /\ PriceDec \in Nat
    /\ Decimals \in [Token -> Nat]
    /\ Market \subseteq Token \X Token /\ Unlisted \in (Token \X Token) \ Market
    /\ \A p \in Market \cup {Unlisted} : Decimals[p[2]] <= Decimals[p[1]] + PriceDec
    /\ MinQuantity \in Nat /\ CommitsPerBatch \in Nat \ {0} /\ MaxBatches \in Nat
    /\ Texts \subseteq [digits : BOOLEAN, int : Nat, frac : Nat, places : Nat]
    /\ \A x \in Texts : x.frac \in 0 .. Pow[x.places] - 1
    /\ Balances \subseteq [Token -> 0 .. Word - 1]
    /\ OtherFills \subseteq [pair : Market, quantity : 1 .. Word - 1, price : 0 .. Word - 1]
    /\ MaxOthers \in Nat

VARIABLES
    stage,        \* "idle", "validate" or "match"
    batches,      \* batches begun
    taken,        \* orders of the Commit answer looked at
    projected_balances,    \* ctx.projected_balances
    cumulative_outflows,
    orders,       \* accepted orders of the batch
    confirmed,    \* the tracker's confirmed balances
    pending,      \* a bag: outflow and inflow of the fills whose settlement is not known
    refused,      \* tokens in which a fill of this batch could not be reserved
    others,       \* others[t]: matches of others that reserved t in this batch
    wrapped       \* an amount of this batch did not fit its word

intakeVars == <<stage, batches, taken, projected_balances, cumulative_outflows, orders, confirmed, pending,
          refused, others, wrapped>>

(* A price or a quantity as text: not a number, or digits before the point and
   `places` digits after it, which make up the number `frac`. *)
NotANumber == [digits |-> FALSE, int |-> 0, frac |-> 0, places |-> 0]

OrderSpecs == [pair : Market \cup {Unlisted}, side : {"buy", "sell", "other"},
               price : Texts \cup {NotANumber}, quantity : Texts \cup {NotANumber}]

(* An accepted order, with the text it came from and the quantity not filled yet. *)
Orders == [spec : OrderSpecs, price : 0 .. Word - 1, quantity : 0 .. Word - 1, left : 0 .. Word - 1]

Fills == [out_token : Token, out : 0 .. Word - 1, in_token : Token, in : 0 .. Word - 1]

IntakeTypeOK ==
    /\ stage \in {"idle", "validate", "match"}
    /\ batches \in 0 .. MaxBatches
    /\ taken \in 0 .. CommitsPerBatch
    /\ projected_balances \in [Token -> Nat]
    /\ cumulative_outflows \in [Token -> 0 .. Word - 1]
    /\ orders \in Seq(Orders) /\ Len(orders) <= CommitsPerBatch
    /\ confirmed \in [Token -> Nat]
    /\ IsABag(pending) /\ BagToSet(pending) \subseteq Fills
    /\ refused \subseteq Token /\ others \in [Token -> 0 .. MaxOthers] /\ wrapped \in BOOLEAN

IntakeInit ==
    /\ stage = "idle" /\ batches = 0 /\ taken = 0 /\ orders = <<>>
    /\ confirmed \in Balances
    /\ pending = EmptyBag /\ refused = {} /\ others = [t \in Token |-> 0] /\ wrapped = FALSE
    /\ projected_balances = [t \in Token |-> 0] /\ cumulative_outflows = [t \in Token |-> 0]

-----------------------------------------------------------------------------
(***************************************************************************)
(* Conversion.                                                             *)
(***************************************************************************)

Error == -1

FitsWord(n) == IF n < Word THEN n ELSE Error

(* Mutant: the number is not compared with the largest u64. *)
AnyRange(x, target_decimals) ==
    IF ~x.digits \/ (target_decimals = 0 /\ x.places > 0) THEN Error
    ELSE x.int * Pow[target_decimals]
         + (IF x.places <= target_decimals THEN x.frac * Pow[target_decimals - x.places]
            ELSE x.frac \div Pow[x.places - target_decimals])

(* Mutant: digits too many round the number up. *)
RoundsUp(x, target_decimals) ==
    IF ~x.digits \/ (target_decimals = 0 /\ x.places > 0) THEN Error
    ELSE FitsWord(x.int * Pow[target_decimals]
         + (IF x.places <= target_decimals THEN x.frac * Pow[target_decimals - x.places]
            ELSE 1 + x.frac \div Pow[x.places - target_decimals]))

(* Missing digits are zeros, digits too many are cut off; with no decimals at
   all a fraction cannot be parsed. *)
parse_decimal_to_fixed(x, target_decimals) ==
    IF ~x.digits \/ (target_decimals = 0 /\ x.places > 0) THEN Error
    ELSE FitsWord(x.int * Pow[target_decimals]
         + (IF x.places <= target_decimals THEN x.frac * Pow[target_decimals - x.places]
            ELSE x.frac \div Pow[x.places - target_decimals]))

(* Price and quantity, each a word or an error. *)
convert_order(spec) ==
    [price    |-> parse_decimal_to_fixed(spec.price, PriceDec),
     quantity |-> parse_decimal_to_fixed(spec.quantity, Decimals[spec.pair[1]])]

Converts(spec) ==
    /\ spec.side \in {"buy", "sell"}
    /\ convert_order(spec).price # Error
    /\ convert_order(spec).quantity # Error

Divisor(pair) == Pow[Decimals[pair[1]] + PriceDec - Decimals[pair[2]]]

(* The value of a quantity in the quote token; 128 bits hold the product. *)
Value(pair, quantity, price) == (quantity * price) \div Divisor(pair)

OutflowToken(spec) == IF spec.side = "buy" THEN spec.pair[2] ELSE spec.pair[1]

InflowToken(spec) == IF spec.side = "buy" THEN spec.pair[1] ELSE spec.pair[2]

(* What an order may cost at most, before `as u64`. *)
Outflow(spec, quantity, price) ==
    IF spec.side = "buy" THEN Value(spec.pair, quantity, price) ELSE quantity

Inflow(spec, quantity, price) ==
    IF spec.side = "buy" THEN quantity ELSE Value(spec.pair, quantity, price)

compute_outflow(spec, quantity, price) == Outflow(spec, quantity, price) % Word

-----------------------------------------------------------------------------
(***************************************************************************)
(* The tracker.                                                            *)
(***************************************************************************)

Reserved(t) ==
    MapThenSumSet(LAMBDA f : f.out * pending[f], {f \in BagToSet(pending) : f.out_token = t})

projected(t) == IF Reserved(t) <= confirmed[t] THEN confirmed[t] - Reserved(t) ELSE 0

(* The settlement of a fill is confirmed, or it fails or expires. The confirmed
   balance gains the inflow and keeps the outflow. *)
SettlementEnds ==
    /\ stage # "validate"
    /\ \E f \in BagToSet(pending) :
        /\ pending' = pending (-) SetToBag({f})
        /\ confirmed' \in {confirmed, [confirmed EXCEPT ![f.in_token] = @ + f.in]}
    /\ UNCHANGED <<stage, batches, taken, projected_balances, cumulative_outflows, orders,
                   refused, others, wrapped>>

-----------------------------------------------------------------------------
(***************************************************************************)
(* A batch.                                                                *)
(***************************************************************************)

(* convert_strategy_orders reads the balances once, when the answer arrives. *)
convert_strategy_orders ==
    /\ stage = "idle" /\ batches < MaxBatches
    /\ stage' = "validate" /\ batches' = batches + 1
    /\ projected_balances' = [t \in Token |-> projected(t)]
    /\ UNCHANGED <<taken, cumulative_outflows, orders, confirmed, pending, refused, others, wrapped>>

(* Mutant: every order is compared with the balance on its own. *)
AloneInBatch(spec, q, p) == compute_outflow(spec, q, p)

(* The outflows accepted so far and this one; the sum wraps. *)
new_cumulative(spec, q, p) ==
    (cumulative_outflows[OutflowToken(spec)] + compute_outflow(spec, q, p)) % Word

Accepted(spec) ==
    /\ Converts(spec)
    /\ spec.pair \in Market
    /\ LET c == convert_order(spec)
       IN /\ c.price > 0
          /\ c.quantity >= MinQuantity
          /\ new_cumulative(spec, c.quantity, c.price) <= projected_balances[OutflowToken(spec)]

AcceptOrder(spec) ==
    LET c == convert_order(spec)
        t == OutflowToken(spec)
    IN /\ Accepted(spec)
       /\ cumulative_outflows' =
            [cumulative_outflows EXCEPT ![t] = new_cumulative(spec, c.quantity, c.price)]
       /\ orders' = Append(orders, [spec |-> spec, price |-> c.price, quantity |-> c.quantity,
                                    left |-> c.quantity])
       /\ wrapped' = (wrapped \/ cumulative_outflows[t] + Outflow(spec, c.quantity, c.price) >= Word)

(* A warning, and on to the next order. *)
RejectOrder(spec) == ~Accepted(spec) /\ UNCHANGED <<cumulative_outflows, orders, wrapped>>

(* Orders beyond commits_per_batch are not looked at. *)
validate_orders ==
    /\ stage = "validate" /\ taken < CommitsPerBatch
    /\ taken' = taken + 1
    /\ \E spec \in OrderSpecs : AcceptOrder(spec) \/ RejectOrder(spec)
    /\ UNCHANGED <<stage, batches, projected_balances, confirmed, pending, refused, others>>

(* The answer is used up; the orders are committed, revealed and matched. *)
Commit ==
    /\ stage = "validate"
    /\ stage' = "match"
    /\ taken' = 0 /\ projected_balances' = [t \in Token |-> 0] /\ cumulative_outflows' = [t \in Token |-> 0]
    /\ UNCHANGED <<batches, orders, confirmed, pending, refused, others, wrapped>>

(* register_match for a fill of half an order or all that is left of it: a buyer
   reserves at its own price. (What a seller gets is counted at its own price,
   the least a settlement can bring.) *)
RegisterFill ==
    /\ stage = "match"
    /\ \E i \in DOMAIN orders :
        LET o == orders[i]
        IN \E q \in {o.left, (o.left + 1) \div 2} \ {0} :
            LET out == compute_outflow(o.spec, q, o.price)
            IN /\ orders' = [orders EXCEPT ![i].left = @ - q]
               /\ \/ /\ out <= projected(OutflowToken(o.spec))
                     /\ pending' = pending (+) SetToBag(
                          {[out_token |-> OutflowToken(o.spec), out |-> out,
                            in_token |-> InflowToken(o.spec),
                            in |-> Inflow(o.spec, q, o.price) % Word]})
                     /\ UNCHANGED refused
                  \/ /\ out > projected(OutflowToken(o.spec))
                     /\ refused' = refused \cup {OutflowToken(o.spec)}
                     /\ UNCHANGED pending
    /\ UNCHANGED <<stage, batches, taken, projected_balances, cumulative_outflows, confirmed,
                   others, wrapped>>

(* register_match for a match of two other NFTs of the pool: the node is not its
   buyer, so its quantity is reserved as if the node had sold it. *)
RegisterOther ==
    /\ stage = "match"
    /\ \E f \in OtherFills :
        LET t == f.pair[1]
        IN \/ /\ f.quantity <= projected(t) /\ others[t] < MaxOthers
              /\ pending' = pending (+) SetToBag(
                   {[out_token |-> t, out |-> f.quantity, in_token |-> f.pair[2],
                     in |-> Value(f.pair, f.quantity, f.price) % Word]})
              /\ others' = [others EXCEPT ![t] = @ + 1]
           \/ f.quantity > projected(t) /\ UNCHANGED <<pending, others>>
    /\ UNCHANGED <<stage, batches, taken, projected_balances, cumulative_outflows, orders,
                   confirmed, refused, wrapped>>

(* Orders that were not matched are gone with their batch. *)
BatchOver ==
    /\ stage = "match"
    /\ stage' = "idle"
    /\ orders' = <<>> /\ refused' = {} /\ others' = [t \in Token |-> 0] /\ wrapped' = FALSE
    /\ UNCHANGED <<batches, taken, projected_balances, cumulative_outflows, confirmed, pending>>

IntakeNext ==
    \/ convert_strategy_orders \/ validate_orders \/ Commit \/ RegisterFill \/ RegisterOther
    \/ BatchOver \/ SettlementEnds

IntakeSpec == IntakeInit /\ [][IntakeNext]_intakeVars

-----------------------------------------------------------------------------
(***************************************************************************)
(* Properties.                                                             *)
(***************************************************************************)

(* Every fill of an accepted order can be reserved, however the orders of the
   batch are split into fills, rounded, and interleaved with settlements of earlier
   batches: the check of validate_orders at the commit is enough for every
   apply_match at the swap, unless an amount did not fit its word or a match of
   two other NFTs of the pool was registered first and took of the same token. *)
FillsReserved == wrapped \/ \A t \in refused : others[t] > 0

(* Conversion never makes an order larger or dearer than the text says, and loses
   less than one unit of the last decimal (parse_decimal_to_fixed truncates). *)
Floors(x, n, target_decimals) ==
    LET exact == (x.int * Pow[x.places] + x.frac) * Pow[target_decimals]
    IN n * Pow[x.places] <= exact /\ exact < (n + 1) * Pow[x.places]

NothingGained ==
    \A i \in DOMAIN orders :
        LET o == orders[i]
        IN /\ Floors(o.spec.price, o.price, PriceDec)
           /\ Floors(o.spec.quantity, o.quantity, Decimals[o.spec.pair[1]])

(* "Orders validated before signing (pair active, price>0, qty≥min, balance)": the
   accepted orders of a batch together cost no more than the balance they were
   checked against. *)
AcceptedPayable ==
    stage = "validate" =>
        \A t \in Token :
            LET own == {i \in DOMAIN orders : OutflowToken(orders[i].spec) = t}
            IN MapThenSumSet(LAMBDA i : Outflow(orders[i].spec, orders[i].quantity, orders[i].price),
                             own) <= projected_balances[t]
=============================================================================
