---------------------------- MODULE StateObjects ----------------------------
(***************************************************************************)
(* The leaf objects of the committee's trees and the operations on them:   *)
(*  - perpetual PositionState: its leaf fact (_hash with                   *)
(*    PositionAsset.calculate_message) and apply_funding against the       *)
(*    global FundingIndicesState the exchange publishes;                   *)
(*  - perpetual OrderState.add;                                            *)
(*  - StarkEx VaultState.add with __post_init__, and OrderState.add.       *)
(* The committee hashes these objects into the roots it signs; the         *)
(* operations are the exchange's and have no caller in the committee.      *)
(* Field ranges are those of the RangeValidatedFields in fields.py, with   *)
(* the 2^63, 2^120, 2^32 ... bounds of constants.py scaled down.           *)
(***************************************************************************)
EXTENDS Integers, FiniteSets, Functions

CONSTANTS
  PositionIds, PublicKeys,
  AssetIds,                    \* synthetic asset ids in 0 .. ASSET_ID_UPPER_BOUND - 1
  BALANCE_LOWER_BOUND, BALANCE_UPPER_BOUND,
  FUNDING_INDEX_LOWER_BOUND, FUNDING_INDEX_UPPER_BOUND,
  ASSET_ID_UPPER_BOUND, N_ASSETS_UPPER_BOUND,
  FIXED_POINT_UNIT,            \* 2^FIXED_POINT_PRECISION
  FIELD_PRIME,
  TO_BYTES_BOUND,              \* 256^32: to_bytes raises OverflowError from here
  AMOUNT_UPPER_BOUND,          \* perpetual AmountField
  InitCollaterals, InitBalances,  \* positions as trades left them
  MaxTicks,                    \* bound on funding index updates
  MaxApply,                    \* bound on apply_funding calls per position
  PerpOrderIds, PerpFills, PerpCapacities,
  VaultIds, StarkKeys, Tokens, VaultDiffs, MAX_AMOUNT,
  OrderIds, OrderDiffs, OrderCapacities

\* The assertion of calculate_message: packed asset messages fit the field.
ASSUME ASSET_ID_UPPER_BOUND * (FUNDING_INDEX_UPPER_BOUND - FUNDING_INDEX_LOWER_BOUND)
         * (BALANCE_UPPER_BOUND - BALANCE_LOWER_BOUND) < FIELD_PRIME
ASSUME FIELD_PRIME <= TO_BYTES_BOUND /\ AssetIds \subseteq 0 .. ASSET_ID_UPPER_BOUND - 1

\* RangeValidatedField(lower_bound, upper_bound): lower_bound <= v < upper_bound.
Balance == BALANCE_LOWER_BOUND .. BALANCE_UPPER_BOUND - 1
FundingIndex == FUNDING_INDEX_LOWER_BOUND .. FUNDING_INDEX_UPPER_BOUND - 1

PositionAsset == [balance : Balance, cached_funding_index : FundingIndex]
AssetsOf(S) == UNION {[D -> S] : D \in SUBSET AssetIds}

VARIABLES
  positions,   \* position_id -> PositionState
  funding,     \* the global FundingIndicesState: indices, timestamp
  perp_orders, \* perpetual order_id -> fulfilled_amount
  vaults,      \* vault_id -> StarkEx VaultState
  orders,      \* order_id -> StarkEx fulfilled_amount
  ledger       \* history: per position, collateral0, funding owed * FIXED_POINT_UNIT, applications

vars == <<positions, funding, perp_orders, vaults, orders, ledger>>

-----------------------------------------------------------------------------
(* Leaf facts *)

\* to_bytes(value): the 32 big-endian bytes of value, or OverflowError
\* outside their range.
ToBytes(n) == IF 0 <= n /\ n < TO_BYTES_BOUND THEN [bytes |-> n] ELSE [error |-> "OverflowError"]

\* The hash_func of the fact store, as a collision-free constructor.
HashFunc(a, b) == <<a, b>>

\* Mutant: the balance is packed without its shift by BALANCE_LOWER_BOUND.
calculate_message_unshifted(asset, asset_id) ==
  LET balance_range_size == BALANCE_UPPER_BOUND - BALANCE_LOWER_BOUND
      funding_index_range_size == FUNDING_INDEX_UPPER_BOUND - FUNDING_INDEX_LOWER_BOUND
      asset_packed == asset_id * funding_index_range_size
                        + (asset.cached_funding_index - FUNDING_INDEX_LOWER_BOUND)
  IN ToBytes(asset_packed * balance_range_size + asset.balance)

calculate_message(asset, asset_id) ==
  LET balance_range_size == BALANCE_UPPER_BOUND - BALANCE_LOWER_BOUND
      funding_index_range_size == FUNDING_INDEX_UPPER_BOUND - FUNDING_INDEX_LOWER_BOUND
      asset_packed == asset_id * funding_index_range_size
                        + (asset.cached_funding_index - FUNDING_INDEX_LOWER_BOUND)
  IN ToBytes(asset_packed * balance_range_size + (asset.balance - BALANCE_LOWER_BOUND))

position_packed(pos) ==
  (pos.collateral_balance - BALANCE_LOWER_BOUND) * N_ASSETS_UPPER_BOUND
    + Cardinality(DOMAIN pos.assets)

RECURSIVE ChainAssets(_, _, _)
\* assets_hash over the assets sorted by asset id.
ChainAssets(h, assets, ids) ==
  IF ids = {} THEN h
  ELSE LET a == CHOOSE x \in ids : \A y \in ids : x <= y
       IN ChainAssets(HashFunc(h, calculate_message(assets[a], a)), assets, ids \ {a})

\* PositionState._hash
PositionHash(pos) ==
  HashFunc(HashFunc(ChainAssets(ToBytes(0), pos.assets, DOMAIN pos.assets),
                    ToBytes(pos.public_key)),
           ToBytes(position_packed(pos)))

-----------------------------------------------------------------------------

Init ==
  /\ positions \in [PositionIds -> [public_key : PublicKeys,
                                    collateral_balance : InitCollaterals,
                                    assets : AssetsOf([balance : InitBalances,
                                                       cached_funding_index : FundingIndex])]]
  /\ funding = [indices |-> <<>>, timestamp |-> 0]      \* FundingIndicesState.empty()
  /\ perp_orders = [o \in PerpOrderIds |-> 0]
  /\ vaults = [v \in VaultIds |-> [stark_key |-> 0, token |-> 0, balance |-> 0]]
  /\ orders = [o \in OrderIds |-> 0]
  /\ ledger = [p \in PositionIds |-> [collateral0 |-> positions[p].collateral_balance,
                                      owed |-> 0, applied |-> 0]]

\* The exchange publishes a new FundingIndicesState.
SetFundingIndices(indices) ==
  /\ funding.timestamp < MaxTicks
  /\ funding' = [indices |-> indices, timestamp |-> funding.timestamp + 1]
  /\ UNCHANGED <<positions, perp_orders, vaults, orders, ledger>>

\* verify_asset_index_exists for every asset of the position.
verify_asset_index_exists(pos) == DOMAIN pos.assets \subseteq DOMAIN funding.indices

\* -balance * funding_diff of one asset: the unrounded funding in units of
\* 1 / FIXED_POINT_UNIT.
AssetFunding(pos, a) ==
  -pos.assets[a].balance * (funding.indices[a] - pos.assets[a].cached_funding_index)

\* Mutant: each asset's funding is rounded on its own.
FundingDeltaPerAsset(pos) ==
  SumFunction([a \in DOMAIN pos.assets |-> AssetFunding(pos, a) \div FIXED_POINT_UNIT])

\* funding_delta: summed over the assets, then floor-divided.
FundingDelta(pos) ==
  SumFunction([a \in DOMAIN pos.assets |-> AssetFunding(pos, a)]) \div FIXED_POINT_UNIT

\* PositionState.apply_funding, the position replaced by its result.
apply_funding(p) ==
  LET pos == positions[p] IN
  /\ ledger[p].applied < MaxApply
  /\ verify_asset_index_exists(pos)
  /\ positions' = [positions EXCEPT ![p] =
       [pos EXCEPT !.collateral_balance = @ + FundingDelta(pos),
                   !.assets = [a \in DOMAIN pos.assets |->
                                 [@[a] EXCEPT !.cached_funding_index = funding.indices[a]]]]]
  /\ ledger' = [ledger EXCEPT ![p].owed = @ + SumFunction([a \in DOMAIN pos.assets |-> AssetFunding(pos, a)]),
                              ![p].applied = @ + 1]
  /\ UNCHANGED <<funding, perp_orders, vaults, orders>>

\* Mutant: the stark_assert on a negative fulfilled amount is missing.
PerpOrderAddUnsigned(o, fulfilled_amount, capacity) ==
  /\ perp_orders[o] + fulfilled_amount <= capacity
  /\ perp_orders[o] + fulfilled_amount < AMOUNT_UPPER_BOUND
  /\ perp_orders' = [perp_orders EXCEPT ![o] = @ + fulfilled_amount]
  /\ UNCHANGED <<positions, funding, vaults, orders, ledger>>

\* Perpetual OrderState.add; the result is an OrderState whose AmountField
\* is range checked.
PerpOrderAdd(o, fulfilled_amount, capacity) ==
  /\ fulfilled_amount >= 0
  /\ perp_orders[o] + fulfilled_amount <= capacity
  /\ perp_orders[o] + fulfilled_amount < AMOUNT_UPPER_BOUND
  /\ perp_orders' = [perp_orders EXCEPT ![o] = @ + fulfilled_amount]
  /\ UNCHANGED <<positions, funding, vaults, orders, ledger>>

\* VaultState(stark_key, token, balance) and its __post_init__: the range
\* assertion, an empty vault forgets its key and token, a non-empty one
\* must have both.
VaultValid(k, t, b) == 0 <= b /\ b < MAX_AMOUNT /\ (b # 0 => k # 0 /\ t # 0)
VaultState(k, t, b) ==
  IF b = 0 THEN [stark_key |-> 0, token |-> 0, balance |-> 0]
  ELSE [stark_key |-> k, token |-> t, balance |-> b]

\* OrderState._hash, StarkEx and perpetual alike: to_bytes(fulfilled_amount).
OrderHash(fulfilled_amount) == ToBytes(fulfilled_amount)

\* VaultState.add(change)
VaultAdd(v, change) ==
  LET vault == vaults[v]
      new_balance == vault.balance + change.diff
  IN /\ vault.balance > 0 => /\ vault.stark_key = change.stark_key
                             /\ vault.token = change.token
     /\ 0 <= new_balance /\ new_balance < MAX_AMOUNT
     /\ VaultValid(change.stark_key, change.token, new_balance)
     /\ vaults' = [vaults EXCEPT ![v] = VaultState(change.stark_key, change.token, new_balance)]
     /\ UNCHANGED <<positions, funding, perp_orders, orders, ledger>>

\* StarkEx OrderState.add(change), with the range assertion of __post_init__.
OrderAdd(o, change) ==
  /\ 0 <= change.diff /\ change.diff < MAX_AMOUNT
  /\ orders[o] + change.diff <= change.capacity
  /\ orders[o] + change.diff < MAX_AMOUNT
  /\ orders' = [orders EXCEPT ![o] = @ + change.diff]
  /\ UNCHANGED <<positions, funding, perp_orders, vaults, ledger>>

Next ==
  \/ \E indices \in AssetsOf(FundingIndex) : SetFundingIndices(indices)
  \/ \E p \in PositionIds : apply_funding(p)
  \/ \E o \in PerpOrderIds, f \in PerpFills, c \in PerpCapacities : PerpOrderAdd(o, f, c)
  \/ \E v \in VaultIds, k \in StarkKeys, t \in Tokens, d \in VaultDiffs :
       VaultAdd(v, [stark_key |-> k, token |-> t, diff |-> d])
  \/ \E o \in OrderIds, d \in OrderDiffs, c \in OrderCapacities :
       OrderAdd(o, [diff |-> d, capacity |-> c])

Spec == Init /\ [][Next]_vars

-----------------------------------------------------------------------------
(* Properties *)

TypeOK ==
  /\ positions \in [PositionIds -> [public_key : PublicKeys, collateral_balance : Balance,
                                    assets : AssetsOf(PositionAsset)]]
  /\ funding \in [indices : AssetsOf(FundingIndex), timestamp : 0 .. MaxTicks]
  /\ perp_orders \in [PerpOrderIds -> 0 .. AMOUNT_UPPER_BOUND - 1]
  /\ \A v \in VaultIds : VaultValid(vaults[v].stark_key, vaults[v].token, vaults[v].balance)
  /\ orders \in [OrderIds -> 0 .. MAX_AMOUNT - 1]

\* The reference decoding of a packed asset message, by division and remainder.
DecodeMessage(m) ==
  LET B == BALANCE_UPPER_BOUND - BALANCE_LOWER_BOUND
      F == FUNDING_INDEX_UPPER_BOUND - FUNDING_INDEX_LOWER_BOUND
      n == m.bytes
  IN [asset_id |-> n \div (B * F),
      asset |-> [balance |-> (n % B) + BALANCE_LOWER_BOUND,
                 cached_funding_index |-> ((n \div B) % F) + FUNDING_INDEX_LOWER_BOUND]]

RECURSIVE Unchain(_, _)
\* The assets of the last n links of an assets_hash chain.
Unchain(h, n) ==
  IF n = 0 THEN <<>>
  ELSE LET d == DecodeMessage(h[2])
       IN [a \in {d.asset_id} \cup DOMAIN Unchain(h[1], n - 1) |->
             IF a = d.asset_id THEN d.asset ELSE Unchain(h[1], n - 1)[a]]

\* The reference decoding of a position fact.
DecodePosition(fact) ==
  LET packed == fact[2].bytes
  IN [public_key |-> fact[1][2].bytes,
      collateral_balance |-> (packed \div N_ASSETS_UPPER_BOUND) + BALANCE_LOWER_BOUND,
      assets |-> Unchain(fact[1][1], packed % N_ASSETS_UPPER_BOUND)]

Bytes(m) == "bytes" \in DOMAIN m

\* calculate_message and PositionState._hash lose nothing: every valid
\* (asset id, balance, cached funding index) packs into bytes that decode
\* back to it, and the fact of every position the exchange holds decodes to
\* that position, so the leaves of the roots the committee signs determine
\* the positions.
LeafEncodingExact ==
  /\ \A id \in 0 .. ASSET_ID_UPPER_BOUND - 1, a \in PositionAsset :
       LET m == calculate_message(a, id)
       IN Bytes(m) /\ DecodeMessage(m) = [asset_id |-> id, asset |-> a]
  /\ \A p \in PositionIds :
       LET fact == PositionHash(positions[p])
       IN Bytes(fact[2]) /\ DecodePosition(fact) = positions[p]
  /\ \A o \in OrderIds : OrderHash(orders[o]) = [bytes |-> orders[o]]
  /\ \A o \in PerpOrderIds : OrderHash(perp_orders[o]) = [bytes |-> perp_orders[o]]

\* apply_funding charges each position what it owes, rounded against it:
\* over all its applications, at different funding indices published by the
\* exchange, the collateral it gained is never more than the exact funding,
\* and less by under one unit (FIXED_POINT_UNIT - 1 parts) per application.
FundingRounding ==
  \A p \in PositionIds :
    LET gained == FIXED_POINT_UNIT * (positions[p].collateral_balance - ledger[p].collateral0)
    IN /\ gained <= ledger[p].owed
       /\ gained >= ledger[p].owed - (FIXED_POINT_UNIT - 1) * ledger[p].applied

====
