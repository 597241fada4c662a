---------------------------- MODULE SetupChain ----------------------------
(***************************************************************************)
(* The chain as `deadmkt-node setup` sees it: the accounts and contracts   *)
(* (external), and SupraSetupClient (src/setup_bridge.rs), which signs a   *)
(* transaction with the account's sequence number, submits it, polls for   *)
(* its result for thirty seconds, and turns a failed view call into a      *)
(* default value.                                                          *)
(*                                                                         *)
(* A transaction the client gave up on stays in the mempool (`orphan`) and *)
(* may still be executed before it expires.                                *)
(***************************************************************************)
EXTENDS Naturals, FiniteSets

CONSTANTS
    Keys,          \* key pairs the node may generate; a key stands for its address
    MintFee,       \* SUPRA taken by nft::mint_trustee_nft
    FundAmount,    \* SUPRA one transfer of the operator brings
    MaxSupra,      \* bound on an account's balance
    MaxForeign,    \* bound on the NFTs minted by other trustees
    MaxFaults      \* bound on faults: crashes, timeouts, failed calls, typing errors

ASSUME SetupChainAssumption ==
    /\ IsFiniteSet(Keys)
    /\ MintFee \in Nat \ {0} /\ FundAmount \in Nat \ {0}
    /\ MaxSupra \in Nat /\ MaxForeign \in Nat /\ MaxFaults \in Nat

VARIABLES
    supra,         \* supra[k]: SUPRA of k's account
    nft,           \* nft[k]: the TrusteeNFT of k, 0 if it has none
    total_minted,  \* NFTs minted so far, by everybody
    registered,    \* keys registered with the escrow contract
    wallet,        \* wallet[k]: the tokens k's wallet holds
    escrow,        \* escrow[k]: the tokens k's escrow account holds
    first_minted,  \* keys whose first token mint is completed
    pending_mint,  \* pending_mint[k]: "none", "held" or "ready"
    mempool,       \* transactions submitted and not executed
    receipt,       \* what the client knows of the transaction it waits for
    faults         \* faults so far

accountVars == <<supra, nft, total_minted, registered, wallet, escrow, first_minted, pending_mint>>

chainVars == <<accountVars, mempool, receipt, faults>>

Tokens == {"EMM", "KAY", "TEE"}

Calls == {"mint_trustee_nft", "register_trader", "deposit", "request_mint", "claim_mint"}

NoToken == "none"

(* Every transaction is signed with the sequence number the account has when it
   is submitted, so all transactions of a key in the mempool carry the current
   one: the first that is executed makes the others worthless. A deposit names a
   token, a registration its NFT, a mint request its amount of SUPRA. *)
Transactions == [key : Keys, call : Calls, token : Tokens \cup {NoToken},
                 amount : 0 .. MaxSupra + MaxForeign + Cardinality(Keys), orphan : BOOLEAN]

Verdicts == {"Success", "ALREADY_TRUSTEE", "INSUFFICIENT_BALANCE", "E_NFT_MISMATCH",
             "ALREADY_REGISTERED", "NOT_REGISTERED", "HAS_PENDING_MINT", "NO_PENDING_MINT",
             "HOLD_PERIOD_ACTIVE"}

ChainTypeOK ==
    /\ supra \in [Keys -> 0 .. MaxSupra]
    /\ nft \in [Keys -> 0 .. MaxForeign + Cardinality(Keys)]
    /\ total_minted \in 0 .. MaxForeign + Cardinality(Keys)
    /\ registered \subseteq Keys
    /\ wallet \in [Keys -> SUBSET Tokens]
    /\ escrow \in [Keys -> SUBSET Tokens]
    /\ first_minted \subseteq Keys
    /\ pending_mint \in [Keys -> {"none", "held", "ready"}]
    /\ mempool \subseteq Transactions
    /\ receipt \in {"none", "pending", "rejected"} \cup Verdicts
    /\ faults \in 0 .. MaxFaults

ChainInit ==
    /\ supra = [k \in Keys |-> 0]
    /\ nft = [k \in Keys |-> 0]
    /\ total_minted = 0
    /\ registered = {}
    /\ wallet = [k \in Keys |-> {}]
    /\ escrow = [k \in Keys |-> {}]
    /\ first_minted = {}
    /\ pending_mint = [k \in Keys |-> "none"]
    /\ mempool = {}
    /\ receipt = "none"
    /\ faults = 0

(***************************************************************************)
(* The client.                                                             *)
(***************************************************************************)

(* Something goes wrong, as often as the bound allows. *)
Fault == faults < MaxFaults /\ faults' = faults + 1

NoFault == UNCHANGED faults

(* A view call returns the value on chain, or the default its wrapper
   substitutes for an error. *)
Sees(value, onChain, default) ==
    \/ value = onChain /\ NoFault
    \/ value = default /\ default # onChain /\ Fault

(* A balance that cannot be read is 0, which is what a caller waits out. *)
get_all_balances(k) == supra[k]

is_trustee(k, seen) == Sees(seen, nft[k] # 0, FALSE)

get_nft_id(k, seen) == Sees(seen, nft[k], 0)

(* The escrow account of an NFT, whoever owns it. *)
get_escrow_balance(k, id, seen) == Sees(seen, IF id = nft[k] THEN escrow[k] ELSE {}, {})

get_fa_balance(k, seen) == Sees(seen, wallet[k], {})

(* <<first mint done, mint pending>> *)
get_nft_mint_state(k, seen) ==
    Sees(seen, <<k \in first_minted, pending_mint[k] # "none">>, <<FALSE, FALSE>>)

(* The time is read and is not in the future; an unreadable one is None. *)
get_pending_mint_claimable_at(k) == pending_mint[k] = "ready"

(* submit_entry_function up to the reply: the transaction is in the mempool,
   or the node refused it and the client has a result without a hash. *)
submit_entry_function(k, call, token, amount) ==
    \/ /\ mempool' = mempool \cup
            {[key |-> k, call |-> call, token |-> token, amount |-> amount, orphan |-> FALSE]}
       /\ receipt' = "pending"
       /\ NoFault
       /\ UNCHANGED accountVars
    \/ /\ receipt' = "rejected"
       /\ Fault
       /\ UNCHANGED <<accountVars, mempool>>

submit_mint(k) == submit_entry_function(k, "mint_trustee_nft", NoToken, 0)

submit_register(k, id) == submit_entry_function(k, "register_trader", NoToken, id)

submit_deposit(k, token) == submit_entry_function(k, "deposit", token, 0)

submit_request_mint(k, cost) == submit_entry_function(k, "request_mint", NoToken, cost)

submit_claim_mint(k) == submit_entry_function(k, "claim_mint", NoToken, 0)

(* Whatever the process still has in the mempool goes on without it. *)
Orphaned == {[t EXCEPT !.orphan = TRUE] : t \in mempool}

(* wait_for_tx: thirty polls without an answer. A transaction that lost its
   sequence number to another one is never answered. *)
wait_for_tx_timeout ==
    /\ receipt = "pending"
    /\ \/ Fault
       \/ (\A t \in mempool : t.orphan) /\ NoFault

(***************************************************************************)
(* The contracts.                                                          *)
(***************************************************************************)

VerdictsOf(t) ==
    CASE t.call = "mint_trustee_nft" ->
            IF nft[t.key] # 0 THEN {"ALREADY_TRUSTEE"}
            ELSE IF supra[t.key] < MintFee THEN {"INSUFFICIENT_BALANCE"} ELSE {"Success"}
      [] t.call = "register_trader" ->
            LET owner == t.amount # 0 /\ t.amount = nft[t.key]
            IN  {v \in {"Success", "E_NFT_MISMATCH", "ALREADY_REGISTERED"} :
                    /\ v = "E_NFT_MISMATCH" <=> ~owner
                    /\ v = "ALREADY_REGISTERED" => t.key \in registered
                    /\ v = "Success" => t.key \notin registered}
      [] t.call = "deposit" ->
            IF t.key \notin registered THEN {"NOT_REGISTERED"}
            ELSE IF t.token \in wallet[t.key] THEN {"Success"} ELSE {"INSUFFICIENT_BALANCE"}
      [] t.call = "request_mint" ->
            IF t.key \notin registered THEN {"NOT_REGISTERED"}
            ELSE IF pending_mint[t.key] # "none" THEN {"HAS_PENDING_MINT"}
            ELSE IF supra[t.key] < t.amount THEN {"INSUFFICIENT_BALANCE"} ELSE {"Success"}
      [] OTHER ->
            CASE pending_mint[t.key] = "none"  -> {"NO_PENDING_MINT"}
              [] pending_mint[t.key] = "held"  -> {"HOLD_PERIOD_ACTIVE"}
              [] OTHER                         -> {"Success"}

(* What a successful call does to the accounts. *)
ApplyMintNft(t) ==
    /\ supra' = [supra EXCEPT ![t.key] = @ - MintFee]
    /\ nft' = [nft EXCEPT ![t.key] = total_minted + 1]
    /\ total_minted' = total_minted + 1
    /\ UNCHANGED <<registered, wallet, escrow, first_minted, pending_mint>>

ApplyRegister(t) ==
    /\ registered' = registered \cup {t.key}
    /\ UNCHANGED <<supra, nft, total_minted, wallet, escrow, first_minted, pending_mint>>

ApplyDeposit(t) ==
    /\ wallet' = [wallet EXCEPT ![t.key] = @ \ {t.token}]
    /\ escrow' = [escrow EXCEPT ![t.key] = @ \cup {t.token}]
    /\ UNCHANGED <<supra, nft, total_minted, registered, first_minted, pending_mint>>

ApplyRequestMint(t) ==
    /\ supra' = [supra EXCEPT ![t.key] = @ - t.amount]
    /\ pending_mint' = [pending_mint EXCEPT ![t.key] = "held"]
    /\ UNCHANGED <<nft, total_minted, registered, wallet, escrow, first_minted>>

ApplyClaimMint(t) ==
    /\ escrow' = [escrow EXCEPT ![t.key] = Tokens]
    /\ first_minted' = first_minted \cup {t.key}
    /\ pending_mint' = [pending_mint EXCEPT ![t.key] = "none"]
    /\ UNCHANGED <<supra, nft, total_minted, registered, wallet>>

Apply(t) ==
    \/ t.call = "mint_trustee_nft" /\ ApplyMintNft(t)
    \/ t.call = "register_trader" /\ ApplyRegister(t)
    \/ t.call = "deposit" /\ ApplyDeposit(t)
    \/ t.call = "request_mint" /\ ApplyRequestMint(t)
    \/ t.call = "claim_mint" /\ ApplyClaimMint(t)

(* A block executes a transaction: one per sequence number. *)
TxExecute(t) ==
    /\ \E v \in VerdictsOf(t) :
        /\ IF v = "Success" THEN Apply(t) ELSE UNCHANGED accountVars
        /\ receipt' = IF t.orphan THEN receipt ELSE v
    /\ mempool' = {u \in mempool : u.key # t.key}
    /\ UNCHANGED faults

(* A transaction the client no longer waits for expires. *)
TxExpire(t) ==
    /\ t.orphan
    /\ mempool' = mempool \ {t}
    /\ UNCHANGED <<accountVars, receipt, faults>>

(* The hold period of a token mint ends. *)
HoldEnds(k) ==
    /\ pending_mint[k] = "held"
    /\ pending_mint' = [pending_mint EXCEPT ![k] = "ready"]
    /\ UNCHANGED <<supra, nft, total_minted, registered, wallet, escrow, first_minted,
                   mempool, receipt, faults>>

(* The operator sends SUPRA to an address, or tokens to its wallet. *)
Fund(k) ==
    /\ supra[k] + FundAmount <= MaxSupra
    /\ supra' = [supra EXCEPT ![k] = @ + FundAmount]
    /\ UNCHANGED <<nft, total_minted, registered, wallet, escrow, first_minted, pending_mint,
                   mempool, receipt, faults>>

SendTokens(k) ==
    /\ wallet[k] = {} /\ escrow[k] = {}
    /\ wallet' = [wallet EXCEPT ![k] = Tokens]
    /\ UNCHANGED <<supra, nft, total_minted, registered, escrow, first_minted, pending_mint,
                   mempool, receipt, faults>>

(* Somebody else mints an NFT. *)
ForeignMint ==
    /\ total_minted - Cardinality({k \in Keys : nft[k] # 0}) < MaxForeign
    /\ total_minted' = total_minted + 1
    /\ UNCHANGED <<supra, nft, registered, wallet, escrow, first_minted, pending_mint,
                   mempool, receipt, faults>>
===========================================================================
