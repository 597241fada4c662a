------------------------------- MODULE Setup -------------------------------
(***************************************************************************)
(* Setting up a node: the interactive wizard (`deadmkt-node setup`), the   *)
(* two non-interactive modes of `--config setup.json` (fresh, and assisted *)
(* with an existing keystore), and the restore that plain `deadmkt-node`   *)
(* does when it finds a keystore without a config.json. All four end in    *)
(* writing config.json; all may die between any two steps and be run       *)
(* again.                                                                  *)
(*                                                                         *)
(* One process runs at a time. `pc` is the step it is at; the chain moves  *)
(* on under it.                                                            *)
(***************************************************************************)
EXTENDS SetupChain, Sequences

CONSTANT NoKey

ASSUME SetupAssumption == NoKey \notin Keys

VARIABLES
    keystore,      \* keystore.json: the key it holds, or NoKey
    config,        \* config.json: NoConfig or a configuration
    json_password, \* setup.json carries keystore_password
    pc,            \* step of the running process
    mode,          \* which of the four it is
    key,           \* the signer
    bootstrap,     \* node role: relay only
    funding,       \* WalletBalance.supra as wait_for_funding read it
    nft_id,        \* the NFT the process believes to own
    todo,          \* tokens still to be deposited
    first_done,    \* first_mint_done as auto_mint_and_deposit read it
    overwritten    \* observed: keys whose keystore file the wizard replaced

diskVars == <<keystore, config, json_password, overwritten>>

localVars == <<mode, key, bootstrap, funding, nft_id, todo, first_done>>

vars == <<chainVars, diskVars, pc, localVars>>

NoConfig == [key |-> NoKey, nft |-> 0, bootstrap |-> FALSE, by |-> "nobody"]

Modes == {"nobody", "wizard", "fresh", "assisted", "restore"}

AwaitSteps == {"await_mint", "await_register", "await_deposit", "await_claim",
               "await_request", "await_first_claim"}

Steps == {"idle", "running", "keystore", "funding", "check_nft", "nft_id", "mint", "withdrawal",
          "register",
          "escrow", "wallet", "mint_state", "deposit", "claim", "poll_escrow", "request",
          "hold", "write", "scrub"} \cup AwaitSteps

SetupTypeOK ==
    /\ ChainTypeOK
    /\ keystore \in Keys \cup {NoKey}
    /\ config \in [key : Keys \cup {NoKey}, nft : 0 .. MaxForeign + Cardinality(Keys),
                   bootstrap : BOOLEAN, by : Modes]
    /\ json_password \in BOOLEAN
    /\ pc \in Steps
    /\ mode \in Modes
    /\ key \in Keys \cup {NoKey}
    /\ bootstrap \in BOOLEAN
    /\ funding \in 0 .. MaxSupra
    /\ nft_id \in 0 .. MaxForeign + Cardinality(Keys)
    /\ todo \in {<<>>, <<"TEE">>, <<"KAY", "TEE">>, <<"EMM", "KAY", "TEE">>}
    /\ first_done \in BOOLEAN
    /\ overwritten \subseteq Keys

LocalsReset ==
    /\ mode' = "nobody" /\ key' = NoKey /\ bootstrap' = FALSE /\ funding' = 0
    /\ nft_id' = 0 /\ todo' = <<>> /\ first_done' = FALSE

Init ==
    /\ ChainInit
    /\ keystore = NoKey /\ config = NoConfig /\ overwritten = {}
    /\ json_password \in BOOLEAN
    /\ pc = "idle" /\ mode = "nobody" /\ key = NoKey /\ bootstrap = FALSE
    /\ funding = 0 /\ nft_id = 0 /\ todo = <<>> /\ first_done = FALSE

-----------------------------------------------------------------------------
(***************************************************************************)
(* Starting a process: main's dispatch.                                    *)
(***************************************************************************)

(* A setup.json that is offered to the node. *)
SetupConfigs == [fields_valid : BOOLEAN, mode600 : BOOLEAN, bootstrap : BOOLEAN,
                 password : {json_password}]

(* Addresses, network, role, amounts and withdrawal rules, each in its range. *)
validate_common(cfg) == cfg.fields_valid

enforce_setup_config_permissions(cfg) == cfg.password => cfg.mode600

validate_for_fresh_setup(cfg) == validate_common(cfg) /\ cfg.password

validate_for_llm_assisted(cfg) == validate_common(cfg) /\ ~cfg.password

is_first_boot == config = NoConfig \/ keystore = NoKey

Start(m, relay) ==
    /\ pc' = "keystore" /\ mode' = m /\ bootstrap' = relay
    /\ UNCHANGED <<chainVars, diskVars, key, funding, nft_id, todo, first_done>>

(* The answer that matters later, of the prompts before the keystore: relay only? *)
prompt_node_role == BOOLEAN

(* `deadmkt-node setup`. *)
RunSetup ==
    /\ pc = "idle"
    /\ is_first_boot
    /\ \E relay \in prompt_node_role : Start("wizard", relay)

(* `deadmkt-node --config setup.json`. *)
RunWithConfig ==
    /\ pc = "idle"
    /\ \E cfg \in SetupConfigs :
        /\ enforce_setup_config_permissions(cfg)
        /\ \/ /\ keystore # NoKey
              /\ validate_for_llm_assisted(cfg)
              /\ Start("assisted", cfg.bootstrap)
           \/ /\ keystore = NoKey
              /\ validate_for_fresh_setup(cfg)
              /\ Start("fresh", cfg.bootstrap)

run_restore_setup_and_exit == config = NoConfig /\ Start("restore", FALSE)

(* Plain `deadmkt-node`: restore a lone keystore, or run the node. *)
RunNode ==
    /\ pc = "idle"
    /\ keystore # NoKey
    /\ \/ run_restore_setup_and_exit
       \/ config # NoConfig /\ pc' = "running" /\ UNCHANGED <<chainVars, diskVars, localVars>>

StopNode ==
    /\ pc = "running"
    /\ pc' = "idle"
    /\ UNCHANGED <<chainVars, diskVars, localVars>>

(* The operator writes a setup.json. *)
EditSetupJson ==
    /\ pc = "idle"
    /\ json_password' = ~json_password
    /\ UNCHANGED <<chainVars, keystore, config, overwritten, pc, localVars>>

(* The process ends; what it sent goes on. *)
Exit ==
    /\ pc' = "idle"
    /\ LocalsReset
    /\ mempool' = Orphaned
    /\ receipt' = "none"
    /\ UNCHANGED accountVars

(* An error return: exit with the disk as it is. *)
Fail == Exit /\ UNCHANGED diskVars

GoTo(step) == pc' = step /\ UNCHANGED <<accountVars, mempool, receipt>>

-----------------------------------------------------------------------------
(***************************************************************************)
(* The order of the steps, and the keystore.                               *)
(***************************************************************************)

(* The step each of the three orchestrators takes after a stage is done. *)
run_wizard(done) ==
    CASE done = "keystore" -> "funding"
      [] done = "no_nft"   -> "mint"
      [] done = "nft"      -> "withdrawal"
      [] done = "register" -> IF bootstrap THEN "write" ELSE "escrow"

run_setup_after_keystore(done) ==
    CASE done = "keystore" -> "funding"
      [] done = "no_nft"   -> "mint"
      [] done = "nft"      -> IF bootstrap THEN "write" ELSE "register"
      [] done = "register" -> "escrow"

run_setup_noninteractive_restore(done) ==
    CASE done = "keystore" -> "check_nft"
      [] done = "no_nft"   -> "fail"
      [] done = "nft"      -> "write"

NextStep(done) ==
    CASE mode = "wizard"  -> run_wizard(done)
      [] mode = "restore" -> run_setup_noninteractive_restore(done)
      [] OTHER            -> run_setup_after_keystore(done)

FreshKeys == Keys \ (overwritten \cup {keystore})

Unlocked(k) ==
    /\ GoTo(NextStep("keystore"))
    /\ key' = k
    /\ UNCHANGED <<config, json_password, mode, bootstrap, funding, nft_id, todo, first_done>>

save_keystore(k) == keystore' = k

(* A wrong password, or a file that cannot be read: the wizard goes on as if
   there were no keystore, and save_keystore writes over the file. *)
wizard_generate_keypair ==
    /\ pc = "keystore" /\ mode = "wizard"
    /\ \/ /\ keystore # NoKey
          /\ Unlocked(keystore) /\ NoFault
          /\ UNCHANGED <<keystore, overwritten>>
       \/ /\ keystore # NoKey
          /\ Fault
          /\ \E k \in FreshKeys :
                /\ save_keystore(k) /\ overwritten' = overwritten \cup {keystore}
                /\ Unlocked(k)
       \/ /\ keystore = NoKey
          /\ \E k \in FreshKeys : save_keystore(k) /\ Unlocked(k)
          /\ NoFault /\ UNCHANGED overwritten

generate_keystore_noninteractive ==
    /\ pc = "keystore" /\ mode = "fresh"
    /\ keystore = NoKey
    /\ \E k \in FreshKeys : save_keystore(k) /\ Unlocked(k)
    /\ NoFault
    /\ UNCHANGED overwritten

(* Mutant: a wrong password makes a new keystore here, too. *)
UnlockOrRegenerate ==
    /\ pc = "keystore" /\ mode \in {"assisted", "restore"}
    /\ \/ Unlocked(keystore) /\ NoFault /\ UNCHANGED <<keystore, overwritten>>
       \/ /\ Fault
          /\ \E k \in FreshKeys : save_keystore(k) /\ Unlocked(k)
          /\ UNCHANGED overwritten

unlock_existing_keystore ==
    /\ pc = "keystore" /\ mode \in {"assisted", "restore"}
    /\ \/ Unlocked(keystore) /\ NoFault /\ UNCHANGED <<keystore, overwritten>>
       \/ Fault /\ Fail

-----------------------------------------------------------------------------
(***************************************************************************)
(* Funding and NFT.                                                        *)
(***************************************************************************)

(* Testnet: the loop polls until there is SUPRA. *)
wait_for_funding ==
    /\ pc = "funding"
    /\ get_all_balances(key) > 0
    /\ GoTo("check_nft") /\ NoFault
    /\ funding' = get_all_balances(key)
    /\ UNCHANGED <<diskVars, mode, key, bootstrap, nft_id, todo, first_done>>

check_existing_nft ==
    /\ pc = "check_nft"
    /\ \E found \in BOOLEAN :
        /\ is_trustee(key, found)
        /\ \/ found /\ GoTo("nft_id") /\ UNCHANGED <<diskVars, localVars>>
           \/ /\ ~found /\ NextStep("no_nft") # "fail"
              /\ GoTo(NextStep("no_nft")) /\ UNCHANGED <<diskVars, localVars>>
           \/ ~found /\ NextStep("no_nft") = "fail" /\ Fail

(* Mutant: the id is taken from the global counter. *)
LastMinted ==
    /\ pc = "nft_id"
    /\ nft_id' = total_minted
    /\ GoTo(NextStep("nft")) /\ NoFault
    /\ UNCHANGED <<diskVars, mode, key, bootstrap, funding, todo, first_done>>

ReadNftId ==
    /\ pc = "nft_id"
    /\ \E id \in {0, nft[key]} : get_nft_id(key, id) /\ nft_id' = id
    /\ GoTo(NextStep("nft"))
    /\ UNCHANGED <<diskVars, mode, key, bootstrap, funding, todo, first_done>>

Await(next) == pc' = next /\ UNCHANGED <<diskVars, localVars>>

(* The fee cannot be read or the user declines; or the mint is submitted. *)
mint_nft_pair ==
    /\ pc = "mint"
    /\ \/ Fault /\ Fail
       \/ submit_mint(key) /\ Await("await_mint")

(* The answer arrived; `next` is the step after a result the caller accepts. *)
Answered(accepted, next) ==
    /\ receipt \in accepted
    /\ pc' = next
    /\ receipt' = "none"
    /\ NoFault
    /\ UNCHANGED <<accountVars, mempool>>

(* Any other result, or none in thirty seconds, is an error of the caller. *)
NotAccepted(accepted) ==
    \/ receipt \in (Verdicts \cup {"rejected"}) \ accepted /\ NoFault /\ Fail
    \/ wait_for_tx_timeout /\ Fail

AwaitMint ==
    /\ pc = "await_mint"
    /\ \/ Answered({"Success"}, "nft_id") /\ UNCHANGED <<diskVars, localVars>>
       \/ NotAccepted({"Success"})

-----------------------------------------------------------------------------
(***************************************************************************)
(* Registration.                                                           *)
(***************************************************************************)

prompt_withdrawal_config ==
    /\ pc = "withdrawal"
    /\ \/ GoTo("register") /\ NoFault /\ UNCHANGED <<diskVars, localVars>>
       \/ Fault /\ Fail

(* Mutant: an earlier registration is an error. *)
RegistersOnce == {"Success"}

(* The results of register_trader that register_and_deposit accepts. *)
RegisterAccepts == {"Success", "ALREADY_REGISTERED"}

(* On testnet the funding holds no tokens, so nothing is deposited here. *)
register_and_deposit ==
    \/ pc = "register" /\ submit_register(key, nft_id) /\ Await("await_register")
    \/ /\ pc = "await_register"
       /\ \/ /\ Answered(RegisterAccepts, NextStep("register"))
             /\ UNCHANGED <<diskVars, localVars>>
          \/ NotAccepted(RegisterAccepts)

-----------------------------------------------------------------------------
(***************************************************************************)
(* auto_mint_and_deposit, check by check.                                  *)
(***************************************************************************)

(* 1: something in escrow already. *)
CheckEscrow ==
    /\ pc = "escrow"
    /\ \E seen \in {{}, escrow[key]} :
        /\ get_escrow_balance(key, nft_id, seen)
        /\ GoTo(IF seen # {} THEN "write" ELSE "wallet")
    /\ UNCHANGED <<diskVars, localVars>>

(* 2: all three tokens in the wallet. *)
CheckWallet ==
    /\ pc = "wallet"
    /\ \E seen \in {{}, wallet[key]} :
        /\ get_fa_balance(key, seen)
        /\ IF seen = Tokens
           THEN GoTo("deposit") /\ todo' = <<"EMM", "KAY", "TEE">>
           ELSE GoTo("mint_state") /\ UNCHANGED todo
    /\ UNCHANGED <<diskVars, mode, key, bootstrap, funding, nft_id, first_done>>

(* Mutant: a deposit that was refused is put off to the end. *)
DepositsRequeued ==
    \/ pc = "deposit" /\ submit_deposit(key, Head(todo)) /\ Await("await_deposit")
    \/ /\ pc = "await_deposit"
       /\ \/ /\ Answered({"Success"}, IF Len(todo) = 1 THEN "write" ELSE "deposit")
             /\ todo' = Tail(todo)
          \/ /\ Answered((Verdicts \cup {"rejected"}) \ {"Success"}, "deposit")
             /\ todo' = Append(Tail(todo), Head(todo))
       /\ UNCHANGED <<diskVars, mode, key, bootstrap, funding, nft_id, first_done>>

DepositTokens ==
    \/ pc = "deposit" /\ submit_deposit(key, Head(todo)) /\ Await("await_deposit")
    \/ /\ pc = "await_deposit"
       /\ \/ /\ Answered({"Success"}, IF Len(todo) = 1 THEN "write" ELSE "deposit")
             /\ todo' = Tail(todo)
             /\ UNCHANGED <<diskVars, mode, key, bootstrap, funding, nft_id, first_done>>
          \/ NotAccepted({"Success"})

(* 3 and 4: a pending mint is claimed if it is known to be claimable, and left
   to the strategy otherwise. 5: none is pending. *)
CheckMintState ==
    /\ pc = "mint_state"
    /\ \E state \in BOOLEAN \X BOOLEAN :
        /\ get_nft_mint_state(key, state)
        /\ first_done' = state[1]
        /\ \/ ~state[2] /\ GoTo("request")
           \/ state[2] /\ get_pending_mint_claimable_at(key) /\ GoTo("claim")
           \/ state[2] /\ GoTo("write")
    /\ UNCHANGED <<diskVars, mode, key, bootstrap, funding, nft_id, todo>>

ClaimMint ==
    \/ pc = "claim" /\ submit_claim_mint(key) /\ Await("await_claim")
    \/ /\ pc = "await_claim"
       /\ \/ Answered({"Success"}, "poll_escrow") /\ UNCHANGED <<diskVars, localVars>>
          \/ NotAccepted({"Success"})

(* Thirty polls for all three balances. *)
PollEscrow ==
    /\ pc = "poll_escrow"
    /\ \E seen \in {{}, escrow[key]} :
        /\ get_escrow_balance(key, nft_id, seen)
        /\ \/ seen = Tokens /\ GoTo("write") /\ UNCHANGED <<diskVars, localVars>>
           \/ seen # Tokens /\ Fail

(* MINT_SUPRA_FRACTION_PCT of the balance read before the NFT was paid for. *)
MintCost == (funding * 7) \div 10

(* Mutant: a refused mint request is reported as if it had been made. *)
RequestAnyway == {"Success", "HAS_PENDING_MINT", "INSUFFICIENT_BALANCE"}

RequestAccepts == {"Success", "HAS_PENDING_MINT"}

RequestMint ==
    \/ /\ pc = "request"
       /\ IF MintCost = 0
          THEN NoFault /\ Fail
          ELSE submit_request_mint(key, MintCost) /\ Await("await_request")
    \/ /\ pc = "await_request"
       /\ \/ /\ Answered(RequestAccepts,
                         IF receipt = "Success" /\ ~first_done THEN "hold" ELSE "write")
             /\ UNCHANGED <<diskVars, localVars>>
          \/ NotAccepted(RequestAccepts)

(* The first mint is claimed here: a refusal is retried, sixty times; the last
   one, or one for lack of gas, ends the setup. *)
WaitFirstClaim ==
    \/ pc = "hold" /\ submit_claim_mint(key) /\ Await("await_first_claim")
    \/ pc = "hold" /\ Fault /\ Fail
    \/ /\ pc = "await_first_claim"
       /\ \/ Answered({"Success"}, "poll_escrow") /\ UNCHANGED <<diskVars, localVars>>
          \/ /\ Answered((Verdicts \cup {"rejected"}) \ {"Success"}, "hold")
             /\ UNCHANGED <<diskVars, localVars>>
          \/ wait_for_tx_timeout /\ Fail

-----------------------------------------------------------------------------
(***************************************************************************)
(* The end.                                                                *)
(***************************************************************************)

WriteConfig ==
    /\ pc = "write"
    /\ \/ Fault /\ Fail
       \/ /\ config' = [key |-> key, nft |-> nft_id, bootstrap |-> bootstrap, by |-> mode]
          /\ NoFault
          /\ IF mode = "fresh"
             THEN GoTo("scrub") /\ UNCHANGED localVars
             ELSE Exit
          /\ UNCHANGED <<keystore, json_password, overwritten>>

(* A failed scrub is only a warning. *)
scrub_password_from_setup_file ==
    /\ pc = "scrub"
    /\ \/ NoFault /\ json_password' = FALSE
       \/ Fault /\ UNCHANGED json_password
    /\ Exit
    /\ UNCHANGED <<keystore, config, overwritten>>

(* Ctrl+C, a crash, a closed terminal. *)
Crash ==
    /\ pc \notin {"idle", "running"}
    /\ Fault
    /\ Fail

SetupStep ==
    \/ wizard_generate_keypair \/ generate_keystore_noninteractive \/ unlock_existing_keystore
    \/ wait_for_funding \/ check_existing_nft \/ ReadNftId
    \/ mint_nft_pair \/ AwaitMint
    \/ prompt_withdrawal_config \/ register_and_deposit
    \/ CheckEscrow \/ CheckWallet \/ DepositTokens \/ CheckMintState \/ ClaimMint
    \/ PollEscrow \/ RequestMint \/ WaitFirstClaim
    \/ WriteConfig \/ scrub_password_from_setup_file

OperatorStep == RunSetup \/ RunWithConfig \/ RunNode \/ StopNode \/ EditSetupJson

ChainStep ==
    /\ \/ \E t \in mempool : TxExecute(t) \/ TxExpire(t)
       \/ \E k \in Keys : HoldEnds(k)
       \/ \E k \in Keys \cap {keystore} : Fund(k) \/ SendTokens(k)
       \/ ForeignMint
    /\ UNCHANGED <<diskVars, pc, localVars>>

Next == SetupStep \/ OperatorStep \/ Crash \/ ChainStep

Spec == Init /\ [][Next]_vars

(* The process runs, blocks are made, holds end, and an operator whose node is
   not configured sends SUPRA and runs the wizard again. Nothing is assumed of
   the passwords typed or of the calls succeeding; faults are bounded. *)
Fairness ==
    /\ WF_vars(SetupStep)
    /\ WF_vars((\E t \in mempool : TxExecute(t)) /\ UNCHANGED <<diskVars, pc, localVars>>)
    /\ \A k \in Keys : WF_vars(HoldEnds(k) /\ UNCHANGED <<diskVars, pc, localVars>>)
    /\ \A k \in Keys : WF_vars(k = keystore /\ Fund(k) /\ UNCHANGED <<diskVars, pc, localVars>>)
    /\ SF_vars(RunSetup)

FairSpec == Spec /\ Fairness

-----------------------------------------------------------------------------
(***************************************************************************)
(* Properties.                                                             *)
(***************************************************************************)

(* A key that owns an NFT stays in keystore.json through every order of failed
   and repeated setups, unless the wizard itself wrote over it after a password
   it could not use (wizard_generate_keypair falls through). *)
NftKeyKept == \A k \in Keys : nft[k] # 0 => k = keystore \/ k \in overwritten

(* config.json belongs to the keystore beside it and never names the NFT of
   another trustee, however setups and foreign mints interleave; 0 is what a
   failed lookup of the id leaves (get_nft_id). *)
ConfigMatchesKeystore ==
    config # NoConfig => config.key = keystore /\ config.nft \in {0, nft[config.key]}

(* A trading configuration written by a setup (not by a restore) means the key
   is registered and has tokens in escrow or a mint under way: no failed step is
   skipped, in whichever run it was done (run_wizard, run_setup_after_keystore). *)
ConfiguredMeansReady ==
    config.by \in {"wizard", "fresh", "assisted"} /\ ~config.bootstrap =>
        /\ config.key \in registered
        /\ escrow[config.key] # {} \/ pending_mint[config.key] # "none"

(* "You can re-run 'deadmkt-node setup' to try again": whatever step a setup
   died at, running it again gets to a configuration in the end. *)
SetupCompletes == <>(config # NoConfig)
=============================================================================
