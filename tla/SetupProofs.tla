---------------------------- MODULE SetupProofs ----------------------------
(***************************************************************************)
(* Machine-checked facts about Setup, for every finite set of key pairs,   *)
(* all amounts and every number of faults and of foreign mints.            *)
(***************************************************************************)
EXTENDS Setup, FiniteSetTheorems, TLAPS

Owners == {k \in Keys : nft[k] # 0}

(* Tokens in escrow, or a mint that will bring them. *)
Ready(k) == escrow[k] # {} \/ pending_mint[k] # "none"

(* The call a process waits for at each await step. *)
AwaitedCall ==
    [s \in AwaitSteps |->
        CASE s = "await_mint"     -> "mint_trustee_nft"
          [] s = "await_register" -> "register_trader"
          [] s = "await_deposit"  -> "deposit"
          [] s = "await_request"  -> "request_mint"
          [] OTHER                -> "claim_mint"]

(* The steps between the registration and the configuration. *)
TradingSteps == {"escrow", "wallet", "mint_state", "deposit", "claim", "poll_escrow", "request",
                 "hold", "await_deposit", "await_claim", "await_request", "await_first_claim"}

(* No more NFTs are out than the foreign ones and one for each owner. *)
MintBound == total_minted <= MaxForeign + Cardinality(Owners)

(* Every transaction was signed with the key of the keystore or of one that the
   wizard replaced. *)
SignedByKnown == \A t \in mempool : t.key = keystore \/ t.key \in overwritten

(* The transaction somebody waits for is the one of the process's step, and it is
   there only until it is answered. *)
LiveTx ==
    /\ receipt # "none" => pc \in AwaitSteps
    /\ \A t \in mempool : ~t.orphan =>
        receipt = "pending" /\ pc \in AwaitSteps /\ t.key = key /\ t.call = AwaitedCall[pc]

(* What an accepted answer says of the chain is still so when it is read. *)
AnswersHold ==
    /\ pc = "await_register" /\ receipt \in RegisterAccepts => key \in registered
    /\ pc = "await_deposit" /\ receipt = "Success" => escrow[key] # {}
    /\ pc = "await_request" /\ receipt \in RequestAccepts => Ready(key)

(* Once it is unlocked, the signer is the key on disk. *)
SignerOnDisk == pc \notin {"idle", "running", "keystore"} => key = keystore /\ key \in Keys

ModeFits ==
    /\ pc \in {"idle", "running"} => mode = "nobody"
    /\ mode = "restore" => pc \in {"keystore", "check_nft", "nft_id", "write"}
    /\ mode \in {"assisted", "restore"} => keystore # NoKey
    /\ mode = "wizard" => config = NoConfig

(* A process gets past a stage only when the stage is done. *)
StageDone ==
    /\ pc \in TradingSteps => key \in registered
    /\ pc = "write" /\ mode # "restore" /\ ~bootstrap => key \in registered /\ Ready(key)
    /\ pc \in {"deposit", "await_deposit"} => todo # <<>>

(* The NFT the process believes to own is its own, and it knows of none before it
   has a key. *)
OwnNft ==
    /\ nft_id # 0 => key \in Keys /\ nft_id = nft[key]
    /\ pc \in {"idle", "running", "keystore"} => nft_id = 0

ConfigHasKey == config # NoConfig => keystore \in Keys

(* The inductive invariant: its types, by the part of the state they are about,
   what holds of the process, of the transactions, and of the disk. *)
DiskTypeOK ==
    /\ keystore \in Keys \cup {NoKey}
    /\ config \in [key : Keys \cup {NoKey}, nft : 0 .. MaxForeign + Cardinality(Keys),
                   bootstrap : BOOLEAN, by : Modes]
    /\ json_password \in BOOLEAN
    /\ overwritten \subseteq Keys

LocalTypeOK ==
    /\ pc \in Steps
    /\ mode \in Modes
    /\ key \in Keys \cup {NoKey}
    /\ bootstrap \in BOOLEAN
    /\ funding \in 0 .. MaxSupra
    /\ nft_id \in 0 .. MaxForeign + Cardinality(Keys)
    /\ todo \in {<<>>, <<"TEE">>, <<"KAY", "TEE">>, <<"EMM", "KAY", "TEE">>}
    /\ first_done \in BOOLEAN

ChainInv == ChainTypeOK /\ MintBound
ProcessInv == LocalTypeOK /\ SignerOnDisk /\ ModeFits /\ StageDone /\ OwnNft
TxInv == SignedByKnown /\ LiveTx /\ AnswersHold
DiskInv == DiskTypeOK /\ NftKeyKept /\ ConfigHasKey /\ ConfigMatchesKeystore /\ ConfiguredMeansReady
SetupInv == ChainInv /\ ProcessInv /\ TxInv /\ DiskInv

-----------------------------------------------------------------------------
(* Facts about the parts.                                                  *)

(* The types of the parts are the type invariant of Setup. *)
LEMMA TypesTogether == ASSUME SetupInv PROVE SetupTypeOK
BY DEF SetupInv, ChainInv, ProcessInv, DiskInv, DiskTypeOK, LocalTypeOK, SetupTypeOK

(* The assumptions on the constants, with the cardinality as a number. *)
LEMMA ConstantFacts ==
    /\ Cardinality(Keys) \in Nat /\ MaxForeign \in Nat /\ MaxSupra \in Nat /\ MaxFaults \in Nat
    /\ MintFee \in Nat /\ FundAmount \in Nat /\ NoKey \notin Keys
BY FS_CardinalityType, SetupChainAssumption, SetupAssumption

(* A fault stays within its bound. *)
LEMMA FaultType == ASSUME SetupInv, Fault \/ NoFault PROVE faults' \in 0 .. MaxFaults
BY ConstantFacts DEF SetupInv, ChainInv, ChainTypeOK, Fault, NoFault

(* A view call (Sees) may fault, and that is all it does. *)
LEMMA SeesType ==
    ASSUME SetupInv, NEW v, NEW c, NEW d, Sees(v, c, d)
    PROVE  faults' \in 0 .. MaxFaults /\ (v = c \/ v = d)
BY FaultType DEF Sees

(* The step after a stage, by mode (run_wizard, run_setup_after_keystore, the restore). *)
LEMMA NextSteps ==
    /\ NextStep("keystore") = IF mode = "restore" THEN "check_nft" ELSE "funding"
    /\ NextStep("no_nft") = IF mode = "restore" THEN "fail" ELSE "mint"
    /\ NextStep("nft") = IF mode = "wizard" THEN "withdrawal"
                         ELSE IF mode = "restore" \/ bootstrap THEN "write" ELSE "register"
    /\ mode # "restore" =>
        NextStep("register") = IF mode = "wizard" /\ bootstrap THEN "write" ELSE "escrow"
BY DEF NextStep, run_wizard, run_setup_after_keystore, run_setup_noninteractive_restore

(* Nobody waits outside the await steps. *)
LEMMA Quiet ==
    ASSUME SetupInv, pc \notin AwaitSteps \/ receipt # "pending"
    PROVE  /\ \A t \in mempool : t.orphan
           /\ pc \notin AwaitSteps => receipt = "none"
BY DEF SetupInv, TxInv, LiveTx, ChainInv, ChainTypeOK, Transactions

(* Where nobody waits, the transactions only have to be signed with known keys. *)
LEMMA QuietTx ==
    ASSUME receipt' = "none", \A t \in mempool' : t.orphan, SignedByKnown'
    PROVE  TxInv'
BY DEF TxInv, LiveTx, AnswersHold, RegisterAccepts, RequestAccepts

(* Mints are counted the same as long as nobody mints. *)
LEMMA ChainKept ==
    ASSUME SetupInv, UNCHANGED accountVars, faults' \in 0 .. MaxFaults,
           mempool' \subseteq Transactions,
           receipt' \in {"none", "pending", "rejected"} \cup Verdicts
    PROVE  ChainInv'
<1>1. ChainTypeOK'
  BY DEF SetupInv, ChainInv, ChainTypeOK, accountVars
<1>2. MintBound'
  BY DEF SetupInv, ChainInv, MintBound, Owners, accountVars
<1> QED BY <1>1, <1>2 DEF ChainInv

(* What the disk says is kept while the disk and the accounts are. *)
LEMMA DiskKept ==
    ASSUME SetupInv, UNCHANGED <<accountVars, keystore, config, overwritten>>,
           json_password' \in BOOLEAN
    PROVE  DiskInv'
BY DEF SetupInv, DiskInv, DiskTypeOK, NftKeyKept, ConfigHasKey, ConfigMatchesKeystore,
       ConfiguredMeansReady, accountVars

-----------------------------------------------------------------------------
(* The ends of a process.                                                  *)

(* Exit leaves orphans and resets the process. *)
LEMMA ExitParts ==
    ASSUME SetupInv, Exit, faults' \in 0 .. MaxFaults, UNCHANGED <<keystore, overwritten>>
    PROVE  ChainInv' /\ ProcessInv' /\ TxInv'
<1>1. \A u \in mempool' : u \in Transactions /\ u.orphan
                          /\ (u.key = keystore \/ u.key \in overwritten)
  <2> SUFFICES ASSUME NEW u \in mempool'
               PROVE  u \in Transactions /\ u.orphan /\ (u.key = keystore \/ u.key \in overwritten)
    OBVIOUS
  <2>1. PICK t \in mempool : u = [t EXCEPT !.orphan = TRUE]
    BY DEF Exit, Orphaned
  <2>2. t \in Transactions /\ (t.key = keystore \/ t.key \in overwritten)
    BY DEF SetupInv, ChainInv, ChainTypeOK, TxInv, SignedByKnown
  <2> QED BY <2>1, <2>2 DEF Transactions
<1>2. ChainInv'
  BY <1>1, ChainKept DEF Exit
<1>3. TxInv'
  BY <1>1, QuietTx DEF Exit, SignedByKnown
<1>4. LocalTypeOK'
  <2>1. todo' \in {<<>>, <<"TEE">>, <<"KAY", "TEE">>, <<"EMM", "KAY", "TEE">>}
    BY Zenon DEF Exit, LocalsReset
  <2>2. /\ pc' \in Steps /\ mode' \in Modes /\ key' \in Keys \cup {NoKey}
        /\ bootstrap' \in BOOLEAN /\ first_done' \in BOOLEAN
    BY Zenon DEF Exit, LocalsReset, Steps, Modes
  <2>3. funding' \in 0 .. MaxSupra /\ nft_id' \in 0 .. MaxForeign + Cardinality(Keys)
    BY ConstantFacts DEF Exit, LocalsReset
  <2> QED BY <2>1, <2>2, <2>3 DEF LocalTypeOK
<1>5. SignerOnDisk' /\ ModeFits' /\ StageDone' /\ OwnNft'
  BY DEF Exit, LocalsReset, SignerOnDisk, ModeFits, StageDone, OwnNft, TradingSteps
<1> QED BY <1>2, <1>3, <1>4, <1>5 DEF ProcessInv

(* A process that fails leaves the disk as it is. *)
LEMMA FailInv == ASSUME SetupInv, Fail, faults' \in 0 .. MaxFaults PROVE SetupInv'
<1>1. DiskInv'
  BY DiskKept DEF Fail, Exit, diskVars, SetupInv, DiskInv, DiskTypeOK
<1> QED BY <1>1, ExitParts DEF Fail, diskVars, SetupInv

(* A step that neither sends nor waits. *)
LEMMA GoToInv ==
    ASSUME SetupInv, NEW step, GoTo(step), pc \notin AwaitSteps,
           faults' \in 0 .. MaxFaults, UNCHANGED diskVars, ProcessInv'
    PROVE  SetupInv'
<1>1. ChainInv'
  BY ChainKept DEF GoTo, SetupInv, ChainInv, ChainTypeOK
<1>2. TxInv'
  BY Quiet, QuietTx DEF GoTo, diskVars, SetupInv, TxInv, SignedByKnown
<1>3. DiskInv'
  BY DiskKept DEF GoTo, diskVars, SetupInv, DiskInv, DiskTypeOK
<1> QED BY <1>1, <1>2, <1>3 DEF SetupInv

(* An answer is read. *)
LEMMA AnsweredInv ==
    ASSUME SetupInv, NEW accepted, NEW next, Answered(accepted, next), "pending" \notin accepted,
           UNCHANGED diskVars, ProcessInv'
    PROVE  SetupInv'
<1>1. ChainInv'
  BY ChainKept, FaultType DEF Answered, SetupInv, ChainInv, ChainTypeOK
<1>2. TxInv'
  BY Quiet, QuietTx DEF Answered, diskVars, SetupInv, TxInv, SignedByKnown
<1>3. DiskInv'
  BY DiskKept DEF Answered, diskVars, SetupInv, DiskInv, DiskTypeOK
<1> QED BY <1>1, <1>2, <1>3 DEF SetupInv

(* An answer that is not accepted, or none in time. *)
LEMMA NotAcceptedInv ==
    ASSUME SetupInv, NEW accepted, NotAccepted(accepted)
    PROVE  SetupInv'
BY FailInv, FaultType DEF NotAccepted, wait_for_tx_timeout

-----------------------------------------------------------------------------
(* Sending.                                                                *)

(* The step that sends, the step that waits, and the call. *)
Sends == {<<"mint", "await_mint", "mint_trustee_nft">>,
          <<"register", "await_register", "register_trader">>,
          <<"deposit", "await_deposit", "deposit">>,
          <<"claim", "await_claim", "claim_mint">>,
          <<"request", "await_request", "request_mint">>,
          <<"hold", "await_first_claim", "claim_mint">>}

(* A submitted transaction is of the process's key and step, and the only one it
   waits for (submit_entry_function). *)
LEMMA SendInv ==
    ASSUME SetupInv, NEW s \in Sends, pc = s[1], Await(s[2]),
           NEW token \in Tokens \cup {NoToken},
           NEW amount \in 0 .. MaxSupra + MaxForeign + Cardinality(Keys),
           submit_entry_function(key, s[3], token, amount)
    PROVE  SetupInv'
<1> DEFINE tx == [key |-> key, call |-> s[3], token |-> token, amount |-> amount, orphan |-> FALSE]
<1>0. /\ s[1] \in {"mint", "register", "deposit", "claim", "request", "hold"}
      /\ s[2] \in AwaitSteps /\ s[3] \in Calls /\ AwaitedCall[s[2]] = s[3]
  BY DEF Sends, AwaitSteps, AwaitedCall, Calls
<1>1. /\ pc' = s[2]
      /\ UNCHANGED <<keystore, config, json_password, overwritten, mode, key, bootstrap, funding,
                     nft_id, todo, first_done>>
      /\ UNCHANGED accountVars
      /\ faults' \in 0 .. MaxFaults
  BY FaultType DEF Await, diskVars, localVars, submit_entry_function
<1>2. pc \notin AwaitSteps /\ key = keystore /\ key \in Keys
  BY <1>0 DEF SetupInv, ProcessInv, SignerOnDisk, AwaitSteps
<1>3. (\A t \in mempool : t.orphan) /\ receipt = "none"
  BY <1>2, Quiet
<1>4. \A t \in mempool : t \in Transactions /\ (t.key = keystore \/ t.key \in overwritten)
  BY DEF SetupInv, ChainInv, ChainTypeOK, TxInv, SignedByKnown
<1>5. tx \in Transactions /\ tx.key = key /\ tx.call = s[3]
  BY <1>0, <1>2 DEF Transactions
<1>6. /\ receipt' \in {"pending", "rejected"}
      /\ \A t \in mempool' : t \in mempool \/ (t = tx /\ receipt' = "pending")
  BY DEF submit_entry_function
<1> HIDE DEF tx
<1>7. ChainInv'
  BY <1>1, <1>4, <1>5, <1>6, ChainKept
<1>8. TxInv'
  <2>1. SignedByKnown'
    BY <1>1, <1>2, <1>4, <1>5, <1>6 DEF SignedByKnown
  <2>2. LiveTx'
    BY <1>0, <1>1, <1>3, <1>5, <1>6 DEF LiveTx
  <2>3. AnswersHold'
    BY <1>6 DEF AnswersHold, RegisterAccepts, RequestAccepts
  <2> QED BY <2>1, <2>2, <2>3 DEF TxInv
<1>9. DiskInv'
  BY <1>1, DiskKept DEF SetupInv, DiskInv, DiskTypeOK
<1>10. ProcessInv'
  <2>1. LocalTypeOK'
    BY <1>0, <1>1 DEF SetupInv, ProcessInv, LocalTypeOK, Steps
  <2>2. SignerOnDisk' /\ OwnNft'
    BY <1>0, <1>1, <1>2 DEF AwaitSteps, SetupInv, ProcessInv, SignerOnDisk, OwnNft, accountVars
  <2>3. ModeFits'
    BY <1>0, <1>1 DEF SetupInv, ProcessInv, ModeFits, AwaitSteps
  <2>4. StageDone'
    BY <1>1 DEF SetupInv, ProcessInv, StageDone, TradingSteps, accountVars, Sends
  <2> QED BY <2>1, <2>2, <2>3, <2>4 DEF ProcessInv
<1> QED BY <1>7, <1>8, <1>9, <1>10 DEF SetupInv

-----------------------------------------------------------------------------
(* The process, step by step.                                              *)

(* A process that only moves on keeps what holds of it, if the next step demands
   no more. *)
LEMMA MoveOn ==
    ASSUME SetupInv, UNCHANGED <<accountVars, diskVars, localVars>>, pc' \in Steps,
           pc \notin {"idle", "running", "keystore"}, pc' \notin {"idle", "running", "keystore"},
           mode = "restore" => pc' \in {"check_nft", "nft_id", "write"},
           pc' \in TradingSteps => key \in registered,
           pc' = "write" /\ mode # "restore" /\ ~bootstrap => key \in registered /\ Ready(key),
           pc' \notin {"deposit", "await_deposit"}
    PROVE  ProcessInv'
<1>1. LocalTypeOK'
  BY DEF SetupInv, ProcessInv, LocalTypeOK, localVars
<1>2. SignerOnDisk' /\ ModeFits' /\ OwnNft'
  BY DEF SetupInv, ProcessInv, SignerOnDisk, ModeFits, OwnNft, localVars, diskVars, accountVars
<1>3. StageDone'
  BY DEF StageDone, Ready, localVars, accountVars
<1> QED BY <1>1, <1>2, <1>3 DEF ProcessInv

(* The keystore is unlocked or made: the signer is its key, and a key that is
   replaced is counted as overwritten. *)
LEMMA UnlockedInv ==
    ASSUME SetupInv, pc = "keystore", NEW k \in Keys, Unlocked(k), keystore' = k,
           faults' \in 0 .. MaxFaults,
           \/ keystore = k /\ overwritten' = overwritten
           \/ keystore = NoKey /\ overwritten' = overwritten
           \/ keystore \in Keys /\ mode = "wizard" /\ overwritten' = overwritten \cup {keystore}
    PROVE  SetupInv'
<1>1. /\ UNCHANGED <<config, json_password, mode, bootstrap, funding, nft_id, todo, first_done>>
      /\ key' = k /\ UNCHANGED <<mempool, receipt, accountVars>>
      /\ pc' \in {"check_nft", "funding"} /\ (mode = "restore" => pc' = "check_nft")
  BY NextSteps DEF Unlocked, GoTo
<1>2. ChainInv'
  BY <1>1, ChainKept DEF SetupInv, ChainInv, ChainTypeOK
<1>3. keystore \in Keys => keystore = k \/ keystore \in overwritten'
  BY ConstantFacts DEF SetupInv, DiskInv, DiskTypeOK
<1>4. overwritten \subseteq overwritten' /\ overwritten' \subseteq Keys
  BY DEF SetupInv, DiskInv, DiskTypeOK
<1>5. TxInv'
  <2>1. SignedByKnown'
    <3>1. \A t \in mempool : t.key \in Keys
      BY DEF SetupInv, ChainInv, ChainTypeOK, Transactions
    <3> QED BY <1>1, <1>3, <1>4, <3>1 DEF SetupInv, TxInv, SignedByKnown
  <2> QED BY <1>1, <2>1, Quiet, QuietTx DEF AwaitSteps
<1>6. pc # "idle" /\ pc # "running" /\ OwnNft /\ ModeFits
  BY DEF SetupInv, ProcessInv
<1>7. ProcessInv'
  <2>1. LocalTypeOK'
    BY <1>1 DEF SetupInv, ProcessInv, LocalTypeOK, Steps
  <2>2. SignerOnDisk'
    BY <1>1 DEF SignerOnDisk
  <2>3. ModeFits'
    BY <1>1, <1>6, ConstantFacts DEF ModeFits
  <2>4. StageDone'
    BY <1>1 DEF StageDone, TradingSteps
  <2>5. OwnNft'
    BY <1>1 DEF SetupInv, ProcessInv, OwnNft, SignerOnDisk, accountVars
  <2> QED BY <2>1, <2>2, <2>3, <2>4, <2>5 DEF ProcessInv
<1>8. DiskInv'
  <2>1. NftKeyKept'
    BY <1>1, <1>3, <1>4 DEF SetupInv, DiskInv, NftKeyKept, accountVars
  <2>2. keystore = k \/ config = NoConfig
    BY <1>6, ConstantFacts DEF SetupInv, DiskInv, ConfigHasKey, ModeFits
  <2>3. ConfigHasKey' /\ ConfigMatchesKeystore' /\ DiskTypeOK'
    BY <1>1, <1>4, <2>2 DEF SetupInv, DiskInv, DiskTypeOK, ConfigHasKey, ConfigMatchesKeystore, accountVars
  <2>4. ConfiguredMeansReady'
    BY <1>1 DEF SetupInv, DiskInv, ConfiguredMeansReady, accountVars
  <2> QED BY <2>1, <2>3, <2>4 DEF DiskInv
<1> QED BY <1>2, <1>5, <1>7, <1>8 DEF SetupInv

(* The three ways to get at a key. *)
LEMMA KeystoreInv ==
    ASSUME SetupInv,
           wizard_generate_keypair \/ generate_keystore_noninteractive \/ unlock_existing_keystore
    PROVE  SetupInv'
<1>0. keystore \in Keys \/ keystore = NoKey
  BY DEF SetupInv, DiskInv, DiskTypeOK
<1>1. ASSUME pc = "keystore", NEW k \in FreshKeys, save_keystore(k), Unlocked(k),
             Fault \/ NoFault,
             \/ keystore = NoKey /\ overwritten' = overwritten
             \/ keystore # NoKey /\ mode = "wizard" /\ overwritten' = overwritten \cup {keystore}
      PROVE  SetupInv'
  BY <1>0, <1>1, UnlockedInv, FaultType DEF FreshKeys, save_keystore
<1>2. ASSUME pc = "keystore", keystore # NoKey, Unlocked(keystore), NoFault,
             UNCHANGED <<keystore, overwritten>>
      PROVE  SetupInv'
  BY <1>0, <1>2, UnlockedInv, FaultType
<1>3. CASE wizard_generate_keypair
  <2>1. CASE keystore # NoKey /\ Unlocked(keystore) /\ NoFault /\ UNCHANGED <<keystore, overwritten>>
    BY <1>2, <1>3, <2>1 DEF wizard_generate_keypair
  <2>2. CASE \E k \in FreshKeys : /\ keystore # NoKey /\ Fault /\ save_keystore(k)
                                  /\ overwritten' = overwritten \cup {keystore} /\ Unlocked(k)
    BY <1>1, <1>3, <2>2 DEF wizard_generate_keypair
  <2>3. CASE \E k \in FreshKeys : /\ keystore = NoKey /\ NoFault /\ save_keystore(k)
                                  /\ overwritten' = overwritten /\ Unlocked(k)
    BY <1>1, <1>3, <2>3 DEF wizard_generate_keypair
  <2> QED BY <1>3, <2>1, <2>2, <2>3 DEF wizard_generate_keypair
<1>4. CASE generate_keystore_noninteractive
  BY <1>1, <1>4 DEF generate_keystore_noninteractive
<1>5. CASE unlock_existing_keystore
  <2>1. keystore # NoKey
    BY <1>5 DEF unlock_existing_keystore, SetupInv, ProcessInv, ModeFits
  <2>2. CASE Unlocked(keystore) /\ NoFault /\ UNCHANGED <<keystore, overwritten>>
    BY <1>2, <1>5, <2>1, <2>2 DEF unlock_existing_keystore
  <2>3. CASE Fault /\ Fail
    BY <2>3, FaultType, FailInv
  <2> QED BY <1>5, <2>2, <2>3 DEF unlock_existing_keystore
<1> QED BY <1>3, <1>4, <1>5

(* A process at one of its steps, without the details. *)
LEMMA AtStep ==
    ASSUME SetupInv, pc \notin {"idle", "running", "keystore"}
    PROVE  /\ key = keystore /\ key \in Keys
           /\ LocalTypeOK /\ OwnNft /\ StageDone /\ ModeFits
           /\ supra[key] \in 0 .. MaxSupra /\ nft[key] \in 0 .. MaxForeign + Cardinality(Keys)
BY DEF SetupInv, ProcessInv, SignerOnDisk, ChainInv, ChainTypeOK

(* The wait for funds. *)
LEMMA FundingInv == ASSUME SetupInv, wait_for_funding PROVE SetupInv'
<1>1. /\ pc = "funding" /\ GoTo("check_nft") /\ pc' = "check_nft" /\ funding' = supra[key]
      /\ UNCHANGED <<diskVars, mode, key, bootstrap, nft_id, todo, first_done>>
      /\ UNCHANGED accountVars
      /\ faults' \in 0 .. MaxFaults
  BY FaultType DEF wait_for_funding, get_all_balances, GoTo
<1>2. /\ key = keystore /\ key \in Keys
      /\ LocalTypeOK /\ OwnNft /\ StageDone /\ ModeFits
      /\ supra[key] \in 0 .. MaxSupra
  BY <1>1, AtStep
<1>3. LocalTypeOK'
  BY <1>1, <1>2 DEF LocalTypeOK, Steps
<1>4. SignerOnDisk' /\ ModeFits' /\ StageDone' /\ OwnNft'
  BY <1>1, <1>2 DEF SignerOnDisk, ModeFits, StageDone, OwnNft, TradingSteps, diskVars, accountVars
<1>5. ProcessInv'
  BY <1>3, <1>4 DEF ProcessInv
<1> QED BY <1>1, <1>5, GoToInv DEF AwaitSteps

(* Is there an NFT already? *)
LEMMA CheckNftInv == ASSUME SetupInv, check_existing_nft PROVE SetupInv'
<1>1. pc = "check_nft" /\ faults' \in 0 .. MaxFaults
  BY SeesType DEF check_existing_nft, is_trustee
<1>2. CASE Fail
  BY <1>1, <1>2, FailInv
<1>3. CASE GoTo("nft_id") /\ UNCHANGED <<diskVars, localVars>>
  <2>1. pc' = "nft_id" /\ UNCHANGED accountVars
    BY <1>3 DEF GoTo
  <2>2. ProcessInv'
    BY <1>1, <1>3, <2>1, MoveOn DEF Steps, TradingSteps
  <2> QED BY <1>1, <1>3, <2>2, GoToInv DEF AwaitSteps
<1>4. CASE NextStep("no_nft") # "fail" /\ GoTo(NextStep("no_nft")) /\ UNCHANGED <<diskVars, localVars>>
  <2>1. pc' = "mint" /\ mode # "restore" /\ UNCHANGED accountVars
    BY <1>4, NextSteps DEF GoTo
  <2>2. ProcessInv'
    BY <1>1, <1>4, <2>1, MoveOn DEF Steps, TradingSteps
  <2> QED BY <1>1, <1>4, <2>2, GoToInv DEF AwaitSteps
<1> QED BY <1>2, <1>3, <1>4 DEF check_existing_nft

(* The id is read: its own or 0. *)
LEMMA ReadNftIdInv == ASSUME SetupInv, ReadNftId PROVE SetupInv'
<1>1. /\ pc = "nft_id" /\ GoTo(NextStep("nft")) /\ pc' = NextStep("nft")
      /\ UNCHANGED <<diskVars, mode, key, bootstrap, funding, todo, first_done>>
      /\ UNCHANGED accountVars
      /\ nft_id' \in {0, nft[key]}
      /\ faults' \in 0 .. MaxFaults
  BY SeesType DEF ReadNftId, get_nft_id, GoTo
<1>2. /\ key = keystore /\ key \in Keys
      /\ LocalTypeOK /\ OwnNft /\ StageDone /\ ModeFits
      /\ nft[key] \in 0 .. MaxForeign + Cardinality(Keys)
  BY <1>1, AtStep
<1>3. /\ pc' \in {"withdrawal", "write", "register"}
      /\ mode = "restore" => pc' = "write"
      /\ pc' = "write" => mode = "restore" \/ bootstrap
  BY <1>1, NextSteps, Zenon
<1>4. LocalTypeOK'
  BY <1>1, <1>2, <1>3, ConstantFacts DEF LocalTypeOK, Steps
<1>5. SignerOnDisk' /\ ModeFits' /\ StageDone' /\ OwnNft'
  BY <1>1, <1>2, <1>3 DEF SignerOnDisk, ModeFits, StageDone, OwnNft, TradingSteps, diskVars, accountVars
<1>6. ProcessInv'
  BY <1>4, <1>5 DEF ProcessInv
<1> QED BY <1>1, <1>6, GoToInv DEF AwaitSteps

(* The NFT is minted, and its answer read. *)
LEMMA MintInv == ASSUME SetupInv, mint_nft_pair \/ AwaitMint PROVE SetupInv'
<1>1. CASE mint_nft_pair
  <2>1. CASE Fault /\ Fail
    BY <2>1, FaultType, FailInv
  <2>2. CASE submit_mint(key) /\ Await("await_mint")
    <3>1. <<"mint", "await_mint", "mint_trustee_nft">> \in Sends
      BY DEF Sends
    <3>2. pc = "mint" /\ 0 \in 0 .. MaxSupra + MaxForeign + Cardinality(Keys)
      BY <1>1, ConstantFacts DEF mint_nft_pair
    <3> QED BY <2>2, <3>1, <3>2, SendInv DEF submit_mint
  <2> QED BY <1>1, <2>1, <2>2 DEF mint_nft_pair
<1>2. CASE AwaitMint
  <2>1. CASE Answered({"Success"}, "nft_id") /\ UNCHANGED <<diskVars, localVars>>
    <3>1. pc = "await_mint" /\ pc' = "nft_id" /\ UNCHANGED accountVars
      BY <1>2, <2>1 DEF AwaitMint, Answered
    <3>2. ProcessInv'
      BY <2>1, <3>1, MoveOn DEF Steps, TradingSteps
    <3> QED BY <2>1, <3>2, AnsweredInv
  <2>2. CASE NotAccepted({"Success"})
    BY <2>2, NotAcceptedInv
  <2> QED BY <1>2, <2>1, <2>2 DEF AwaitMint
<1> QED BY <1>1, <1>2

(* The withdrawal rules are asked for. *)
LEMMA WithdrawalInv == ASSUME SetupInv, prompt_withdrawal_config PROVE SetupInv'
<1>1. CASE GoTo("register") /\ NoFault /\ UNCHANGED <<diskVars, localVars>>
  <2>1. pc = "withdrawal" /\ pc' = "register" /\ UNCHANGED accountVars
    BY <1>1 DEF prompt_withdrawal_config, GoTo
  <2>2. mode # "restore"
    BY <2>1, AtStep DEF ModeFits
  <2>3. ProcessInv'
    BY <1>1, <2>1, <2>2, MoveOn DEF Steps, TradingSteps
  <2> QED BY <1>1, <2>1, <2>3, GoToInv, FaultType DEF AwaitSteps
<1>2. CASE Fault /\ Fail
  BY <1>2, FaultType, FailInv
<1> QED BY <1>1, <1>2 DEF prompt_withdrawal_config

(* The registration. *)
LEMMA RegisterInv == ASSUME SetupInv, register_and_deposit PROVE SetupInv'
<1>1. CASE pc = "register" /\ submit_register(key, nft_id) /\ Await("await_register")
  <2>1. <<"register", "await_register", "register_trader">> \in Sends
    BY DEF Sends
  <2>2. nft_id \in 0 .. MaxSupra + MaxForeign + Cardinality(Keys)
    BY <1>1, AtStep, ConstantFacts DEF LocalTypeOK
  <2> QED BY <1>1, <2>1, <2>2, SendInv DEF submit_register
<1>2. CASE pc = "await_register" /\ NotAccepted(RegisterAccepts)
  BY <1>2, NotAcceptedInv
<1>3. CASE /\ pc = "await_register" /\ Answered(RegisterAccepts, NextStep("register"))
           /\ UNCHANGED <<diskVars, localVars>>
  <2>1. mode # "restore"
    BY <1>3, AtStep DEF ModeFits
  <2>2. key \in registered
    BY <1>3 DEF Answered, SetupInv, TxInv, AnswersHold
  <2>3. /\ pc' \in {"write", "escrow"} /\ (pc' = "write" => bootstrap)
        /\ UNCHANGED accountVars
    BY <1>3, <2>1, NextSteps DEF Answered
  <2>4. ProcessInv'
    BY <1>3, <2>1, <2>2, <2>3, MoveOn DEF Steps, TradingSteps
  <2>5. "pending" \notin RegisterAccepts
    BY DEF RegisterAccepts
  <2> QED BY <1>3, <2>4, <2>5, AnsweredInv
<1> QED BY <1>1, <1>2, <1>3 DEF register_and_deposit

(* Something in escrow is enough. *)
LEMMA CheckEscrowInv == ASSUME SetupInv, CheckEscrow PROVE SetupInv'
<1>1. pc = "escrow" /\ UNCHANGED <<diskVars, localVars>>
  BY DEF CheckEscrow
<1>2. PICK seen \in {{}, escrow[key]} :
        get_escrow_balance(key, nft_id, seen) /\ GoTo(IF seen # {} THEN "write" ELSE "wallet")
  BY DEF CheckEscrow
<1>3. faults' \in 0 .. MaxFaults
  BY <1>2, SeesType DEF get_escrow_balance
<1>4. /\ pc' \in {"write", "wallet"} /\ UNCHANGED accountVars
      /\ pc' = "write" => escrow[key] # {}
  BY <1>2 DEF GoTo
<1>5. key \in registered /\ mode # "restore"
  BY <1>1, AtStep DEF StageDone, TradingSteps, ModeFits
<1>6. ProcessInv'
  BY <1>1, <1>4, <1>5, MoveOn DEF Steps, Ready
<1> QED BY <1>1, <1>2, <1>3, <1>6, GoToInv DEF AwaitSteps

(* Tokens in the wallet are to be deposited. *)
LEMMA CheckWalletInv == ASSUME SetupInv, CheckWallet PROVE SetupInv'
<1>1. /\ pc = "wallet" /\ UNCHANGED <<diskVars, mode, key, bootstrap, funding, nft_id, first_done>>
      /\ faults' \in 0 .. MaxFaults
  BY SeesType DEF CheckWallet, get_fa_balance
<1>2. /\ UNCHANGED accountVars
      /\ \/ pc' = "deposit" /\ GoTo("deposit") /\ todo' = <<"EMM", "KAY", "TEE">>
         \/ pc' = "mint_state" /\ GoTo("mint_state") /\ todo' = todo
  BY DEF CheckWallet, GoTo
<1>3. /\ key = keystore /\ key \in Keys /\ LocalTypeOK /\ OwnNft /\ StageDone /\ ModeFits
  BY <1>1, AtStep
<1>4. todo' \in {<<>>, <<"TEE">>, <<"KAY", "TEE">>, <<"EMM", "KAY", "TEE">>}
  BY <1>2, <1>3, Zenon DEF LocalTypeOK
<1>5. pc' = "deposit" => todo' # <<>>
  BY <1>2
<1>6. pc' \in {"deposit", "mint_state"}
  BY <1>2
<1>7. LocalTypeOK'
  <2>1. pc' \in Steps
    BY <1>6 DEF Steps
  <2> QED BY <1>1, <1>3, <1>4, <2>1 DEF LocalTypeOK
<1>8. SignerOnDisk' /\ ModeFits' /\ StageDone' /\ OwnNft'
  <2>1. UNCHANGED accountVars
    BY <1>2
  <2> QED BY <1>1, <1>3, <1>5, <1>6, <2>1
          DEF SignerOnDisk, ModeFits, StageDone, OwnNft, TradingSteps, diskVars, accountVars
<1>9. ProcessInv'
  BY <1>7, <1>8 DEF ProcessInv
<1> QED BY <1>1, <1>2, <1>9, GoToInv DEF AwaitSteps

(* The list of deposits, taken from the front. *)
LEMMA Deposits ==
    ASSUME todo \in {<<>>, <<"TEE">>, <<"KAY", "TEE">>, <<"EMM", "KAY", "TEE">>}, todo # <<>>
    PROVE  /\ Head(todo) \in Tokens
           /\ Tail(todo) \in {<<>>, <<"TEE">>, <<"KAY", "TEE">>, <<"EMM", "KAY", "TEE">>}
           /\ Len(todo) # 1 => Tail(todo) # <<>>
<1>1. CASE todo = <<"TEE">>
  <2>1. Tail(todo) = <<>> /\ Len(todo) = 1 /\ Head(todo) = "TEE"
    BY <1>1
  <2> QED BY <2>1 DEF Tokens
<1>2. CASE todo = <<"KAY", "TEE">>
  <2>1. Tail(todo) = <<"TEE">> /\ Head(todo) = "KAY"
    BY <1>2
  <2> QED BY <2>1 DEF Tokens
<1>3. CASE todo = <<"EMM", "KAY", "TEE">>
  <2>1. Tail(todo) = <<"KAY", "TEE">> /\ Head(todo) = "EMM"
    BY <1>3
  <2> QED BY <2>1 DEF Tokens
<1> QED BY <1>1, <1>2, <1>3

(* The deposits, one after the other. *)
LEMMA DepositInv == ASSUME SetupInv, DepositTokens PROVE SetupInv'
<1>0. /\ pc \in {"deposit", "await_deposit"} 
      /\ key = keystore /\ key \in Keys /\ LocalTypeOK /\ OwnNft /\ StageDone /\ ModeFits
  BY AtStep DEF DepositTokens
<1> DEFINE rest == Tail(todo)
<1>1. /\ Head(todo) \in Tokens
      /\ rest \in {<<>>, <<"TEE">>, <<"KAY", "TEE">>, <<"EMM", "KAY", "TEE">>}
      /\ Len(todo) # 1 => rest # <<>>
  BY <1>0, Deposits DEF LocalTypeOK, StageDone
<1> HIDE DEF rest
<1>2. CASE pc = "deposit" /\ submit_deposit(key, Head(todo)) /\ Await("await_deposit")
  <2>1. <<"deposit", "await_deposit", "deposit">> \in Sends
    BY DEF Sends
  <2>2. 0 \in 0 .. MaxSupra + MaxForeign + Cardinality(Keys)
    BY ConstantFacts
  <2> QED BY <1>1, <1>2, <2>1, <2>2, SendInv DEF submit_deposit
<1>3. CASE NotAccepted({"Success"})
  BY <1>3, NotAcceptedInv
<1>4. CASE /\ pc = "await_deposit"
           /\ Answered({"Success"}, IF Len(todo) = 1 THEN "write" ELSE "deposit")
           /\ todo' = Tail(todo)
           /\ UNCHANGED <<diskVars, mode, key, bootstrap, funding, nft_id, first_done>>
  <2>1. /\ todo' = rest
        /\ UNCHANGED <<diskVars, mode, key, bootstrap, funding, nft_id, first_done>>
        /\ UNCHANGED accountVars
    BY <1>4 DEF rest, Answered
  <2>2. escrow[key] # {}
    BY <1>4 DEF Answered, SetupInv, TxInv, AnswersHold
  <2>3. pc' \in {"write", "deposit"} /\ (pc' = "deposit" => Len(todo) # 1)
    BY <1>4 DEF Answered
  <2>4. LocalTypeOK'
    <3>1. pc' \in Steps
      BY <2>3 DEF Steps
    <3>2. todo' \in {<<>>, <<"TEE">>, <<"KAY", "TEE">>, <<"EMM", "KAY", "TEE">>}
      BY <1>1, <2>1, Zenon
    <3> QED BY <1>0, <2>1, <3>1, <3>2 DEF LocalTypeOK
  <2>5. pc' = "deposit" => todo' # <<>>
    BY <1>1, <2>1, <2>3, Zenon
  <2>6. SignerOnDisk' /\ ModeFits' /\ StageDone' /\ OwnNft'
    <3>1. key \in registered
      BY <1>0 DEF StageDone, TradingSteps
    <3>2. UNCHANGED <<diskVars, mode, key, bootstrap, funding, nft_id, first_done, accountVars>>
      BY <2>1
    <3> QED BY <1>0, <2>2, <2>3, <2>5, <3>1, <3>2
            DEF SignerOnDisk, ModeFits, StageDone, OwnNft, TradingSteps, Ready, diskVars, accountVars
  <2>7. ProcessInv'
    BY <2>4, <2>6 DEF ProcessInv
  <2> QED BY <1>4, <2>7, AnsweredInv
<1> QED BY <1>2, <1>3, <1>4 DEF DepositTokens

(* A mint that is seen pending is pending. *)
LEMMA CheckMintStateInv == ASSUME SetupInv, CheckMintState PROVE SetupInv'
<1>1. PICK state \in BOOLEAN \X BOOLEAN :
        /\ get_nft_mint_state(key, state)
        /\ first_done' = state[1]
        /\ \/ ~state[2] /\ GoTo("request")
           \/ state[2] /\ get_pending_mint_claimable_at(key) /\ GoTo("claim")
           \/ state[2] /\ GoTo("write")
  BY DEF CheckMintState
<1>2. /\ pc = "mint_state" /\ UNCHANGED <<diskVars, mode, key, bootstrap, funding, nft_id, todo>>
      /\ faults' \in 0 .. MaxFaults
      /\ state[2] => pending_mint[key] # "none"
  <2> DEFINE done == key \in first_minted
             pending == (pending_mint[key] # "none")
  <2>1. Sees(state, <<done, pending>>, <<FALSE, FALSE>>)
    BY <1>1, Zenon DEF get_nft_mint_state
  <2>2. faults' \in 0 .. MaxFaults /\ (state = <<done, pending>> \/ state = <<FALSE, FALSE>>)
    BY <2>1, SeesType
  <2>3. state[2] = pending \/ state[2] = FALSE
    <3> HIDE DEF done, pending
    <3>1. <<done, pending>>[2] = pending /\ <<FALSE, FALSE>>[2] = FALSE
      OBVIOUS
    <3> QED BY <2>2, <3>1, Zenon
  <2> QED BY <2>2, <2>3 DEF CheckMintState
<1>3. /\ UNCHANGED accountVars /\ first_done' \in BOOLEAN
      /\ pc' \in {"request", "claim", "write"} /\ (pc' = "write" => state[2])
  BY <1>1 DEF GoTo
<1>4. key = keystore /\ key \in Keys /\ LocalTypeOK /\ OwnNft /\ StageDone /\ ModeFits
  BY <1>2, AtStep
<1>5. LocalTypeOK'
  BY <1>2, <1>3, <1>4 DEF LocalTypeOK, Steps
<1>6. SignerOnDisk' /\ ModeFits' /\ StageDone' /\ OwnNft'
  BY <1>2, <1>3, <1>4
  DEF SignerOnDisk, ModeFits, StageDone, OwnNft, TradingSteps, Ready, diskVars, accountVars
<1>7. ProcessInv'
  BY <1>5, <1>6 DEF ProcessInv
<1> QED BY <1>1, <1>2, <1>7, GoToInv DEF AwaitSteps

(* A pending mint is claimed. *)
LEMMA ClaimInv == ASSUME SetupInv, ClaimMint PROVE SetupInv'
<1>1. CASE pc = "claim" /\ submit_claim_mint(key) /\ Await("await_claim")
  <2>1. <<"claim", "await_claim", "claim_mint">> \in Sends
    BY DEF Sends
  <2>2. 0 \in 0 .. MaxSupra + MaxForeign + Cardinality(Keys)
    BY ConstantFacts
  <2> QED BY <1>1, <2>1, <2>2, SendInv DEF submit_claim_mint
<1>2. CASE NotAccepted({"Success"})
  BY <1>2, NotAcceptedInv
<1>3. CASE /\ pc = "await_claim" /\ Answered({"Success"}, "poll_escrow")
           /\ UNCHANGED <<diskVars, localVars>>
  <2>1. key \in registered /\ mode # "restore"
    BY <1>3, AtStep DEF StageDone, TradingSteps, ModeFits
  <2>2. pc' = "poll_escrow" /\ UNCHANGED accountVars
    BY <1>3 DEF Answered
  <2>3. ProcessInv'
    BY <1>3, <2>1, <2>2, MoveOn DEF Steps
  <2> QED BY <1>3, <2>3, AnsweredInv
<1> QED BY <1>1, <1>2, <1>3 DEF ClaimMint

(* Only balances that are there are seen. *)
LEMMA PollEscrowInv == ASSUME SetupInv, PollEscrow PROVE SetupInv'
<1>1. PICK seen \in {{}, escrow[key]} :
        /\ get_escrow_balance(key, nft_id, seen)
        /\ \/ seen = Tokens /\ GoTo("write") /\ UNCHANGED <<diskVars, localVars>>
           \/ seen # Tokens /\ Fail
  BY DEF PollEscrow
<1>2. pc = "poll_escrow" /\ faults' \in 0 .. MaxFaults
  BY <1>1, SeesType DEF PollEscrow, get_escrow_balance
<1>3. CASE seen = Tokens /\ GoTo("write") /\ UNCHANGED <<diskVars, localVars>>
  <2>1. escrow[key] # {}
    BY <1>1, <1>3 DEF Tokens
  <2>2. key \in registered /\ mode # "restore"
    BY <1>2, AtStep DEF StageDone, TradingSteps, ModeFits
  <2>3. pc' = "write" /\ UNCHANGED accountVars
    BY <1>3 DEF GoTo
  <2>4. ProcessInv'
    BY <1>2, <1>3, <2>1, <2>2, <2>3, MoveOn DEF Steps, TradingSteps, Ready
  <2> QED BY <1>2, <1>3, <2>4, GoToInv DEF AwaitSteps
<1> QED BY <1>1, <1>2, <1>3, FailInv

(* The tokens are asked for. *)
LEMMA RequestInv == ASSUME SetupInv, RequestMint PROVE SetupInv'
<1>0. /\ pc \in {"request", "await_request"}
      /\ key \in Keys /\ key \in registered /\ mode # "restore" /\ LocalTypeOK
  BY AtStep DEF RequestMint, StageDone, TradingSteps, ModeFits
<1>1. CASE pc = "request" /\ NoFault /\ Fail
  BY <1>1, FaultType, FailInv
<1>2. CASE pc = "request" /\ submit_request_mint(key, MintCost) /\ Await("await_request")
  <2>1. <<"request", "await_request", "request_mint">> \in Sends
    BY DEF Sends
  <2>2. MintCost \in 0 .. MaxSupra + MaxForeign + Cardinality(Keys)
    <3>1. funding \in Nat /\ funding <= MaxSupra
      BY <1>0 DEF LocalTypeOK
    <3>2. (funding * 7) \div 10 \in Nat /\ (funding * 7) \div 10 <= funding
      BY <3>1, Z3
    <3> QED BY <3>1, <3>2, ConstantFacts DEF MintCost
  <2> QED BY <1>2, <2>1, <2>2, SendInv DEF submit_request_mint
<1>3. CASE pc = "await_request" /\ NotAccepted(RequestAccepts)
  BY <1>3, NotAcceptedInv
<1>4. CASE /\ pc = "await_request"
           /\ Answered(RequestAccepts, IF receipt = "Success" /\ ~first_done THEN "hold" ELSE "write")
           /\ UNCHANGED <<diskVars, localVars>>
  <2>1. Ready(key)
    BY <1>4 DEF Answered, SetupInv, TxInv, AnswersHold
  <2>2. pc' \in {"hold", "write"} /\ UNCHANGED accountVars
    BY <1>4 DEF Answered
  <2>3. ProcessInv'
    BY <1>0, <1>4, <2>1, <2>2, MoveOn DEF Steps
  <2>4. "pending" \notin RequestAccepts
    BY DEF RequestAccepts
  <2> QED BY <1>4, <2>3, <2>4, AnsweredInv
<1> QED BY <1>1, <1>2, <1>3, <1>4 DEF RequestMint

(* The first mint is claimed after its hold period. *)
LEMMA FirstClaimInv == ASSUME SetupInv, WaitFirstClaim PROVE SetupInv'
<1>0. /\ pc \in {"hold", "await_first_claim"}
      /\ key \in registered /\ mode # "restore"
  BY AtStep DEF WaitFirstClaim, StageDone, TradingSteps, ModeFits
<1>1. CASE pc = "hold" /\ submit_claim_mint(key) /\ Await("await_first_claim")
  <2>1. <<"hold", "await_first_claim", "claim_mint">> \in Sends
    BY DEF Sends
  <2>2. 0 \in 0 .. MaxSupra + MaxForeign + Cardinality(Keys)
    BY ConstantFacts
  <2> QED BY <1>1, <2>1, <2>2, SendInv DEF submit_claim_mint
<1>2. CASE (Fault \/ wait_for_tx_timeout) /\ Fail
  BY <1>2, FaultType, FailInv DEF wait_for_tx_timeout
<1>3. ASSUME NEW accepted, NEW next \in {"poll_escrow", "hold"}, Answered(accepted, next),
             "pending" \notin accepted, UNCHANGED <<diskVars, localVars>>
      PROVE  SetupInv'
  <2>1. pc' \in {"poll_escrow", "hold"} /\ UNCHANGED accountVars
    BY <1>3 DEF Answered
  <2>2. ProcessInv'
    BY <1>0, <1>3, <2>1, MoveOn DEF Steps
  <2> QED BY <1>3, <2>2, AnsweredInv
<1>4. "pending" \notin {"Success"} /\ "pending" \notin (Verdicts \cup {"rejected"}) \ {"Success"}
  BY DEF Verdicts
<1>5. CASE Answered({"Success"}, "poll_escrow") /\ UNCHANGED <<diskVars, localVars>>
  BY <1>3, <1>4, <1>5
<1>6. CASE Answered((Verdicts \cup {"rejected"}) \ {"Success"}, "hold") /\ UNCHANGED <<diskVars, localVars>>
  BY <1>3, <1>4, <1>6
<1> QED BY <1>1, <1>2, <1>5, <1>6 DEF WaitFirstClaim

(* config.json is written for a key that is ready, and then setup.json is scrubbed. *)
LEMMA WriteInv ==
    ASSUME SetupInv, WriteConfig \/ scrub_password_from_setup_file
    PROVE  SetupInv'
<1>1. CASE scrub_password_from_setup_file
  <2>1. /\ Exit /\ UNCHANGED <<keystore, config, overwritten>> /\ json_password' \in BOOLEAN
        /\ UNCHANGED accountVars
        /\ faults' \in 0 .. MaxFaults
    BY <1>1, FaultType DEF scrub_password_from_setup_file, Exit, SetupInv, DiskInv, DiskTypeOK
  <2>2. DiskInv'
    BY <2>1, DiskKept
  <2> QED BY <2>1, <2>2, ExitParts DEF SetupInv
<1>2. CASE WriteConfig /\ Fault /\ Fail
  BY <1>2, FaultType, FailInv
<1>3. CASE /\ pc = "write"
           /\ config' = [key |-> key, nft |-> nft_id, bootstrap |-> bootstrap, by |-> mode]
           /\ NoFault
           /\ \/ mode = "fresh" /\ GoTo("scrub") /\ UNCHANGED localVars
              \/ mode # "fresh" /\ Exit
           /\ UNCHANGED <<keystore, json_password, overwritten>>
  <2>0. key = keystore /\ key \in Keys /\ LocalTypeOK /\ OwnNft /\ StageDone /\ ModeFits
    BY <1>3, AtStep
  <2>1. UNCHANGED accountVars /\ faults' \in 0 .. MaxFaults
    BY <1>3, FaultType DEF GoTo, Exit
  <2>2. /\ config'.key = key /\ config'.nft = nft_id
        /\ config'.bootstrap = bootstrap /\ config'.by = mode
    BY <1>3
  <2>3. config' \in [key : Keys \cup {NoKey}, nft : 0 .. MaxForeign + Cardinality(Keys),
                     bootstrap : BOOLEAN, by : Modes]
    BY <1>3, <2>0 DEF LocalTypeOK
  <2>4. DiskTypeOK' /\ NftKeyKept' /\ ConfigHasKey'
    BY <1>3, <2>0, <2>1, <2>3 DEF SetupInv, DiskInv, DiskTypeOK, NftKeyKept, ConfigHasKey, accountVars
  <2>5. ConfigMatchesKeystore'
    BY <1>3, <2>0, <2>1, <2>2 DEF ConfigMatchesKeystore, OwnNft, accountVars
  <2>6. ConfiguredMeansReady'
    BY <1>3, <2>0, <2>1, <2>2 DEF ConfiguredMeansReady, StageDone, Ready, accountVars
  <2>7. DiskInv'
    BY <2>4, <2>5, <2>6 DEF DiskInv
  <2>8. CASE mode # "fresh" /\ Exit
    BY <1>3, <2>1, <2>7, <2>8, ExitParts DEF SetupInv
  <2>9. CASE mode = "fresh" /\ GoTo("scrub") /\ UNCHANGED localVars
    <3>1. ChainInv'
      BY <2>1, <2>9, ChainKept DEF GoTo, SetupInv, ChainInv, ChainTypeOK
    <3>2. TxInv'
      BY <1>3, <2>9, Quiet, QuietTx DEF GoTo, SetupInv, TxInv, SignedByKnown, AwaitSteps
    <3>3. ProcessInv'
      <4>1. pc' = "scrub" /\ UNCHANGED localVars /\ keystore' = keystore
        BY <1>3, <2>9 DEF GoTo
      <4>2. LocalTypeOK'
        BY <2>0, <4>1 DEF LocalTypeOK, localVars, Steps
      <4>3. SignerOnDisk' /\ ModeFits' /\ StageDone' /\ OwnNft'
        BY <2>0, <2>1, <2>9, <4>1
        DEF SignerOnDisk, ModeFits, StageDone, OwnNft, TradingSteps, localVars, accountVars
      <4> QED BY <4>2, <4>3 DEF ProcessInv
    <3> QED BY <2>7, <3>1, <3>2, <3>3 DEF SetupInv
  <2> QED BY <1>3, <2>8, <2>9
<1> QED BY <1>1, <1>2, <1>3 DEF WriteConfig

-----------------------------------------------------------------------------
(* The operator.                                                           *)

(* A process starts at its keystore: a wizard only without a configuration. *)
LEMMA StartInv ==
    ASSUME SetupInv, pc = "idle", NEW m \in Modes, NEW relay \in BOOLEAN, Start(m, relay),
           m = "wizard" => config = NoConfig, m \in {"assisted", "restore"} => keystore # NoKey
    PROVE  SetupInv'
<1>1. /\ pc' = "keystore" /\ mode' = m /\ bootstrap' = relay
      /\ UNCHANGED <<chainVars, diskVars, key, funding, nft_id, todo, first_done>>
  BY DEF Start
<1>2. UNCHANGED <<accountVars, mempool, receipt, faults>>
  BY <1>1 DEF chainVars
<1>3. ChainInv'
  BY <1>2, ChainKept DEF SetupInv, ChainInv, ChainTypeOK
<1>4. TxInv'
  BY <1>1, <1>2, Quiet, QuietTx DEF SetupInv, TxInv, SignedByKnown, AwaitSteps, diskVars
<1>5. DiskInv'
  BY <1>1, <1>2, DiskKept DEF diskVars, SetupInv, DiskInv, DiskTypeOK
<1>6. ProcessInv'
  <2>1. LocalTypeOK'
    BY <1>1 DEF SetupInv, ProcessInv, LocalTypeOK, Steps
  <2>2. SignerOnDisk' /\ ModeFits' /\ StageDone' /\ OwnNft'
    BY <1>1 DEF SetupInv, ProcessInv, SignerOnDisk, ModeFits, StageDone, OwnNft, TradingSteps, diskVars
  <2> QED BY <2>1, <2>2 DEF ProcessInv
<1> QED BY <1>3, <1>4, <1>5, <1>6 DEF SetupInv

(* What the operator does between two processes. *)
LEMMA OperatorInv == ASSUME SetupInv, OperatorStep PROVE SetupInv'
<1>0. {"wizard", "fresh", "assisted", "restore"} \subseteq Modes
  BY DEF Modes
<1>1. CASE RunSetup
  <2>1. config = NoConfig
    BY <1>1, ConstantFacts DEF RunSetup, is_first_boot, SetupInv, DiskInv, ConfigHasKey
  <2> QED BY <1>0, <1>1, <2>1, StartInv DEF RunSetup, prompt_node_role
<1>2. CASE RunWithConfig
  <2>1. PICK cfg \in SetupConfigs :
            \/ keystore # NoKey /\ Start("assisted", cfg.bootstrap)
            \/ keystore = NoKey /\ Start("fresh", cfg.bootstrap)
    BY <1>2 DEF RunWithConfig
  <2>2. cfg.bootstrap \in BOOLEAN /\ pc = "idle"
    BY <1>2 DEF SetupConfigs, RunWithConfig
  <2> QED BY <1>0, <2>1, <2>2, StartInv
<1>3. ASSUME pc \in {"idle", "running"}, pc' \in {"idle", "running"},
             UNCHANGED <<chainVars, keystore, config, overwritten, localVars>>,
             json_password' \in BOOLEAN
      PROVE  SetupInv'
  <2>1. UNCHANGED <<accountVars, mempool, receipt, faults>>
    BY <1>3 DEF chainVars
  <2>2. ChainInv'
    BY <2>1, ChainKept DEF SetupInv, ChainInv, ChainTypeOK
  <2>3. TxInv'
    BY <1>3, <2>1, Quiet, QuietTx DEF SetupInv, TxInv, SignedByKnown, AwaitSteps
  <2>4. DiskInv'
    BY <1>3, <2>1, DiskKept
  <2>5. LocalTypeOK'
    BY <1>3 DEF SetupInv, ProcessInv, LocalTypeOK, localVars, Steps
  <2>6. SignerOnDisk' /\ ModeFits' /\ StageDone' /\ OwnNft'
    BY <1>3 DEF SetupInv, ProcessInv, SignerOnDisk, ModeFits, StageDone, OwnNft, TradingSteps, localVars
  <2> QED BY <2>2, <2>3, <2>4, <2>5, <2>6 DEF SetupInv, ProcessInv
<1>4. CASE RunNode
  <2>1. CASE run_restore_setup_and_exit
    BY <1>0, <1>4, <2>1, StartInv DEF RunNode, run_restore_setup_and_exit
  <2>2. CASE ~run_restore_setup_and_exit
    BY <1>3, <1>4, <2>2 DEF RunNode, diskVars, SetupInv, DiskInv, DiskTypeOK
  <2> QED BY <2>1, <2>2
<1>5. CASE StopNode
  BY <1>3, <1>5 DEF StopNode, diskVars, SetupInv, DiskInv, DiskTypeOK
<1>6. CASE EditSetupJson
  BY <1>3, <1>6 DEF EditSetupJson
<1> QED BY <1>1, <1>2, <1>4, <1>5, <1>6 DEF OperatorStep

-----------------------------------------------------------------------------
(* The chain.                                                              *)

(* What the chain may do to the accounts under a process: it takes back no
   registration, no NFT, and no readiness. *)
Moves ==
    /\ registered \subseteq registered'
    /\ \A k \in Keys : /\ nft[k] # 0 => nft'[k] = nft[k]
                       /\ escrow[k] # {} => escrow'[k] # {}
                       /\ Ready(k) => Ready(k)'

(* Nothing but what the process waits for matters to it. *)
LEMMA MovesInv ==
    ASSUME SetupInv, UNCHANGED <<diskVars, pc, localVars>>, Moves, ChainInv', TxInv', NftKeyKept'
    PROVE  SetupInv'
<1>1. LocalTypeOK' /\ SignerOnDisk' /\ ModeFits'
  BY DEF SetupInv, ProcessInv, LocalTypeOK, SignerOnDisk, ModeFits, localVars, diskVars
<1>2. StageDone'
  BY DEF SetupInv, ProcessInv, StageDone, SignerOnDisk, TradingSteps, Moves, localVars
<1>3. OwnNft'
  BY DEF SetupInv, ProcessInv, OwnNft, Moves, localVars
<1>4. DiskTypeOK' /\ ConfigHasKey'
  BY DEF SetupInv, DiskInv, DiskTypeOK, ConfigHasKey, diskVars
<1>5. config # NoConfig => config.key \in Keys
  BY DEF SetupInv, DiskInv, ConfigHasKey, ConfigMatchesKeystore
<1>6. ConfigMatchesKeystore'
  BY <1>5 DEF SetupInv, DiskInv, ConfigMatchesKeystore, Moves, diskVars
<1>7. config.by # "nobody" => config # NoConfig
  BY DEF NoConfig
<1>8. ConfiguredMeansReady'
  BY <1>5, <1>7 DEF SetupInv, DiskInv, ConfiguredMeansReady, Moves, Ready, diskVars
<1> QED BY <1>1, <1>2, <1>3, <1>4, <1>6, <1>8 DEF SetupInv, ProcessInv, DiskInv

(* What the verdict on a call says of the accounts before it. *)
LEMMA VerdictFacts ==
    ASSUME NEW t \in Transactions, ChainTypeOK, NEW v \in VerdictsOf(t)
    PROVE  /\ v \in Verdicts
           /\ t.call = "mint_trustee_nft" /\ v = "Success" => nft[t.key] = 0 /\ supra[t.key] >= MintFee
           /\ t.call = "register_trader" /\ v = "ALREADY_REGISTERED" => t.key \in registered
           /\ t.call = "deposit" /\ v = "Success" => t.token \in wallet[t.key]
           /\ t.call = "request_mint" /\ v = "Success" => supra[t.key] >= t.amount
           /\ t.call = "request_mint" /\ v = "HAS_PENDING_MINT" => pending_mint[t.key] # "none"
           /\ t.call = "request_mint" => v # "ALREADY_REGISTERED"
<1>0. /\ t.key \in Keys /\ supra[t.key] \in Nat /\ MintFee \in Nat /\ t.amount \in Nat
      /\ t.call \in Calls
  BY ConstantFacts DEF ChainTypeOK, Transactions
<1>1. CASE t.call = "mint_trustee_nft"
  BY <1>0, <1>1 DEF VerdictsOf, Verdicts
<1>2. CASE t.call = "register_trader"
  BY <1>0, <1>2 DEF VerdictsOf, Verdicts
<1>3. CASE t.call = "deposit"
  BY <1>0, <1>3 DEF VerdictsOf, Verdicts
<1>4. CASE t.call = "request_mint"
  BY <1>0, <1>4 DEF VerdictsOf, Verdicts
<1>5. CASE t.call = "claim_mint"
  BY <1>0, <1>5 DEF VerdictsOf, Verdicts
<1> QED BY <1>0, <1>1, <1>2, <1>3, <1>4, <1>5 DEF Calls

(* The types of the accounts. *)
AccountTypeOK ==
    /\ supra \in [Keys -> 0 .. MaxSupra]
    /\ nft \in [Keys -> 0 .. MaxForeign + Cardinality(Keys)]
    /\ total_minted \in 0 .. MaxForeign + Cardinality(Keys)
    /\ registered \subseteq Keys
    /\ wallet \in [Keys -> SUBSET Tokens]
    /\ escrow \in [Keys -> SUBSET Tokens]
    /\ first_minted \subseteq Keys
    /\ pending_mint \in [Keys -> {"none", "held", "ready"}]

(* The answer to t that the process may rely on is true of the accounts after it. *)
TrueAnswer(t, v) ==
    /\ t.call = "register_trader" /\ v \in RegisterAccepts => t.key \in registered'
    /\ t.call = "deposit" /\ v = "Success" => escrow'[t.key] # {}
    /\ t.call = "request_mint" /\ v \in RequestAccepts => Ready(t.key)'

(* An NFT of a new owner is within the count. *)
LEMMA MintCounts ==
    ASSUME SetupInv, NEW k \in Keys, nft[k] = 0, nft' = [nft EXCEPT ![k] = total_minted + 1],
           total_minted' = total_minted + 1
    PROVE  /\ total_minted' \in 0 .. MaxForeign + Cardinality(Keys)
           /\ nft' \in [Keys -> 0 .. MaxForeign + Cardinality(Keys)]
           /\ MintBound'
<1>1. /\ nft \in [Keys -> 0 .. MaxForeign + Cardinality(Keys)]
      /\ total_minted \in Nat
      /\ total_minted <= MaxForeign + Cardinality(Owners)
  BY ConstantFacts DEF SetupInv, ChainInv, ChainTypeOK, MintBound
<1>2. Owners \subseteq Keys /\ k \notin Owners
  BY DEF Owners
<1>3. Owners' = Owners \cup {k}
  BY <1>1 DEF Owners
<1>4. IsFiniteSet(Owners) /\ Cardinality(Owners) \in Nat
  BY <1>2, FS_Subset, FS_CardinalityType, SetupChainAssumption
<1>5. Cardinality(Owners') = Cardinality(Owners) + 1
  BY <1>2, <1>3, <1>4, FS_AddElement
<1>6. Cardinality(Owners') <= Cardinality(Keys) 
  BY <1>2, <1>3, FS_Subset, SetupChainAssumption
<1> DEFINE c == Cardinality(Owners) d == Cardinality(Keys)
<1>7. total_minted + 1 \in 0 .. MaxForeign + d
  <2>1. c \in Nat /\ d \in Nat /\ c + 1 <= d /\ total_minted <= MaxForeign + c
    BY <1>1, <1>4, <1>5, <1>6, ConstantFacts
  <2> HIDE DEF c, d
  <2> QED BY <1>1, <2>1, ConstantFacts
<1>8. nft' \in [Keys -> 0 .. MaxForeign + Cardinality(Keys)]
  BY <1>1, <1>7
<1>9. MintBound'
  BY <1>1, <1>4, <1>5, ConstantFacts DEF MintBound
<1> QED BY <1>7, <1>8, <1>9

(* What a successful call does. *)
LEMMA Applied ==
    ASSUME SetupInv, NEW t \in mempool, "Success" \in VerdictsOf(t), Apply(t)
    PROVE  AccountTypeOK' /\ MintBound' /\ Moves /\ TrueAnswer(t, "Success")
           /\ \A k \in Keys : nft'[k] # 0 => nft[k] # 0 \/ k = t.key
<1>0. /\ t \in Transactions /\ AccountTypeOK /\ MintBound
      /\ t.key \in Keys /\ t.amount \in Nat /\ t.token \in Tokens \cup {NoToken}
  BY ConstantFacts DEF SetupInv, ChainInv, ChainTypeOK, Transactions, AccountTypeOK
<1>1. /\ t.call = "mint_trustee_nft" => nft[t.key] = 0 /\ supra[t.key] >= MintFee
      /\ t.call = "deposit" => t.token \in wallet[t.key]
      /\ t.call = "request_mint" => supra[t.key] >= t.amount
  BY <1>0, VerdictFacts DEF SetupInv, ChainInv
<1>2. CASE t.call = "mint_trustee_nft" /\ ApplyMintNft(t)
  <2>1. /\ total_minted' \in 0 .. MaxForeign + Cardinality(Keys)
        /\ nft' \in [Keys -> 0 .. MaxForeign + Cardinality(Keys)]
        /\ MintBound'
    BY <1>0, <1>1, <1>2, MintCounts DEF ApplyMintNft
  <2>2. supra' \in [Keys -> 0 .. MaxSupra]
    BY <1>0, <1>1, <1>2, ConstantFacts DEF ApplyMintNft, AccountTypeOK
  <2>3. AccountTypeOK'
    BY <1>0, <1>2, <2>1, <2>2 DEF ApplyMintNft, AccountTypeOK
  <2>4. Moves /\ \A k \in Keys : nft'[k] # 0 => nft[k] # 0 \/ k = t.key
    BY <1>0, <1>1, <1>2 DEF ApplyMintNft, Moves, Ready, AccountTypeOK
  <2> QED BY <1>2, <2>1, <2>3, <2>4 DEF TrueAnswer
<1>3. CASE t.call = "register_trader" /\ ApplyRegister(t)
  BY <1>0, <1>3 DEF ApplyRegister, AccountTypeOK, MintBound, Owners, Moves, Ready, TrueAnswer
<1>4. CASE t.call = "deposit" /\ ApplyDeposit(t)
  <2>1. wallet' \in [Keys -> SUBSET Tokens] /\ escrow' \in [Keys -> SUBSET Tokens]
    BY <1>0, <1>1, <1>4 DEF ApplyDeposit, AccountTypeOK
  <2>2. escrow'[t.key] # {} /\ \A k \in Keys : k # t.key => escrow'[k] = escrow[k]
    BY <1>0, <1>4 DEF ApplyDeposit, AccountTypeOK
  <2>3. UNCHANGED <<supra, nft, total_minted, registered, first_minted, pending_mint>>
    BY <1>4 DEF ApplyDeposit
  <2>4. AccountTypeOK' /\ MintBound'
    BY <1>0, <2>1, <2>3 DEF AccountTypeOK, MintBound, Owners
  <2>5. Moves /\ TrueAnswer(t, "Success")
    BY <1>4, <2>2, <2>3 DEF Moves, Ready, TrueAnswer
  <2> QED BY <2>3, <2>4, <2>5
<1>5. CASE t.call = "request_mint" /\ ApplyRequestMint(t)
  <2>1. supra' \in [Keys -> 0 .. MaxSupra] /\ pending_mint' \in [Keys -> {"none", "held", "ready"}]
    BY <1>0, <1>1, <1>5, ConstantFacts DEF ApplyRequestMint, AccountTypeOK
  <2>2. pending_mint'[t.key] = "held" /\ \A k \in Keys : k # t.key => pending_mint'[k] = pending_mint[k]
    BY <1>0, <1>5 DEF ApplyRequestMint, AccountTypeOK
  <2>3. UNCHANGED <<nft, total_minted, registered, wallet, escrow, first_minted>>
    BY <1>5 DEF ApplyRequestMint
  <2>4. AccountTypeOK' /\ MintBound'
    BY <1>0, <2>1, <2>3 DEF AccountTypeOK, MintBound, Owners
  <2>5. Moves /\ TrueAnswer(t, "Success")
    BY <1>5, <2>2, <2>3 DEF Moves, Ready, TrueAnswer
  <2> QED BY <2>3, <2>4, <2>5
<1>6. CASE t.call = "claim_mint" /\ ApplyClaimMint(t)
  <2>1. escrow' \in [Keys -> SUBSET Tokens] /\ pending_mint' \in [Keys -> {"none", "held", "ready"}]
    BY <1>0, <1>6 DEF ApplyClaimMint, AccountTypeOK
  <2>2. /\ escrow'[t.key] # {}
        /\ \A k \in Keys : k # t.key => escrow'[k] = escrow[k] /\ pending_mint'[k] = pending_mint[k]
    BY <1>0, <1>6 DEF ApplyClaimMint, AccountTypeOK, Tokens
  <2>3. UNCHANGED <<supra, nft, total_minted, registered, wallet>> /\ first_minted' \subseteq Keys
    BY <1>0, <1>6 DEF ApplyClaimMint, AccountTypeOK
  <2>4. AccountTypeOK' /\ MintBound'
    BY <1>0, <2>1, <2>3 DEF AccountTypeOK, MintBound, Owners
  <2>5. Moves /\ TrueAnswer(t, "Success")
    BY <1>6, <2>2, <2>3 DEF Moves, Ready, TrueAnswer
  <2> QED BY <2>3, <2>4, <2>5
<1> QED BY <1>2, <1>3, <1>4, <1>5, <1>6 DEF Apply

(* Any verdict on t, with what the call does if it succeeds. *)
LEMMA Judged ==
    ASSUME SetupInv, NEW t \in mempool, NEW v \in VerdictsOf(t),
           IF v = "Success" THEN Apply(t) ELSE UNCHANGED accountVars
    PROVE  AccountTypeOK' /\ MintBound' /\ Moves /\ TrueAnswer(t, v) /\ v \in Verdicts
           /\ \A k \in Keys : nft'[k] # 0 => nft[k] # 0 \/ k = t.key
<1>0. t \in Transactions /\ ChainTypeOK /\ MintBound /\ AccountTypeOK
  BY DEF SetupInv, ChainInv, ChainTypeOK, AccountTypeOK
<1>1. CASE v = "Success"
  BY <1>0, <1>1, Applied, VerdictFacts
<1>2. CASE v # "Success"
  <2>1. UNCHANGED <<supra, nft, total_minted, registered, wallet, escrow, first_minted, pending_mint>>
    BY <1>2 DEF accountVars
  <2>2. AccountTypeOK' /\ MintBound' /\ Moves
    BY <1>0, <2>1 DEF AccountTypeOK, MintBound, Owners, Moves, Ready
  <2>3. TrueAnswer(t, v)
    BY <1>0, <1>2, <2>1, VerdictFacts DEF TrueAnswer, RegisterAccepts, RequestAccepts, Ready
  <2> QED BY <1>0, <2>1, <2>2, <2>3, VerdictFacts
<1> QED BY <1>1, <1>2

(* A block executes a transaction. *)
LEMMA ExecuteInv ==
    ASSUME SetupInv, NEW t \in mempool, TxExecute(t), UNCHANGED <<diskVars, pc, localVars>>
    PROVE  SetupInv'
<1>1. PICK v \in VerdictsOf(t) :
        /\ IF v = "Success" THEN Apply(t) ELSE UNCHANGED accountVars
        /\ receipt' = IF t.orphan THEN receipt ELSE v
  BY DEF TxExecute
<1>2. /\ mempool' = {u \in mempool : u.key # t.key} /\ faults' = faults
      /\ UNCHANGED <<keystore, overwritten, pc, key>>
  BY DEF TxExecute, diskVars, localVars
<1>3. /\ AccountTypeOK' /\ MintBound' /\ Moves /\ TrueAnswer(t, v) /\ v \in Verdicts
      /\ \A k \in Keys : nft'[k] # 0 => nft[k] # 0 \/ k = t.key
  BY <1>1, Judged
<1>4. /\ t.key = keystore \/ t.key \in overwritten
      /\ ~t.orphan => receipt = "pending" /\ pc \in AwaitSteps /\ t.key = key /\ t.call = AwaitedCall[pc]
      /\ ChainTypeOK /\ SignedByKnown /\ LiveTx /\ AnswersHold /\ NftKeyKept
  BY DEF SetupInv, TxInv, SignedByKnown, LiveTx, DiskInv, ChainInv
<1>5. ChainInv'
  <2>1. receipt' \in {"none", "pending", "rejected"} \cup Verdicts
    BY <1>1, <1>3, <1>4 DEF ChainTypeOK
  <2>2. mempool' \subseteq Transactions /\ faults' \in 0 .. MaxFaults
    BY <1>2, <1>4 DEF ChainTypeOK
  <2> QED BY <1>3, <2>1, <2>2 DEF ChainInv, ChainTypeOK, AccountTypeOK
<1>6. NftKeyKept'
  BY <1>2, <1>3, <1>4 DEF NftKeyKept
<1>7. SignedByKnown'
  BY <1>2, <1>4 DEF SignedByKnown
<1>8. LiveTx'
  <2>1. CASE t.orphan
    BY <1>1, <1>2, <1>4, <2>1 DEF LiveTx
  <2>2. CASE ~t.orphan
    <3>1. \A u \in mempool' : u.orphan
      BY <1>2, <1>4, <2>2 DEF LiveTx
    <3> QED BY <1>2, <1>4, <2>2, <3>1 DEF LiveTx
  <2> QED BY <2>1, <2>2
<1>9. AnswersHold'
  <2>0. pc \in AwaitSteps => key \in Keys
    BY DEF SetupInv, ProcessInv, SignerOnDisk, AwaitSteps
  <2>1. CASE t.orphan
    BY <1>1, <1>2, <1>3, <1>4, <2>0, <2>1 DEF AnswersHold, Moves, AwaitSteps
  <2>2. CASE ~t.orphan
    <3>1. receipt' = v /\ t.key = key /\ t.call = AwaitedCall[pc] /\ pc \in AwaitSteps
      BY <1>1, <1>4, <2>2
    <3>2. /\ AwaitedCall["await_register"] = "register_trader"
          /\ AwaitedCall["await_deposit"] = "deposit"
          /\ AwaitedCall["await_request"] = "request_mint"
      BY DEF AwaitedCall, AwaitSteps
    <3> QED BY <1>2, <1>3, <3>1, <3>2 DEF AnswersHold, TrueAnswer, Ready
  <2> QED BY <2>1, <2>2
<1> QED BY <1>3, <1>5, <1>6, <1>7, <1>8, <1>9, MovesInv DEF TxInv

(* Steps of the chain that execute nothing. *)
LEMMA QuietChainInv ==
    ASSUME SetupInv, UNCHANGED <<diskVars, pc, localVars>>, Moves, AccountTypeOK', MintBound',
           nft' = nft, mempool' \subseteq mempool, UNCHANGED <<receipt, faults>>
    PROVE  SetupInv'
<1>0. UNCHANGED <<keystore, overwritten, pc, key>>
  BY DEF diskVars, localVars
<1>1. ChainInv'
  BY DEF SetupInv, ChainInv, ChainTypeOK, AccountTypeOK
<1>2. NftKeyKept'
  BY <1>0 DEF SetupInv, DiskInv, NftKeyKept
<1>3. SignedByKnown' /\ LiveTx'
  BY <1>0 DEF SetupInv, TxInv, SignedByKnown, LiveTx
<1>4. AnswersHold'
  <2>1. pc \in AwaitSteps => key \in Keys
    BY DEF SetupInv, ProcessInv, SignerOnDisk, AwaitSteps
  <2> QED BY <1>0, <2>1 DEF SetupInv, TxInv, AnswersHold, Moves, AwaitSteps
<1> QED BY <1>1, <1>2, <1>3, <1>4, MovesInv DEF TxInv

(* The chain moves under the process. *)
LEMMA ChainStepInv == ASSUME SetupInv, ChainStep PROVE SetupInv'
<1>0. UNCHANGED <<diskVars, pc, localVars>> /\ AccountTypeOK /\ MintBound
  BY DEF ChainStep, SetupInv, ChainInv, ChainTypeOK, AccountTypeOK
<1>1. ASSUME NEW t \in mempool, TxExecute(t) PROVE SetupInv'
  BY <1>0, <1>1, ExecuteInv
<1>2. ASSUME NEW t \in mempool, TxExpire(t) PROVE SetupInv'
  <2>1. /\ UNCHANGED <<supra, nft, total_minted, registered, wallet, escrow, first_minted, pending_mint>>
        /\ mempool' \subseteq mempool /\ UNCHANGED <<receipt, faults>>
    BY <1>2 DEF TxExpire, accountVars
  <2>2. AccountTypeOK' /\ MintBound' /\ Moves
    BY <1>0, <2>1 DEF AccountTypeOK, MintBound, Owners, Moves, Ready
  <2> QED BY <1>0, <2>1, <2>2, QuietChainInv
<1>3. ASSUME NEW k \in Keys, HoldEnds(k) PROVE SetupInv'
  <2>1. AccountTypeOK' /\ MintBound' /\ Moves
    BY <1>0, <1>3 DEF HoldEnds, AccountTypeOK, MintBound, Owners, Moves, Ready
  <2> QED BY <1>0, <1>3, <2>1, QuietChainInv DEF HoldEnds
<1>4. ASSUME NEW k \in Keys, Fund(k) PROVE SetupInv'
  <2>1. supra' \in [Keys -> 0 .. MaxSupra]
    BY <1>0, <1>4, ConstantFacts DEF Fund, AccountTypeOK
  <2>2. AccountTypeOK' /\ MintBound' /\ Moves
    BY <1>0, <1>4, <2>1 DEF Fund, AccountTypeOK, MintBound, Owners, Moves, Ready
  <2> QED BY <1>0, <1>4, <2>2, QuietChainInv DEF Fund
<1>5. ASSUME NEW k \in Keys, SendTokens(k) PROVE SetupInv'
  <2>1. AccountTypeOK' /\ MintBound' /\ Moves
    BY <1>0, <1>5 DEF SendTokens, AccountTypeOK, MintBound, Owners, Moves, Ready
  <2> QED BY <1>0, <1>5, <2>1, QuietChainInv DEF SendTokens
<1>6. CASE ForeignMint
  <2> DEFINE c == Cardinality(Owners) d == Cardinality(Keys)
  <2>1. c \in Nat /\ d \in Nat /\ c <= d
    <3>1. Owners \subseteq Keys
      BY DEF Owners
    <3> QED BY <3>1, FS_Subset, FS_CardinalityType, SetupChainAssumption
  <2>2. /\ total_minted - c < MaxForeign /\ total_minted' = total_minted + 1 /\ Owners' = Owners
        /\ UNCHANGED <<supra, nft, registered, wallet, escrow, first_minted, pending_mint,
                       mempool, receipt, faults>>
    BY <1>6 DEF ForeignMint, Owners
  <2>3. total_minted \in Nat
    BY <1>0, ConstantFacts DEF AccountTypeOK
  <2>4. total_minted' \in 0 .. MaxForeign + d /\ total_minted' <= MaxForeign + c
    <3> HIDE DEF c, d
    <3> QED BY <2>1, <2>2, <2>3, ConstantFacts
  <2>5. MintBound'
    BY <2>2, <2>4 DEF MintBound
  <2>6. AccountTypeOK' /\ Moves
    BY <1>0, <2>2, <2>4 DEF AccountTypeOK, Moves, Ready
  <2> QED BY <1>0, <2>2, <2>5, <2>6, QuietChainInv
<1> QED BY <1>1, <1>2, <1>3, <1>4, <1>5, <1>6 DEF ChainStep

-----------------------------------------------------------------------------
(* The theorems.                                                           *)

(* A machine without a keystore is safe. *)
LEMMA InitInv == Init => SetupInv
<1> SUFFICES ASSUME Init PROVE SetupInv
  OBVIOUS
<1>1. ChainTypeOK
  <2>1. {} \subseteq Transactions /\ receipt \in {"none", "pending", "rejected"} \cup Verdicts
    BY DEF Init, ChainInit
  <2> QED BY <2>1, ConstantFacts DEF Init, ChainInit, ChainTypeOK
<1>2. MintBound
  <2>1. Owners = {}
    BY DEF Init, ChainInit, Owners
  <2> QED BY <2>1, FS_EmptySet, ConstantFacts DEF Init, ChainInit, MintBound
<1>3. LocalTypeOK
  <2>1. todo \in {<<>>, <<"TEE">>, <<"KAY", "TEE">>, <<"EMM", "KAY", "TEE">>}
    BY Zenon DEF Init
  <2>2. /\ pc \in Steps /\ mode \in Modes /\ key \in Keys \cup {NoKey}
        /\ bootstrap \in BOOLEAN /\ first_done \in BOOLEAN
    BY Zenon DEF Init, Steps, Modes
  <2>3. funding \in 0 .. MaxSupra /\ nft_id \in 0 .. MaxForeign + Cardinality(Keys)
    BY ConstantFacts DEF Init
  <2> QED BY <2>1, <2>2, <2>3 DEF LocalTypeOK
<1>4. SignerOnDisk /\ ModeFits /\ StageDone /\ OwnNft
  BY DEF Init, SignerOnDisk, ModeFits, StageDone, OwnNft, TradingSteps
<1>5. TxInv
  BY DEF Init, ChainInit, TxInv, SignedByKnown, LiveTx, AnswersHold
<1>6. DiskTypeOK
  BY ConstantFacts DEF Init, DiskTypeOK, NoConfig, Modes
<1>7. NftKeyKept /\ ConfigHasKey /\ ConfigMatchesKeystore /\ ConfiguredMeansReady
  BY DEF Init, ChainInit, NftKeyKept, ConfigHasKey, ConfigMatchesKeystore, ConfiguredMeansReady, NoConfig
<1> QED BY <1>1, <1>2, <1>3, <1>4, <1>5, <1>6, <1>7 DEF SetupInv, ChainInv, ProcessInv, DiskInv

(* The invariant holds in every state a setup, its crashes and its repetitions reach. *)
THEOREM SetupInvariant == Spec => []SetupInv
<1>1. SetupInv /\ [Next]_vars => SetupInv'
  <2> SUFFICES ASSUME SetupInv, [Next]_vars PROVE SetupInv'
    OBVIOUS
  <2>1. CASE SetupStep
    BY <2>1, KeystoreInv, FundingInv, CheckNftInv, ReadNftIdInv, MintInv, WithdrawalInv, RegisterInv,
       CheckEscrowInv, CheckWalletInv, DepositInv, CheckMintStateInv, ClaimInv, PollEscrowInv,
       RequestInv, FirstClaimInv, WriteInv
    DEF SetupStep
  <2>2. CASE OperatorStep
    BY <2>2, OperatorInv
  <2>3. CASE Crash
    BY <2>3, FailInv, FaultType DEF Crash
  <2>4. CASE ChainStep
    BY <2>4, ChainStepInv
  <2>5. CASE UNCHANGED vars
    <3>1. /\ UNCHANGED <<accountVars, mempool, receipt, faults>>
          /\ UNCHANGED <<keystore, config, json_password, overwritten, pc>>
          /\ UNCHANGED <<mode, key, bootstrap, funding, nft_id, todo, first_done>>
      BY <2>5 DEF vars, chainVars, diskVars, localVars
    <3>2. Moves /\ AccountTypeOK' /\ MintBound' /\ nft' = nft
      BY <3>1 DEF Moves, Ready, accountVars, SetupInv, ChainInv, ChainTypeOK, AccountTypeOK, MintBound, Owners
    <3> QED BY <3>1, <3>2, QuietChainInv DEF diskVars, localVars
  <2> QED BY <2>1, <2>2, <2>3, <2>4, <2>5 DEF Next
<1> QED BY <1>1, InitInv, PTL DEF Spec

(* Every variable keeps its type, the ids of NFTs their bound included. *)
THEOREM SetupTypeCorrect == Spec => []SetupTypeOK
BY SetupInvariant, TypesTogether, PTL

(* No order of failed and repeated setups loses the key of an NFT, unless the
   wizard wrote over it (wizard_generate_keypair). *)
THEOREM NftKeysAreKept == Spec => []NftKeyKept
<1>1. SetupInv => NftKeyKept
  BY DEF SetupInv, DiskInv
<1> QED BY <1>1, SetupInvariant, PTL

(* config.json names the key of the keystore beside it, and its NFT or none. *)
THEOREM ConfigFitsKeystore == Spec => []ConfigMatchesKeystore
<1>1. SetupInv => ConfigMatchesKeystore
  BY DEF SetupInv, DiskInv
<1> QED BY <1>1, SetupInvariant, PTL

(* A trading configuration is written only when the key is registered and has
   tokens or a mint under way (run_wizard, run_setup_after_keystore,
   auto_mint_and_deposit), and that stays so. *)
THEOREM ConfiguredNodesAreReady == Spec => []ConfiguredMeansReady
<1>1. SetupInv => ConfiguredMeansReady
  BY DEF SetupInv, DiskInv
<1> QED BY <1>1, SetupInvariant, PTL
=============================================================================
