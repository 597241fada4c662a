----------------------------- MODULE TxSenders -----------------------------
(***************************************************************************)
(* Everybody who signs transactions of the trustee's account, and the      *)
(* account's sequence number they share: the settlement worker, the token  *)
(* worker, the auto-claim task of the start-up, the run loop (heartbeat    *)
(* and reactivation) and a command of `deadmkt-node` run beside the node.  *)
(*                                                                         *)
(* Sequence numbers are relative to the account's: 0 is the next one the   *)
(* chain executes, TooOld one that is used up. A step of the chain moves   *)
(* all of them down by one.                                                *)
(***************************************************************************)
EXTENDS Integers, FiniteSets

CONSTANTS
    None,          \* no cached sequence number
    Window,        \* how far ahead of the account the mempool accepts numbers
    StartCapital,  \* the start-up read a positive escrow balance
    MaxFaults      \* bound on failed calls, lost replies, dropped transactions, timeouts

ASSUME TxSendersAssumption ==
    Window \in Nat \ {0} /\ StartCapital \in BOOLEAN /\ MaxFaults \in Nat

VARIABLES
    mempool,       \* pending transactions
    tx_lock,       \* who holds the lock, or "free"
    next_seq,      \* the settlement worker's cached number
    pc,            \* pc[p]: step of sender p
    job,           \* job[p]: what p is sending
    reg,           \* reg[p]: the number p signs with
    answer,        \* answer[p]: result of the transaction p waits for
    auto_claim,    \* the start-up's claim task is still to run
    beat,          \* whether the loop sends heartbeats now, see Heartbeat
    faults

vars == <<mempool, tx_lock, next_seq, pc, job, reg, answer, auto_claim, beat, faults>>

Senders == {"settle", "token", "claim", "loop", "command"}

LockUsers == {"settle", "token", "claim"}

TooOld == -1

Offsets == TooOld .. Window + 1

(* What a sender may be sending, told apart by what follows the submission:
   nothing, a wait for the result, or a wait that may be followed by a mint. *)
Jobs == [settle  |-> {"unwaited"},
         token   |-> {"waited"},
         claim   |-> {"waited"},
         loop    |-> {"unwaited", "waited"},
         command |-> {"unwaited", "waited", "reactivate"}]

AllJobs == {"none"} \cup UNION {Jobs[p] : p \in Senders}

Waits(j) == j \in {"waited", "reactivate"}

(* A pending transaction: a settlement, one that its owner waits for, or one that
   nobody waits for. *)
Transactions == [owner : Senders \cup {"nobody"}, seq : 0 .. Window]

TxTypeOK ==
    /\ mempool \subseteq Transactions
    /\ tx_lock \in LockUsers \cup {"free"}
    /\ next_seq \in Offsets \cup {None}
    /\ pc \in [Senders -> {"idle", "lock", "seq", "submit", "wait", "fallback"}]
    /\ job \in [Senders -> AllJobs]
    /\ reg \in [Senders -> Offsets]
    /\ answer \in [Senders -> {"none", "done", "refused"}]
    /\ auto_claim \in BOOLEAN
    /\ beat \in {"off", "quiet", "due"}
    /\ faults \in 0 .. MaxFaults

Init ==
    /\ mempool = {}
    /\ tx_lock = "free"
    /\ next_seq = None
    /\ pc = [p \in Senders |-> "idle"]
    /\ job = [p \in Senders |-> "none"]
    /\ reg = [p \in Senders |-> 0]
    /\ answer = [p \in Senders |-> "none"]
    /\ auto_claim \in BOOLEAN
    /\ beat = IF StartCapital THEN "due" ELSE "off"
    /\ faults = 0

Fault == faults < MaxFaults /\ faults' = faults + 1

-----------------------------------------------------------------------------
(***************************************************************************)
(* Taking a job.                                                           *)
(***************************************************************************)

Begin(p, j, step) ==
    /\ pc[p] = "idle"
    /\ pc' = [pc EXCEPT ![p] = step]
    /\ job' = [job EXCEPT ![p] = j]
    /\ UNCHANGED <<mempool, tx_lock, next_seq, reg, answer, faults>>

(* A match this node pays the gas for comes out of the request channel. *)
SettleRequest == Begin("settle", "unwaited", "lock") /\ UNCHANGED <<auto_claim, beat>>

(* Mint, claim, burn, lock, unlock or donate: one action of the strategy. *)
token_worker_loop == Begin("token", "waited", "lock") /\ UNCHANGED <<auto_claim, beat>>

(* A pending mint found at start-up is claimed when its hold ends. *)
AutoClaim == auto_claim /\ Begin("claim", "waited", "lock") /\ auto_claim' = FALSE /\ UNCHANGED beat

(* The loop sends no heartbeat at all ("off") if the escrow view of the start-up
   failed or found nothing, and none ("quiet") in the heartbeat_interval batches
   after a settlement of a pending match was confirmed, whoever sent it. *)
Heartbeat == beat = "due" /\ Begin("loop", "unwaited", "seq") /\ UNCHANGED <<auto_claim, beat>>

(* check_is_active said no. *)
LivenessReactivate == Begin("loop", "waited", "seq") /\ UNCHANGED <<auto_claim, beat>>

Command(j) == Begin("command", j, "seq") /\ UNCHANGED <<auto_claim, beat>>

CmdDeposit == Command("unwaited")

CmdReactivate == Command("reactivate")

CmdApplyParams == Command("unwaited")

CmdUpdateParams == Command("unwaited")

run_mr3_withdraw_and_exit == Command("waited")

run_mr3_burn_and_exit == Command("waited")

run_burn_pair_and_exit == Command("waited")

Take ==
    \/ SettleRequest \/ token_worker_loop \/ AutoClaim \/ Heartbeat \/ LivenessReactivate
    \/ CmdDeposit \/ CmdReactivate \/ CmdApplyParams \/ CmdUpdateParams
    \/ run_mr3_withdraw_and_exit \/ run_mr3_burn_and_exit \/ run_burn_pair_and_exit

(* on_settlement_confirmed found a pending match for an event: one this node, the
   counterparty or, of a match of two others, anybody has settled. The poll is a
   part of the run loop, as the batch boundary is. *)
SettlementConfirmed ==
    /\ pc["loop"] = "idle"
    /\ beat = "due" /\ beat' = "quiet"
    /\ UNCHANGED <<mempool, tx_lock, next_seq, pc, job, reg, answer, auto_claim, faults>>

(* heartbeat_interval batches have passed since then. *)
IntervalOver ==
    /\ pc["loop"] = "idle"
    /\ beat = "quiet" /\ beat' = "due"
    /\ UNCHANGED <<mempool, tx_lock, next_seq, pc, job, reg, answer, auto_claim, faults>>

-----------------------------------------------------------------------------
(***************************************************************************)
(* Lock, number, submission, result.                                       *)
(***************************************************************************)

Acquire(p) ==
    /\ pc[p] = "lock" /\ tx_lock = "free"
    /\ tx_lock' = p
    /\ pc' = [pc EXCEPT ![p] = "seq"]
    /\ UNCHANGED <<mempool, next_seq, job, reg, answer, auto_claim, beat, faults>>

Unlocked(p) == IF tx_lock = p THEN "free" ELSE tx_lock

(* The sender is done with its transaction, whatever became of it. *)
Finish(p) ==
    /\ pc' = [pc EXCEPT ![p] = "idle"]
    /\ job' = [job EXCEPT ![p] = "none"]
    /\ reg' = [reg EXCEPT ![p] = 0]
    /\ answer' = [answer EXCEPT ![p] = "none"]
    /\ tx_lock' = Unlocked(p)
    /\ UNCHANGED <<auto_claim, beat>>

(* Mutant: the run loop reuses the settlement worker's number. *)
WorkersNumber(p) == IF p = "loop" /\ next_seq # None THEN next_seq ELSE 0

(* The number of the account, as the chain has it now; what is pending does
   not count. *)
AccountNumber(p) == 0

get_account(p) ==
    /\ pc[p] = "seq"
    /\ p = "settle" => next_seq = None
    /\ \/ /\ reg' = [reg EXCEPT ![p] = AccountNumber(p)]
          /\ pc' = [pc EXCEPT ![p] = "submit"]
          /\ UNCHANGED <<mempool, tx_lock, next_seq, job, answer, auto_claim, beat, faults>>
       \/ Fault /\ Finish(p) /\ UNCHANGED <<mempool, next_seq>>

(* The settlement worker prefers the number it counted itself. *)
UseCachedSeq ==
    /\ pc["settle"] = "seq" /\ next_seq # None
    /\ reg' = [reg EXCEPT !["settle"] = next_seq]
    /\ pc' = [pc EXCEPT !["settle"] = "submit"]
    /\ UNCHANGED <<mempool, tx_lock, next_seq, job, answer, auto_claim, beat, faults>>

(* The mempool refuses a used number and one too far ahead. Of two transactions
   with one number only one is executed: the second is refused, or taken and
   dropped, or it takes the place of the first. *)
Acceptable(s) == s \in 0 .. Window

Taken(s) == \E t \in mempool : t.seq = s

(* A number below s that no pending transaction carries. *)
GapBelow(s) == \E n \in 0 .. s - 1 : ~Taken(n)

Sent(p, waiting) ==
    [owner |-> IF waiting \/ p = "settle" THEN p ELSE "nobody", seq |-> reg[p]]

Enters(t) ==
    \/ mempool' = {u \in mempool : u.seq # t.seq} \cup {t}
    \/ Taken(t.seq) /\ UNCHANGED mempool

(* The settlement worker's Err branch forgets the cached number. *)
CacheAfterError(p) == next_seq' = IF p = "settle" THEN None ELSE next_seq

(* Mutant: the number is counted up at the signature and at the submission. *)
CountedTwice(p) == next_seq' = IF p = "settle" THEN reg[p] + 2 ELSE next_seq

(* The cached number is the one after the settlement just submitted. *)
CacheAfterSubmit(p) ==
    next_seq' = IF p = "settle" THEN reg[p] + 1 ELSE next_seq

(* Mutant: the lock is given back as soon as a transaction is submitted. *)
ReleaseOnSubmit(p) ==
    /\ pc' = [pc EXCEPT ![p] = "wait"]
    /\ tx_lock' = Unlocked(p)
    /\ UNCHANGED <<job, reg, answer, auto_claim, beat>>

(* A sender that waits for the result keeps the lock while it does. *)
KeepWaiting(p) ==
    /\ pc' = [pc EXCEPT ![p] = "wait"]
    /\ reg' = [reg EXCEPT ![p] = 0]
    /\ UNCHANGED <<tx_lock, job, answer, auto_claim, beat>>

(* submit_raw, or the first half of SupraSetupClient's submit_entry_function. *)
SubmitAccepted(p) ==
    /\ pc[p] = "submit" /\ Acceptable(reg[p])
    /\ Enters(Sent(p, Waits(job[p])))
    /\ CacheAfterSubmit(p)
    /\ IF Waits(job[p]) THEN KeepWaiting(p) ELSE Finish(p)
    /\ UNCHANGED faults

SubmitRefused(p) ==
    /\ pc[p] = "submit"
    /\ ~Acceptable(reg[p]) \/ Taken(reg[p])
    /\ CacheAfterError(p)
    /\ Finish(p)
    /\ UNCHANGED <<mempool, faults>>

(* A network error: the transaction was not received, or the reply was lost. *)
SubmitError(p) ==
    /\ pc[p] = "submit" /\ Fault
    /\ \/ UNCHANGED mempool
       \/ Acceptable(reg[p]) /\ Enters(Sent(p, FALSE))
    /\ CacheAfterError(p)
    /\ Finish(p)

(* The transactions of p, when it stops waiting. *)
GivenUp(p) == {IF t.owner = p THEN [t EXCEPT !.owner = "nobody"] ELSE t : t \in mempool}

(* The result of a transaction. A reactivation the contract refuses because the
   escrow is empty or the grace period is over makes the command mint instead. *)
wait_for_tx(p) ==
    /\ pc[p] = "wait"
    /\ \/ /\ answer[p] # "none"
          /\ \/ answer[p] = "done" /\ Finish(p)
             \/ /\ answer[p] = "refused"
                /\ pc' = [pc EXCEPT ![p] = "fallback"]
                /\ answer' = [answer EXCEPT ![p] = "none"]
                /\ UNCHANGED <<job, reg, tx_lock, auto_claim, beat>>
          /\ UNCHANGED <<mempool, faults>>
       \/ /\ answer[p] = "none"
          /\ \/ Fault
             \/ (\A t \in mempool : t.owner = p => t.seq > 0) /\ UNCHANGED faults
          /\ mempool' = GivenUp(p)
          /\ Finish(p)
    /\ UNCHANGED next_seq

(* The reactivate command claims a pending mint that is ripe, requests the
   smallest mint if none is pending, or has to wait for the hold. *)
MintFallback ==
    /\ pc["command"] = "fallback"
    /\ \/ /\ pc' = [pc EXCEPT !["command"] = "seq"]
          /\ job' = [job EXCEPT !["command"] = "unwaited"]
          /\ UNCHANGED <<reg, answer, tx_lock, auto_claim, beat>>
       \/ Finish("command")
    /\ UNCHANGED <<mempool, next_seq, faults>>

-----------------------------------------------------------------------------
(***************************************************************************)
(* The chain.                                                              *)
(***************************************************************************)

Down(s) == IF s = TooOld THEN TooOld ELSE s - 1

(* The transaction whose turn it is succeeds or aborts; either uses the number
   up. Only a reactivation the contract refuses leads to anything else. *)
Execute(t) ==
    /\ t.seq = 0
    /\ mempool' = {[u EXCEPT !.seq = @ - 1] : u \in {v \in mempool : v.seq > 0}}
    /\ reg' = [p \in Senders |-> IF pc[p] = "submit" THEN Down(reg[p]) ELSE reg[p]]
    /\ next_seq' = IF next_seq = None THEN None ELSE Down(next_seq)
    /\ IF t.owner \in {"nobody", "settle"} THEN UNCHANGED answer
       ELSE \E r \in {"done"} \cup (IF job[t.owner] = "reactivate" THEN {"refused"} ELSE {}) :
                answer' = [answer EXCEPT ![t.owner] = r]
    /\ UNCHANGED <<tx_lock, pc, job, auto_claim, beat, faults>>

(* A transaction behind a gap expires; one that will have its turn can only be
   lost. *)
Expire(t) ==
    /\ \/ GapBelow(t.seq) /\ UNCHANGED faults
       \/ ~GapBelow(t.seq) /\ Fault
    /\ mempool' = mempool \ {t}
    /\ UNCHANGED <<tx_lock, next_seq, pc, job, reg, answer, auto_claim, beat>>

SenderStep(p) ==
    \/ get_account(p) \/ SubmitAccepted(p) \/ SubmitRefused(p) \/ SubmitError(p) \/ wait_for_tx(p)

Next ==
    \/ Take
    \/ SettlementConfirmed \/ IntervalOver
    \/ \E p \in LockUsers : Acquire(p)
    \/ \E p \in Senders : SenderStep(p)
    \/ UseCachedSeq
    \/ MintFallback
    \/ \E t \in mempool : Execute(t) \/ Expire(t)

Spec == Init /\ [][Next]_vars

(* A heartbeat that is due is sent at the next slot and batches go on, but a
   further confirmed settlement may always come first; the node's tasks are scheduled; blocks are made; tokio's
   mutex serves its waiters in order, so the settlement worker gets it. The
   strategy and the operator, whose command may be killed, owe nothing. *)
Fairness ==
    /\ WF_vars(Heartbeat) /\ WF_vars(IntervalOver)
    /\ WF_vars(UseCachedSeq \/ SenderStep("settle"))
    /\ \A p \in {"token", "claim", "loop"} : WF_vars(SenderStep(p))
    /\ SF_vars(Acquire("settle"))
    /\ WF_vars(\E t \in mempool : Execute(t))

FairSpec == Spec /\ Fairness

-----------------------------------------------------------------------------
(***************************************************************************)
(* Properties.                                                             *)
(***************************************************************************)

(* The token worker and the auto-claim task never sign while a transaction the
   other one waits for is pending: each keeps tx_lock until it has its result. *)
WaitersDontCollide ==
    \A p \in {"token", "claim"} : pc[p] = "submit" =>
        \A t \in mempool : t.owner \notin {"token", "claim"}

(* The cached number is ahead of what the account and the mempool know. *)
Gap == next_seq # None /\ GapBelow(next_seq)

(* A settlement that was submitted and lost leaves the cached number ahead of the
   account; every later settlement would then wait for a number nobody sends.
   If the node had capital at its start, and no further settlement is sent by it
   or confirmed to it, the gap closes: the heartbeat asks the account for its
   number and fills it. (With a settlement per heartbeat it never does: each one
   expires behind the gap and moves the cached number on. Nor does it while others
   settle, since the loop then skips its heartbeats.) *)
GapCloses ==
    (Gap /\ StartCapital) ~> (~Gap \/ pc["settle"] # "idle" \/ beat = "quiet")

(* "Shared lock prevents sequence number collisions between token worker and
   settlement worker": the token worker never signs with the number of a
   settlement that is still pending. *)
LockPreventsCollisions ==
    pc["token"] = "submit" => \A t \in mempool : t.owner = "settle" => t.seq # reg["token"]
=============================================================================
