-------------------------- MODULE TxSendersProofs --------------------------
(***************************************************************************)
(* Machine-checked facts about TxSenders, for every window of the mempool, *)
(* every number of faults, with and without capital at the start.          *)
(***************************************************************************)
EXTENDS TxSenders, TLAPS

Waiters == {"token", "claim"}

(* A lock user past the lock holds it, so at most one of them is. *)
LockHeld ==
    \A p \in LockUsers : pc[p] \in {"seq", "submit", "wait", "fallback"} => tx_lock = p

(* A pending transaction of the token worker or of the auto-claim task carries
   the account's own number, and its owner waits for it without an answer. *)
OwnersWait ==
    \A t \in mempool : t.owner \in Waiters =>
        pc[t.owner] = "wait" /\ answer[t.owner] = "none" /\ t.seq = 0

(* These two sign with the number the account has or had, and have an answer only
   while they wait. *)
WaitersRead ==
    \A p \in Waiters :
        /\ reg[p] \in {TooOld, 0}
        /\ answer[p] # "none" => pc[p] = "wait"

(* The inductive invariant. *)
SendersInv == TxTypeOK /\ LockHeld /\ OwnersWait /\ WaitersRead

-----------------------------------------------------------------------------
(* Facts about the mempool.                                                *)

(* The signed transaction (Sent) is a transaction if its number is acceptable. *)
LEMMA SentType ==
    ASSUME TxTypeOK, NEW p \in Senders, NEW w \in BOOLEAN, Acceptable(reg[p])
    PROVE  /\ Sent(p, w) \in Transactions
           /\ Sent(p, w).seq = reg[p]
           /\ Sent(p, w).owner = p \/ Sent(p, w).owner = "nobody"
           /\ ~w /\ p # "settle" => Sent(p, w).owner = "nobody"
BY DEF TxTypeOK, Sent, Acceptable, Transactions, Senders

(* A transaction of the mempool after a submission was there before or is new. *)
LEMMA EntersOnly ==
    ASSUME NEW t, Enters(t)
    PROVE  \A u \in mempool' : u \in mempool \/ u = t
BY DEF Enters

(* Giving up a transaction keeps its number and takes its owner away. *)
LEMMA GivenUpOwners ==
    ASSUME TxTypeOK, NEW p \in Senders, NEW u \in GivenUp(p)
    PROVE  /\ u \in Transactions
           /\ u.owner # p
           /\ u.owner # "nobody" => u \in mempool
<1>1. PICK t \in mempool : u = IF t.owner = p THEN [t EXCEPT !.owner = "nobody"] ELSE t
  BY DEF GivenUp
<1>2. t \in Transactions
  BY DEF TxTypeOK
<1>3. CASE t.owner = p
  BY <1>1, <1>2, <1>3 DEF Transactions, Senders
<1>4. CASE t.owner # p
  BY <1>1, <1>2, <1>4
<1> QED BY <1>3, <1>4

(* Execution moves every remaining transaction down by one. *)
LEMMA ExecuteMempool ==
    ASSUME TxTypeOK, NEW t \in mempool, Execute(t), NEW u \in mempool'
    PROVE  /\ u \in Transactions
           /\ \E v \in mempool : v.owner = u.owner /\ v.seq > 0
<1>1. PICK v \in mempool : v.seq > 0 /\ u = [v EXCEPT !.seq = @ - 1]
  BY DEF Execute
<1>2. v \in Transactions /\ Window \in Nat
  BY TxSendersAssumption DEF TxTypeOK
<1>3. u.owner = v.owner /\ u.seq = v.seq - 1
  BY <1>1, <1>2 DEF Transactions
<1>4. u \in Transactions
  BY <1>1, <1>2 DEF Transactions
<1> QED BY <1>1, <1>3, <1>4

-----------------------------------------------------------------------------
(* One lemma for each group of actions.                                    *)

\* At the start nobody holds tx_lock and the mempool is empty.
LEMMA InitInv == Init => SendersInv
<1> SUFFICES ASSUME Init PROVE SendersInv
  OBVIOUS
<1>1. TxTypeOK
  BY TxSendersAssumption
  DEF Init, TxTypeOK, Offsets, TooOld, AllJobs, Senders, Transactions, LockUsers
<1>2. LockHeld /\ OwnersWait /\ WaitersRead
  BY DEF Init, LockHeld, OwnersWait, WaitersRead, Waiters, LockUsers, Senders
<1> QED BY <1>1, <1>2 DEF SendersInv

(* A job of p is a job. *)
LEMMA JobsAreJobs == /\ "none" \in AllJobs
                     /\ {"unwaited", "waited", "reactivate"} \subseteq AllJobs
BY DEF AllJobs, Jobs, Senders

(* A sender takes a job: a lock user goes to the lock first. *)
LEMMA BeginInv ==
    ASSUME SendersInv, NEW p \in Senders, NEW j \in AllJobs,
           NEW step \in {"lock", "seq"}, p \in LockUsers => step = "lock",
           Begin(p, j, step), auto_claim' \in BOOLEAN, UNCHANGED beat
    PROVE  SendersInv'
<1>1. TxTypeOK'
  BY DEF SendersInv, TxTypeOK, Begin
<1>2. LockHeld'
  BY DEF SendersInv, TxTypeOK, LockHeld, Begin, LockUsers, Senders
<1>3. OwnersWait'
  BY DEF SendersInv, TxTypeOK, OwnersWait, Begin, Waiters, Senders
<1>4. WaitersRead'
  BY DEF SendersInv, TxTypeOK, WaitersRead, Begin, Waiters, Senders
<1> QED BY <1>1, <1>2, <1>3, <1>4 DEF SendersInv

\* A worker takes its next job from the queue.
LEMMA TakeInv == ASSUME SendersInv, Take PROVE SendersInv'
<1> USE JobsAreJobs DEF LockUsers, Senders
<1>0. auto_claim \in BOOLEAN
  BY DEF SendersInv, TxTypeOK
<1>1. CASE SettleRequest
  BY <1>0, <1>1, BeginInv DEF SettleRequest
<1>2. CASE token_worker_loop
  BY <1>0, <1>2, BeginInv DEF token_worker_loop
<1>3. CASE AutoClaim
  BY <1>3, BeginInv DEF AutoClaim
<1>4. CASE Heartbeat \/ LivenessReactivate
  BY <1>0, <1>4, BeginInv DEF Heartbeat, LivenessReactivate
<1>5. ASSUME NEW j \in {"unwaited", "waited", "reactivate"}, Command(j) PROVE SendersInv'
  BY <1>0, <1>5, BeginInv DEF Command
<1> QED
  BY <1>1, <1>2, <1>3, <1>4, <1>5
  DEF Take, CmdDeposit, CmdReactivate, CmdApplyParams, CmdUpdateParams,
      run_mr3_withdraw_and_exit, run_mr3_burn_and_exit, run_burn_pair_and_exit

\* A confirmed settlement, or the end of its interval, only turns heartbeats off or on.
LEMMA BeatInv == ASSUME SendersInv, SettlementConfirmed \/ IntervalOver PROVE SendersInv'
<1>0. /\ UNCHANGED <<mempool, tx_lock, next_seq, pc, job, reg, answer, auto_claim, faults>>
      /\ beat' \in {"quiet", "due"}
  BY DEF SettlementConfirmed, IntervalOver
<1>1. TxTypeOK'
  BY <1>0 DEF SendersInv, TxTypeOK
<1>2. LockHeld' /\ OwnersWait' /\ WaitersRead'
  BY <1>0 DEF SendersInv, LockHeld, OwnersWait, WaitersRead
<1> QED BY <1>1, <1>2 DEF SendersInv

\* A sender takes tx_lock when it is free.
LEMMA AcquireInv == ASSUME SendersInv, NEW p \in LockUsers, Acquire(p) PROVE SendersInv'
<1> USE DEF LockUsers, Senders
<1>1. TxTypeOK'
  BY DEF SendersInv, TxTypeOK, Acquire
<1>2. LockHeld'
  BY DEF SendersInv, TxTypeOK, LockHeld, Acquire
<1>3. OwnersWait'
  BY DEF SendersInv, TxTypeOK, OwnersWait, Acquire, Waiters
<1>4. WaitersRead'
  BY DEF SendersInv, TxTypeOK, WaitersRead, Acquire, Waiters
<1> QED BY <1>1, <1>2, <1>3, <1>4 DEF SendersInv

(* Finishing keeps the types and the lock discipline, whatever else the step does
   to the mempool, the cached number and the faults. *)
LEMMA FinishInv ==
    ASSUME SendersInv, NEW p \in Senders, Finish(p),
           mempool' \subseteq Transactions, next_seq' \in Offsets \cup {None},
           faults' \in 0 .. MaxFaults,
           \A u \in mempool' : u.owner \in Waiters => u \in mempool /\ u.owner # p
    PROVE  SendersInv'
<1>1. TxTypeOK'
  BY JobsAreJobs, TxSendersAssumption
  DEF SendersInv, TxTypeOK, Finish, Unlocked, Offsets, TooOld
<1>2. LockHeld'
  BY DEF SendersInv, TxTypeOK, LockHeld, Finish, Unlocked, LockUsers, Senders
<1>3. OwnersWait'
  BY DEF SendersInv, TxTypeOK, OwnersWait, Finish, Waiters, Senders
<1>4. WaitersRead'
  BY DEF SendersInv, TxTypeOK, WaitersRead, Finish, Waiters, Senders
<1> QED BY <1>1, <1>2, <1>3, <1>4 DEF SendersInv

\* A fault is counted against its bound.
LEMMA FaultType == ASSUME TxTypeOK, Fault PROVE faults' \in 0 .. MaxFaults
BY TxSendersAssumption DEF TxTypeOK, Fault

(* A sender that does not wait owns nothing another one might wait for. *)
LEMMA NoneOwned ==
    ASSUME SendersInv, NEW p \in Senders, pc[p] # "wait"
    PROVE  \A u \in mempool : u.owner \in Waiters => u.owner # p
BY DEF SendersInv, OwnersWait

\* A sender reads its sequence number from the chain or from the cache.
LEMMA NumberInv ==
    ASSUME SendersInv, NEW p \in Senders, get_account(p) \/ (p = "settle" /\ UseCachedSeq)
    PROVE  SendersInv'
<1>1. CASE get_account(p) /\ Fault /\ Finish(p) /\ UNCHANGED <<mempool, next_seq>>
  BY <1>1, FaultType, NoneOwned, FinishInv DEF SendersInv, TxTypeOK, get_account
<1>2. CASE /\ reg' = [reg EXCEPT ![p] = AccountNumber(p)]
           /\ pc[p] = "seq" /\ pc' = [pc EXCEPT ![p] = "submit"]
           /\ UNCHANGED <<mempool, tx_lock, next_seq, job, answer, auto_claim, beat, faults>>
  <2>1. TxTypeOK'
    BY <1>2, TxSendersAssumption DEF SendersInv, TxTypeOK, AccountNumber, Offsets, TooOld
  <2>2. LockHeld'
    BY <1>2 DEF SendersInv, TxTypeOK, LockHeld, LockUsers, Senders
  <2>3. OwnersWait'
    BY <1>2 DEF SendersInv, TxTypeOK, OwnersWait, Waiters, Senders
  <2>4. WaitersRead'
    BY <1>2 DEF SendersInv, TxTypeOK, WaitersRead, Waiters, Senders, AccountNumber
  <2> QED BY <2>1, <2>2, <2>3, <2>4 DEF SendersInv
<1>3. CASE p = "settle" /\ UseCachedSeq
  <2> USE <1>3 DEF UseCachedSeq
  <2>1. TxTypeOK'
    BY DEF SendersInv, TxTypeOK
  <2>2. LockHeld'
    BY DEF SendersInv, TxTypeOK, LockHeld, LockUsers, Senders
  <2>3. OwnersWait'
    BY DEF SendersInv, TxTypeOK, OwnersWait, Waiters, Senders
  <2>4. WaitersRead'
    BY DEF SendersInv, TxTypeOK, WaitersRead, Waiters, Senders
  <2> QED BY <2>1, <2>2, <2>3, <2>4 DEF SendersInv
<1> QED BY <1>1, <1>2, <1>3 DEF get_account

(* After a submission the cached number is one of the offsets. *)
LEMMA CacheType ==
    ASSUME TxTypeOK, NEW p \in Senders,
           CacheAfterError(p) \/ (Acceptable(reg[p]) /\ CacheAfterSubmit(p))
    PROVE  next_seq' \in Offsets \cup {None}
<1>1. CASE CacheAfterError(p)
  BY <1>1 DEF TxTypeOK, CacheAfterError
<1>2. CASE Acceptable(reg[p]) /\ CacheAfterSubmit(p)
  BY <1>2, TxSendersAssumption
  DEF TxTypeOK, CacheAfterSubmit, Acceptable, Offsets, TooOld
<1> QED BY <1>1, <1>2

(* A submission by a sender that does not wait adds nothing anybody waits for. *)
LEMMA EntersUnwaited ==
    ASSUME SendersInv, NEW p \in Senders, pc[p] # "wait", Acceptable(reg[p]),
           Enters(Sent(p, FALSE))
    PROVE  /\ mempool' \subseteq Transactions
           /\ \A u \in mempool' : u.owner \in Waiters => u \in mempool /\ u.owner # p
<1>1. \A u \in mempool' : u \in mempool \/ u = Sent(p, FALSE)
  BY EntersOnly
<1>2. /\ Sent(p, FALSE) \in Transactions
      /\ Sent(p, FALSE).owner \in {"settle", "nobody"}
  BY SentType DEF SendersInv
<1>3. \A u \in mempool : u.owner \in Waiters => u.owner # p
  BY NoneOwned
<1> QED BY <1>1, <1>2, <1>3 DEF SendersInv, TxTypeOK, Waiters

(* A waited submission: its owner holds the lock and signed with number 0. *)
LEMMA SubmitWaitedInv ==
    ASSUME SendersInv, NEW p \in Senders, SubmitAccepted(p), Waits(job[p])
    PROVE  SendersInv'
<1>1. /\ pc[p] = "submit" /\ Acceptable(reg[p]) /\ Enters(Sent(p, TRUE))
      /\ CacheAfterSubmit(p) /\ KeepWaiting(p) /\ faults' = faults
  BY DEF SubmitAccepted, Waits
<1>2. \A u \in mempool' : u \in mempool \/ u = Sent(p, TRUE)
  BY <1>1, EntersOnly
<1>3. /\ Sent(p, TRUE) \in Transactions
      /\ Sent(p, TRUE).seq = reg[p]
      /\ Sent(p, TRUE).owner = p
  BY <1>1, SentType DEF SendersInv, Sent
<1>4. TxTypeOK'
  <2>1. next_seq' \in Offsets \cup {None}
    BY <1>1, CacheType DEF SendersInv
  <2>2. 0 \in Offsets
    BY TxSendersAssumption DEF Offsets, TooOld
  <2> QED BY <1>1, <1>2, <1>3, <2>1, <2>2 DEF SendersInv, TxTypeOK, KeepWaiting
<1>5. LockHeld'
  BY <1>1 DEF SendersInv, TxTypeOK, LockHeld, KeepWaiting, LockUsers, Senders
<1>6. OwnersWait'
  <2> SUFFICES ASSUME NEW u \in mempool', u.owner \in Waiters
               PROVE  pc'[u.owner] = "wait" /\ answer'[u.owner] = "none" /\ u.seq = 0
    BY DEF OwnersWait
  <2>1. CASE u \in mempool
    BY <1>1, <2>1 DEF SendersInv, TxTypeOK, OwnersWait, KeepWaiting, Waiters, Senders
  <2>2. CASE u = Sent(p, TRUE)
    <3>0. p \in Waiters
      BY <1>3, <2>2
    <3>1. reg[p] = 0 /\ answer[p] = "none"
      BY <1>1, <3>0, TxSendersAssumption DEF SendersInv, WaitersRead, Acceptable, TooOld
    <3> QED BY <1>1, <1>3, <2>2, <3>0, <3>1 DEF SendersInv, TxTypeOK, KeepWaiting
  <2> QED BY <1>2, <2>1, <2>2
<1>7. WaitersRead'
  BY <1>1 DEF SendersInv, TxTypeOK, WaitersRead, KeepWaiting, Waiters, Senders
<1> QED BY <1>4, <1>5, <1>6, <1>7 DEF SendersInv

\* A submission is accepted, refused or fails on the network.
LEMMA SubmitInv ==
    ASSUME SendersInv, NEW p \in Senders,
           SubmitAccepted(p) \/ SubmitRefused(p) \/ SubmitError(p)
    PROVE  SendersInv'
<1>0. TxTypeOK /\ faults \in 0 .. MaxFaults
  BY DEF SendersInv, TxTypeOK
<1>1. CASE SubmitAccepted(p) /\ Waits(job[p])
  BY <1>1, SubmitWaitedInv
<1>2. CASE SubmitAccepted(p) /\ ~Waits(job[p])
  <2>0. Sent(p, Waits(job[p])) = Sent(p, FALSE)
    BY <1>2 DEF Sent
  <2>1. /\ pc[p] = "submit" /\ Acceptable(reg[p]) /\ Enters(Sent(p, FALSE))
        /\ CacheAfterSubmit(p) /\ Finish(p) /\ faults' = faults
    BY <1>2, <2>0 DEF SubmitAccepted
  <2> QED BY <1>0, <2>1, CacheType, EntersUnwaited, FinishInv
<1>3. CASE SubmitRefused(p)
  BY <1>0, <1>3, CacheType, NoneOwned, FinishInv DEF SubmitRefused, TxTypeOK
<1>4. CASE SubmitError(p)
  <2>1. pc[p] = "submit" /\ Fault /\ CacheAfterError(p) /\ Finish(p)
    BY <1>4 DEF SubmitError
  <2>2. /\ mempool' \subseteq Transactions
        /\ \A u \in mempool' : u.owner \in Waiters => u \in mempool /\ u.owner # p
    <3>1. CASE mempool' = mempool
      BY <1>0, <2>1, <3>1, NoneOwned DEF TxTypeOK
    <3>2. CASE Acceptable(reg[p]) /\ Enters(Sent(p, FALSE))
      BY <2>1, <3>2, EntersUnwaited
    <3> QED BY <1>4, <3>1, <3>2 DEF SubmitError
  <2> QED BY <1>0, <2>1, <2>2, CacheType, FaultType, FinishInv
<1> QED BY <1>1, <1>2, <1>3, <1>4

(* The waiter has its answer, or gives its transaction up. *)
LEMMA WaitInv == ASSUME SendersInv, NEW p \in Senders, wait_for_tx(p) PROVE SendersInv'
<1>0. /\ TxTypeOK /\ faults \in 0 .. MaxFaults /\ mempool \subseteq Transactions
      /\ next_seq \in Offsets \cup {None}
      /\ pc[p] = "wait" /\ next_seq' = next_seq
  BY DEF SendersInv, TxTypeOK, wait_for_tx
<1>1. CASE answer[p] # "none" /\ Finish(p) /\ mempool' = mempool /\ faults' = faults
  BY <1>0, <1>1, FinishInv DEF SendersInv, OwnersWait
<1>2. CASE /\ answer[p] # "none" /\ pc' = [pc EXCEPT ![p] = "fallback"]
           /\ answer' = [answer EXCEPT ![p] = "none"]
           /\ UNCHANGED <<job, reg, tx_lock, auto_claim, beat, mempool, faults>>
  <2>1. TxTypeOK'
    BY <1>0, <1>2 DEF TxTypeOK
  <2>2. LockHeld'
    BY <1>0, <1>2 DEF SendersInv, TxTypeOK, LockHeld, LockUsers, Senders
  <2>3. OwnersWait'
    BY <1>0, <1>2 DEF SendersInv, TxTypeOK, OwnersWait, Waiters, Senders
  <2>4. WaitersRead'
    BY <1>0, <1>2 DEF SendersInv, TxTypeOK, WaitersRead, Waiters, Senders
  <2> QED BY <2>1, <2>2, <2>3, <2>4 DEF SendersInv
<1>3. CASE /\ Fault \/ faults' = faults
           /\ mempool' = GivenUp(p) /\ Finish(p)
  <2>1. faults' \in 0 .. MaxFaults
    BY <1>0, <1>3, FaultType
  <2>2. \A u \in mempool' : /\ u \in Transactions
                            /\ u.owner \in Waiters => u \in mempool /\ u.owner # p
    BY <1>0, <1>3, GivenUpOwners DEF Waiters
  <2> QED BY <1>0, <1>3, <2>1, <2>2, FinishInv
<1> QED BY <1>1, <1>2, <1>3 DEF wait_for_tx

\* The reactivate command falls back to a mint.
LEMMA FallbackInv == ASSUME SendersInv, MintFallback PROVE SendersInv'
<1>1. CASE Finish("command")
  BY <1>1, FinishInv, NoneOwned DEF SendersInv, TxTypeOK, MintFallback, Senders
<1>2. CASE /\ pc' = [pc EXCEPT !["command"] = "seq"]
           /\ job' = [job EXCEPT !["command"] = "unwaited"]
           /\ UNCHANGED <<reg, answer, tx_lock, auto_claim, beat, mempool, next_seq, faults>>
  <2>1. TxTypeOK'
    BY <1>2, JobsAreJobs DEF SendersInv, TxTypeOK
  <2>2. LockHeld'
    BY <1>2 DEF SendersInv, TxTypeOK, LockHeld, LockUsers, Senders
  <2>3. OwnersWait'
    BY <1>2 DEF SendersInv, TxTypeOK, OwnersWait, Waiters, Senders
  <2>4. WaitersRead'
    BY <1>2 DEF SendersInv, TxTypeOK, WaitersRead, Waiters, Senders
  <2> QED BY <2>1, <2>2, <2>3, <2>4 DEF SendersInv
<1> QED BY <1>1, <1>2 DEF MintFallback

(* The chain uses number 0 up: every transaction a waiter owned had it. *)
LEMMA ExecuteInv == ASSUME SendersInv, NEW t \in mempool, Execute(t) PROVE SendersInv'
<1>0. /\ TxTypeOK /\ t \in Transactions /\ t.seq = 0
      /\ UNCHANGED <<tx_lock, pc, job, auto_claim, beat, faults>>
      /\ reg' = [p \in Senders |-> IF pc[p] = "submit" THEN Down(reg[p]) ELSE reg[p]]
  BY DEF SendersInv, TxTypeOK, Execute
<1>1. \/ answer' = answer
      \/ t.owner \in Senders /\ \E r \in {"done", "refused"} : answer' = [answer EXCEPT ![t.owner] = r]
  BY <1>0 DEF Execute, Transactions
<1>2. TxTypeOK'
  <2>1. mempool' \subseteq Transactions
    BY <1>0, ExecuteMempool
  <2>2. \A s \in Offsets : Down(s) \in Offsets
    BY TxSendersAssumption DEF Down, Offsets, TooOld
  <2>3. reg' \in [Senders -> Offsets]
    BY <1>0, <2>2 DEF TxTypeOK
  <2>4. next_seq' \in Offsets \cup {None}
    BY <1>0, <2>2 DEF TxTypeOK, Execute
  <2>5. answer' \in [Senders -> {"none", "done", "refused"}]
    BY <1>0, <1>1 DEF TxTypeOK
  <2> QED BY <1>0, <2>1, <2>3, <2>4, <2>5 DEF TxTypeOK
<1>3. LockHeld'
  BY <1>0 DEF SendersInv, LockHeld
<1>4. OwnersWait'
  <2> SUFFICES ASSUME NEW u \in mempool', u.owner \in Waiters PROVE FALSE
    BY DEF OwnersWait
  <2>1. PICK v \in mempool : v.owner = u.owner /\ v.seq > 0
    BY <1>0, ExecuteMempool
  <2>2. v.seq = 0
    BY <2>1 DEF SendersInv, OwnersWait
  <2> QED BY <2>1, <2>2
<1>5. WaitersRead'
  <2> SUFFICES ASSUME NEW p \in Waiters
               PROVE  reg'[p] \in {TooOld, 0} /\ (answer'[p] # "none" => pc'[p] = "wait")
    BY DEF WaitersRead
  <2>1. p \in Senders /\ reg[p] \in {TooOld, 0} /\ (answer[p] # "none" => pc[p] = "wait")
    BY DEF Waiters, Senders, SendersInv, WaitersRead
  <2>2. reg'[p] \in {TooOld, 0}
    BY <1>0, <2>1 DEF Down, TooOld
  <2>3. p = t.owner => pc[p] = "wait"
    BY DEF SendersInv, OwnersWait
  <2>4. p # t.owner => answer'[p] = answer[p]
    BY <1>0, <1>1, <2>1 DEF TxTypeOK
  <2> QED BY <1>0, <2>1, <2>2, <2>3, <2>4
<1> QED BY <1>2, <1>3, <1>4, <1>5 DEF SendersInv

\* A transaction leaves the mempool without being executed.
LEMMA ExpireInv == ASSUME SendersInv, NEW t \in mempool, Expire(t) PROVE SendersInv'
<1>1. faults' \in 0 .. MaxFaults
  BY FaultType DEF SendersInv, TxTypeOK, Expire
<1>2. TxTypeOK'
  BY <1>1 DEF SendersInv, TxTypeOK, Expire
<1>3. LockHeld' /\ OwnersWait' /\ WaitersRead'
  BY DEF SendersInv, LockHeld, OwnersWait, WaitersRead, Expire
<1> QED BY <1>2, <1>3 DEF SendersInv

-----------------------------------------------------------------------------
(* Every step of a sender and of the chain keeps the invariant.            *)
LEMMA SendersInductive == SendersInv /\ [Next]_vars => SendersInv'
<1> SUFFICES ASSUME SendersInv, [Next]_vars PROVE SendersInv'
  OBVIOUS
<1>1. CASE Take
  BY <1>1, TakeInv
<1>2. ASSUME NEW p \in LockUsers, Acquire(p) PROVE SendersInv'
  BY <1>2, AcquireInv
<1>3. ASSUME NEW p \in Senders, SenderStep(p) PROVE SendersInv'
  BY <1>3, NumberInv, SubmitInv, WaitInv DEF SenderStep
<1>4. CASE UseCachedSeq
  BY <1>4, NumberInv DEF Senders
<1>5. CASE MintFallback
  BY <1>5, FallbackInv
<1>6. ASSUME NEW t \in mempool, Execute(t) \/ Expire(t) PROVE SendersInv'
  BY <1>6, ExecuteInv, ExpireInv
<1>7. CASE SettlementConfirmed \/ IntervalOver
  BY <1>7, BeatInv
<1>8. CASE UNCHANGED vars
  BY <1>8 DEF vars, SendersInv, TxTypeOK, LockHeld, OwnersWait, WaitersRead
<1> QED BY <1>1, <1>2, <1>3, <1>4, <1>5, <1>6, <1>7, <1>8 DEF Next

(* The lock is what keeps the two waiters apart: the one that signs holds it,
   and so does the owner of a waited transaction. *)
LEMMA LockSeparates == SendersInv => WaitersDontCollide
<1> SUFFICES ASSUME SendersInv, NEW p \in Waiters, pc[p] = "submit",
                    NEW t \in mempool, t.owner \in Waiters
             PROVE  FALSE
  BY DEF WaitersDontCollide, Waiters
<1>1. pc[t.owner] = "wait"
  BY DEF SendersInv, OwnersWait
<1>2. tx_lock = p /\ tx_lock = t.owner
  BY <1>1 DEF SendersInv, LockHeld, Waiters, LockUsers
<1> QED BY <1>1, <1>2

\* The lock discipline of the senders holds in every reachable state.
THEOREM SendersInvariant == Spec => []SendersInv
BY InitInv, SendersInductive, PTL DEF Spec

(* The senders of the trustee's account and its mempool keep the types TxTypeOK
   gives them: no number leaves the window, the lock is held by one of its users
   (the settlement worker, the token worker and the auto-claim task of run.rs). *)
THEOREM TxTypeCorrect == Spec => []TxTypeOK
<1>1. SendersInv => TxTypeOK
  BY DEF SendersInv
<1> QED BY <1>1, SendersInvariant, PTL

(* The token worker and the auto-claim task, which hold tx_lock from the read of
   the sequence number to the result, never sign beside a transaction the other
   one waits for. *)
THEOREM WaitersNeverCollide == Spec => []WaitersDontCollide
BY SendersInvariant, LockSeparates, PTL
=============================================================================
