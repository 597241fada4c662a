--------------------------- MODULE StrategyProofs ---------------------------
(***************************************************************************)
(* Machine-checked facts about the strategy crate. First StrategyLink      *)
(* (server.rs), for every capacity of the channels and every number of     *)
(* batches, token actions and chain events; then OrderIntake (convert.rs), *)
(* for every market, number of decimals, word size and balance.            *)
(***************************************************************************)
EXTENDS StrategyLink, OrderIntake, Sums, SequenceTheorems, TLAPS

(* The numbers of the asks in a channel; notes and token actions have none. *)
Nums(s) == {s[i].ask : i \in 1 .. Len(s)} \ {0}

Rising(s) ==
    \A i, j \in 1 .. Len(s) :
        i < j /\ s[i].ask # 0 /\ s[j].ask # 0 => s[i].ask < s[j].ask

Below(S, T) == \A x \in S, y \in T : x < y

Held == {hold.ask} \ {0}

Pending == Held \cup Nums(inbox) \cup Nums(asked) \cup Nums(events)

(* From the loop's end of the action channel to the node's end of the event
   channel, through the handler and the client, the asks only rise. *)
Ordered ==
    /\ Rising(actions) /\ Rising(inbox) /\ Rising(asked) /\ Rising(events)
    /\ Below(Nums(actions), Pending)
    /\ Below(Held, Nums(inbox) \cup Nums(asked) \cup Nums(events))
    /\ Below(Nums(inbox), Nums(asked) \cup Nums(events))
    /\ Below(Nums(asked), Nums(events))

Waiting == IF loop \in {"wait_commit", "wait_reveal"} THEN 1 ELSE 0

(* asks - timeouts - Waiting answers have been read; nothing that is still under
   way is as old as their number. *)
Recent ==
    /\ timeouts + Waiting <= asks
    /\ \A n \in Nums(actions) \cup Pending :
        n \in 1 .. asks /\ asks < n + timeouts + Waiting

(* What the handler holds goes into the channel it is forwarding to. *)
HoldKind ==
    /\ handler = "fwd_action" => hold \in Asks
    /\ handler \notin {"fwd_action", "fwd_token"} => hold = Note

(* Two asks a batch at most, one in each of the first two phases. *)
AskBudget ==
    /\ loop \in {"ask_commit", "wait_commit"} => phase = "commit"
    /\ loop \in {"ask_reveal", "wait_reveal"} => phase = "reveal"
    /\ phase = "commit" => asks + (IF loop = "ask_commit" THEN 1 ELSE 0) < 2 * batch
    /\ phase # "commit" => asks + (IF loop = "ask_reveal" THEN 1 ELSE 0) <= 2 * batch

(* The events queued in a phase are all sent before the next one begins. *)
QueueBudget ==
    /\ loop = "idle" => queued = 0
    /\ loop # "drain" => queued <= MaxNotes
    /\ queued <= MaxNotes + 1

(* The inductive invariant. *)
LinkInv == LinkTypeOK /\ HoldKind /\ AskBudget /\ QueueBudget /\ Ordered /\ Recent

-----------------------------------------------------------------------------
(* The numbers in a sequence that grows at its end or shrinks at its head. *)

(* The empty channel. *)
LEMMA EmptyNums == Nums(<<>>) = {} /\ Rising(<<>>) /\ Len(<<>>) = 0 /\ \A S : <<>> \in Seq(S)
<1>1. \A S : <<>> \in Seq(S)
  BY EmptySeq
<1> QED BY <1>1 DEF Nums, Rising

(* A message taken out of a channel is below all that stay in it. *)
LEMMA TailNums ==
    ASSUME NEW S, NEW s \in Seq(S), s # <<>>, Rising(s)
    PROVE  /\ Head(s) \in S /\ Tail(s) \in Seq(S) /\ Len(Tail(s)) = Len(s) - 1
           /\ Rising(Tail(s))
           /\ Nums(Tail(s)) \subseteq Nums(s)
           /\ Head(s).ask # 0 => Head(s).ask \in Nums(s)
           /\ Head(s).ask # 0 => Below({Head(s).ask}, Nums(Tail(s)))
<1>1. /\ Head(s) = s[1] /\ Head(s) \in S /\ Tail(s) \in Seq(S)
      /\ Len(s) \in Nat /\ Len(s) >= 1 /\ Len(Tail(s)) = Len(s) - 1
      /\ \A i \in 1 .. Len(s) - 1 : Tail(s)[i] = s[i + 1] /\ i + 1 \in 1 .. Len(s)
  BY EmptySeq, LenProperties, HeadTailProperties
<1>2. Rising(Tail(s))
  BY <1>1 DEF Rising
<1>3. Nums(Tail(s)) \subseteq Nums(s)
  BY <1>1 DEF Nums
<1>4. Head(s).ask # 0 => Head(s).ask \in Nums(s)
  BY <1>1 DEF Nums
<1>5. ASSUME Head(s).ask # 0, NEW n \in Nums(Tail(s)) PROVE Head(s).ask < n
  <2>1. PICK i \in 1 .. Len(s) - 1 : n = Tail(s)[i].ask
    BY <1>1, <1>5 DEF Nums
  <2>2. n # 0 /\ n = s[i + 1].ask /\ i + 1 \in 1 .. Len(s) /\ 1 < i + 1 /\ 1 \in 1 .. Len(s)
    BY <1>1, <1>5, <2>1 DEF Nums
  <2> QED BY <1>1, <1>5, <2>2 DEF Rising
<1> QED BY <1>1, <1>2, <1>3, <1>4, <1>5 DEF Below

(* A message put into a channel above all that are in it. *)
LEMMA AppendNums ==
    ASSUME NEW S, NEW s \in Seq(S), NEW e \in S, Rising(s),
           e.ask # 0 => Below(Nums(s), {e.ask})
    PROVE  /\ Append(s, e) \in Seq(S) /\ Len(Append(s, e)) = Len(s) + 1
           /\ Rising(Append(s, e))
           /\ Nums(Append(s, e)) \subseteq Nums(s) \cup ({e.ask} \ {0})
<1>1. /\ Append(s, e) \in Seq(S) /\ Len(s) \in Nat /\ Len(Append(s, e)) = Len(s) + 1
      /\ \A i \in 1 .. Len(s) : Append(s, e)[i] = s[i]
      /\ Append(s, e)[Len(s) + 1] = e
  BY LenProperties, AppendProperties
<1>2. Nums(Append(s, e)) \subseteq Nums(s) \cup ({e.ask} \ {0})
  <2> SUFFICES ASSUME NEW n \in Nums(Append(s, e)), n \notin Nums(s) PROVE n = e.ask
    BY DEF Nums
  <2>1. PICK i \in 1 .. Len(s) + 1 : n = Append(s, e)[i].ask /\ n # 0
    BY <1>1 DEF Nums
  <2>2. i \notin 1 .. Len(s)
    BY <1>1, <2>1 DEF Nums
  <2> QED BY <1>1, <2>1, <2>2
<1>3. Rising(Append(s, e))
  <2> SUFFICES ASSUME NEW i \in 1 .. Len(s) + 1, NEW j \in 1 .. Len(s) + 1, i < j,
                      Append(s, e)[i].ask # 0, Append(s, e)[j].ask # 0
               PROVE  Append(s, e)[i].ask < Append(s, e)[j].ask
    BY <1>1 DEF Rising
  <2>1. i \in 1 .. Len(s)
    BY <1>1
  <2>2. CASE j \in 1 .. Len(s)
    BY <1>1, <2>1, <2>2 DEF Rising
  <2>3. CASE j = Len(s) + 1
    <3>1. s[i].ask \in Nums(s) /\ e.ask # 0
      BY <1>1, <2>1, <2>3 DEF Nums
    <3> QED BY <1>1, <2>1, <2>3, <3>1 DEF Below
  <2> QED BY <1>1, <2>2, <2>3
<1> QED BY <1>1, <1>2, <1>3

(* Nothing enters the pipeline with a number: the order stays, and so does the
   bound as long as the count of answers read does. *)
LEMMA FlowShrinks ==
    ASSUME LinkInv, asks' = asks, timeouts' = timeouts, Waiting' = Waiting,
           Rising(actions'), Rising(inbox'), Rising(asked'), Rising(events'),
           Nums(actions') \subseteq Nums(actions), Held' \subseteq Held,
           Nums(inbox') \subseteq Nums(inbox), Nums(asked') \subseteq Nums(asked),
           Nums(events') \subseteq Nums(events)
    PROVE  Ordered' /\ Recent'
<1>1. Pending' \subseteq Pending
  BY DEF Pending
<1>2. Recent'
  BY <1>1 DEF LinkInv, Recent
<1>3. Ordered'
  BY <1>1 DEF LinkInv, Ordered, Below
<1> QED BY <1>2, <1>3

(* The messages of the pipeline and their numbers. *)
LEMMA MessageNums ==
    /\ \A m \in Asks : m.ask \in Nat \ {0} /\ m.ask <= MaxAsks
    /\ \A m \in Messages : m.ask \in Nat /\ (m.kind # "token" => m \in Asks)
    /\ \A m \in Messages : m.kind = "token" => m.ask = 0
    /\ Note.ask = 0 /\ Note \notin Asks /\ Asks \subseteq Messages
<1>1. MaxAsks \in Nat
  BY LinkAssumption DEF MaxAsks
<1> QED BY <1>1 DEF Asks, Messages, Note

-----------------------------------------------------------------------------
(* One lemma for each group of actions.                                    *)

(* The node starts with empty channels and no client. *)
LEMMA InitInv == Init => LinkInv
<1> SUFFICES ASSUME Init PROVE LinkInv
  OBVIOUS
<1>1. LinkTypeOK
  <2>1. /\ events \in Seq(Asks \cup {Note}) /\ Len(events) <= Cap
        /\ actions \in Seq(Asks) /\ Len(actions) <= Cap
        /\ asked \in Seq(Asks) /\ inbox \in Seq(Messages)
    BY EmptyNums, LinkAssumption DEF Init
  <2>2. spent \in [tokens : 0 .. MaxTokens, notes : 0 .. MaxNotes]
    BY LinkAssumption DEF Init
  <2>3. /\ tokens \in 0 .. Cap /\ batch \in 0 .. MaxBatch /\ queued \in 0 .. MaxNotes + 2
        /\ asks \in 0 .. MaxAsks /\ timeouts \in 0 .. asks
    BY LinkAssumption DEF Init, MaxAsks
  <2> QED BY <2>1, <2>2, <2>3, Zenon DEF Init, LinkTypeOK
<1>2. HoldKind /\ AskBudget /\ QueueBudget
  BY LinkAssumption DEF Init, HoldKind, AskBudget, QueueBudget
<1>3. Nums(actions) = {} /\ Pending = {} /\ Held = {}
  BY EmptyNums DEF Init, Pending, Held, Note
<1>4. Ordered /\ Recent
  BY <1>3, EmptyNums DEF Init, Ordered, Recent, Below, Waiting, Pending
<1> QED BY <1>1, <1>2, <1>4 DEF LinkInv

(* The workers touch no ask. *)
LEMMA WorkerInv ==
    ASSUME LinkInv, TokenTake \/ TokenLock \/ TokenSubmit \/ SettleRequest
                    \/ SettleLock \/ SettleSubmit
    PROVE  LinkInv'
<1>1. UNCHANGED <<events, actions, server, runloop, spent>>
  BY DEF TokenTake, TokenLock, TokenSubmit, SettleRequest, SettleLock, SettleSubmit, channels
<1>2. tokens' \in 0 .. Cap
  BY LinkAssumption DEF LinkInv, LinkTypeOK, TokenTake, TokenLock, TokenSubmit,
     SettleRequest, SettleLock, SettleSubmit, channels
<1>3. /\ token_worker' \in {"idle", "lock", "submit", "notify"}
      /\ settler' \in {"idle", "lock", "submit"}
      /\ tx_lock' \in {"free", "token", "settle"}
  BY DEF LinkInv, LinkTypeOK, TokenTake, TokenLock, TokenSubmit,
     SettleRequest, SettleLock, SettleSubmit
<1>4. LinkTypeOK'
  BY <1>1, <1>2, <1>3 DEF LinkInv, LinkTypeOK, server, runloop
<1>5. HoldKind' /\ AskBudget' /\ QueueBudget'
  BY <1>1 DEF LinkInv, HoldKind, AskBudget, QueueBudget, server, runloop
<1>6. Ordered' /\ Recent'
  BY <1>1 DEF LinkInv, Ordered, Recent, Pending, Held, Waiting, server, runloop
<1> QED BY <1>4, <1>5, <1>6 DEF LinkInv

(* A new session, or the end of one, throws the client's messages away. *)
LEMMA SessionInv ==
    ASSUME LinkInv, acceptor_loop \/ AuthFailed \/ ConnectionLost
    PROVE  LinkInv'
<1>1. /\ UNCHANGED <<channels, runloop, workers, spent>>
      /\ handler' \in {"auth", "down"} /\ connected' = FALSE
      /\ hold' = Note /\ asked' = <<>> /\ inbox' = <<>>
  BY DEF acceptor_loop, Replaces, AuthFailed, ConnectionLost, NewSession
<1>2. LinkTypeOK'
  <2>1. asked' \in Seq(Asks) /\ inbox' \in Seq(Messages)
    BY <1>1, EmptyNums, Zenon
  <2>2. /\ handler' \in {"auth", "down"} /\ connected' \in BOOLEAN
        /\ hold' \in Messages \cup {Note}
        /\ UNCHANGED <<channels, runloop, workers, spent>>
    BY <1>1
  <2> QED BY <2>1, <2>2 DEF LinkInv, LinkTypeOK, channels, runloop, workers
<1>3. HoldKind' /\ AskBudget' /\ QueueBudget'
  BY <1>1 DEF LinkInv, HoldKind, AskBudget, QueueBudget, runloop
<1>4. Held' \subseteq Held
  BY <1>1 DEF Held, Note
<1>5. Ordered' /\ Recent'
  <2>1. Waiting' = Waiting /\ UNCHANGED <<asks, timeouts, actions, events>>
    BY <1>1 DEF Waiting, runloop, channels
  <2>2. Rising(actions') /\ Rising(events') /\ Rising(inbox') /\ Rising(asked')
    BY <1>1, <2>1, EmptyNums DEF LinkInv, Ordered
  <2>3. Nums(inbox') \subseteq Nums(inbox) /\ Nums(asked') \subseteq Nums(asked)
    BY <1>1, EmptyNums
  <2> QED BY <1>4, <2>1, <2>2, <2>3, FlowShrinks
<1> QED BY <1>2, <1>3, <1>5 DEF LinkInv

\* A client passes authentication and what was queued without one is drained.
LEMMA AuthInv == ASSUME LinkInv, AuthOk \/ DrainStale PROVE LinkInv'
<1>1. /\ UNCHANGED <<actions, tokens, hold, asked, inbox, runloop, workers, spent>>
      /\ handler' \in {"drain", "relay"} /\ handler \notin {"fwd_action", "fwd_token"}
      /\ connected' \in BOOLEAN
      /\ events' = events \/ events' = <<>>
  BY DEF AuthOk, DrainStale, channels, LinkInv, LinkTypeOK
<1>2. LinkTypeOK'
  <2>1. events' \in Seq(Asks \cup {Note}) /\ Len(events') <= Cap
    <3>1. <<>> \in Seq(Asks \cup {Note}) /\ Len(<<>>) <= Cap
      BY LinkAssumption, EmptyNums
    <3>2. events \in Seq(Asks \cup {Note}) /\ Len(events) <= Cap
      BY DEF LinkInv, LinkTypeOK
    <3> QED BY <1>1, <3>1, <3>2, Zenon
  <2> QED BY <1>1, <2>1 DEF LinkInv, LinkTypeOK, runloop, workers
<1>3. HoldKind' /\ AskBudget' /\ QueueBudget'
  BY <1>1 DEF LinkInv, HoldKind, AskBudget, QueueBudget, runloop
<1>4. Ordered' /\ Recent'
  <2>1. Waiting' = Waiting /\ UNCHANGED <<asks, timeouts>> /\ Held' = Held
    BY <1>1 DEF Waiting, runloop, Held
  <2>2. Rising(actions') /\ Rising(events') /\ Rising(inbox') /\ Rising(asked')
    BY <1>1, EmptyNums DEF LinkInv, Ordered
  <2>3. Nums(events') \subseteq Nums(events)
    BY <1>1, EmptyNums
  <2> QED BY <1>1, <2>1, <2>2, <2>3, FlowShrinks
<1> QED BY <1>2, <1>3, <1>4 DEF LinkInv

(* An event without a number is sent to the strategy. *)
LEMMA SendNote ==
    ASSUME LinkInv, send_event(Note), UNCHANGED <<actions, hold, inbox, asked, asks, timeouts>>,
           Waiting' = Waiting
    PROVE  /\ Ordered' /\ Recent'
           /\ events' \in Seq(Asks \cup {Note}) /\ Len(events') <= Cap
<1>1. /\ events \in Seq(Asks \cup {Note}) /\ Rising(events) /\ Len(events) < Cap
      /\ events' = Append(events, Note) /\ Note.ask = 0
  BY MessageNums DEF LinkInv, LinkTypeOK, Ordered, send_event
<1>2. /\ events' \in Seq(Asks \cup {Note}) /\ Len(events') = Len(events) + 1
      /\ Rising(events') /\ Nums(events') \subseteq Nums(events)
  <2> DEFINE S == Asks \cup {Note}
  <2>1. Note \in S /\ events \in Seq(S)
    BY <1>1
  <2> HIDE DEF S
  <2>2. /\ events' \in Seq(S) /\ Len(events') = Len(events) + 1
        /\ Rising(events') /\ Nums(events') \subseteq Nums(events) \cup ({Note.ask} \ {0})
    BY <1>1, <2>1, AppendNums
  <2> QED BY <1>1, <2>2 DEF S
<1>3. Len(events') <= Cap
  BY <1>1, <1>2, LenProperties, LinkAssumption
<1>4. Rising(actions') /\ Rising(inbox') /\ Rising(asked') /\ Held' = Held
  BY DEF LinkInv, Ordered, Held
<1>5. Ordered' /\ Recent'
  BY <1>2, <1>4, FlowShrinks
<1> QED BY <1>2, <1>3, <1>5

(* The token worker's notice, the match result and the queued events. *)
LEMMA NoticeInv ==
    ASSUME LinkInv, notify \/ SendMatchResult \/ drain_strategy_events
    PROVE  LinkInv'
<1>1. CASE notify
  <2>1. /\ Waiting' = Waiting /\ send_event(Note)
        /\ UNCHANGED <<actions, tokens, server, runloop, settler, spent>>
        /\ token_worker' = "idle" /\ tx_lock' = "free"
    BY <1>1 DEF notify, DropGuard, Waiting, runloop
  <2>2. /\ Ordered' /\ Recent'
        /\ events' \in Seq(Asks \cup {Note}) /\ Len(events') <= Cap
    BY <2>1, SendNote DEF server, runloop
  <2>3. LinkTypeOK'
    BY <2>1, <2>2 DEF LinkInv, LinkTypeOK, server, runloop
  <2>4. HoldKind' /\ AskBudget' /\ QueueBudget'
    BY <2>1 DEF LinkInv, HoldKind, AskBudget, QueueBudget, server, runloop
  <2> QED BY <2>2, <2>3, <2>4 DEF LinkInv
<1>2. CASE SendMatchResult \/ (drain_strategy_events /\ queued > 0)
  <2>1. /\ Waiting' = Waiting /\ send_event(Note)
        /\ UNCHANGED <<phase, batch, commits, asks, timeouts, actions, tokens, server, workers, spent>>
        /\ loop \in {"tell_match", "drain"} /\ loop' = "drain"
        /\ queued' \in 0 .. queued
        /\ queued' = queued \/ loop = "drain"
    BY <1>2 DEF SendMatchResult, drain_strategy_events, Waiting, LinkInv, LinkTypeOK
  <2>2. /\ Ordered' /\ Recent'
        /\ events' \in Seq(Asks \cup {Note}) /\ Len(events') <= Cap
    BY <2>1, SendNote DEF server
  <2>3. LinkTypeOK'
    BY <2>1, <2>2, LinkAssumption DEF LinkInv, LinkTypeOK, server, workers
  <2>4. HoldKind' /\ AskBudget' /\ QueueBudget'
    BY <2>1, LinkAssumption DEF LinkInv, LinkTypeOK, HoldKind, AskBudget, QueueBudget, server
  <2> QED BY <2>2, <2>3, <2>4 DEF LinkInv
<1>3. CASE drain_strategy_events /\ queued = 0
  <2>1. /\ UNCHANGED <<phase, batch, commits, queued, asks, timeouts, channels, server, workers, spent>>
        /\ loop = "drain" /\ loop' = "idle"
    BY <1>3 DEF drain_strategy_events, channels
  <2>2. LinkTypeOK'
    BY <2>1 DEF LinkInv, LinkTypeOK, channels, server, workers
  <2>3. HoldKind' /\ AskBudget' /\ QueueBudget'
    BY <1>3, <2>1, LinkAssumption DEF LinkInv, HoldKind, AskBudget, QueueBudget, server
  <2>4. Ordered' /\ Recent'
    BY <2>1 DEF LinkInv, Ordered, Recent, Pending, Held, Waiting, server, channels
  <2> QED BY <2>2, <2>3, <2>4 DEF LinkInv
<1> QED BY <1>1, <1>2, <1>3 DEF drain_strategy_events, LinkInv, LinkTypeOK

(* A new phase asks nothing yet. *)
LEMMA EnterInv ==
    ASSUME LinkInv, EnterCommit \/ EnterReveal \/ EnterMatch \/ EnterSwap
    PROVE  LinkInv'
<1>1. /\ UNCHANGED <<asks, timeouts, channels, server, workers>> /\ loop = "idle"
      /\ Waiting' = Waiting /\ Waiting = 0
      /\ spent' \in [tokens : 0 .. MaxTokens, notes : 0 .. MaxNotes]
      /\ queued' \in 0 .. MaxNotes + 1 /\ (loop' # "drain" => queued' <= MaxNotes)
      /\ loop' \in {"ask_commit", "ask_reveal", "tell_match", "drain"}
  <2>1. PICK step \in {"ask_commit", "ask_reveal", "tell_match", "drain"}, more \in {0, 1} :
          /\ \E from, to : Enter(from, to, step, more)
          /\ step # "drain" => more = 0
    BY DEF EnterCommit, EnterReveal, EnterMatch, EnterSwap
  <2>2. PICK n \in {0, 1} :
          /\ spent.notes + n <= MaxNotes
          /\ spent' = [spent EXCEPT !.notes = @ + n]
          /\ queued' = queued + n + more
    BY <2>1 DEF Enter
  <2>3. loop = "idle" /\ loop' = step /\ queued = 0 /\ UNCHANGED <<asks, timeouts, channels, server, workers>>
    BY <2>1 DEF Enter, LinkInv, QueueBudget
  <2>4. spent.notes \in 0 .. MaxNotes /\ spent' \in [tokens : 0 .. MaxTokens, notes : 0 .. MaxNotes]
    <3>1. spent \in [tokens : 0 .. MaxTokens, notes : 0 .. MaxNotes]
      BY DEF LinkInv, LinkTypeOK
    <3>2. spent.notes + n \in 0 .. MaxNotes
      BY <2>2, <3>1, LinkAssumption
    <3> QED BY <2>2, <3>1, <3>2
  <2> QED BY <2>1, <2>2, <2>3, <2>4, LinkAssumption DEF Waiting
<1>2. /\ phase' \in {"commit", "reveal", "match", "swap"}
      /\ commits' \in BOOLEAN /\ batch' \in 0 .. MaxBatch
      /\ AskBudget'
  <2>1. CASE EnterCommit
    <3>1. /\ batch < MaxBatch /\ batch' = batch + 1 /\ commits' = FALSE
          /\ phase = "swap" /\ phase' = "commit" /\ loop' \in {"ask_commit", "drain"}
      BY <2>1 DEF EnterCommit, Enter
    <3>2. batch \in Nat /\ asks \in Nat /\ asks <= 2 * batch /\ batch' \in 0 .. MaxBatch
      BY <1>1, <3>1, LinkAssumption DEF LinkInv, LinkTypeOK, AskBudget, MaxAsks
    <3>3. asks + 1 < 2 * batch' /\ asks < 2 * batch' /\ asks' = asks
      BY <1>1, <3>1, <3>2
    <3>4. AskBudget'
      BY <3>1, <3>2, <3>3 DEF AskBudget
    <3> QED BY <3>1, <3>2, <3>4
  <2>2. CASE EnterReveal
    <3>1. /\ UNCHANGED <<batch, commits>>
          /\ phase = "commit" /\ phase' = "reveal" /\ loop' \in {"ask_reveal", "drain"}
      BY <2>2 DEF EnterReveal, Enter
    <3> QED BY <1>1, <3>1, LinkAssumption DEF LinkInv, LinkTypeOK, AskBudget, MaxAsks
  <2>3. CASE EnterMatch \/ EnterSwap
    <3>1. /\ UNCHANGED <<batch, commits>>
          /\ phase # "commit" /\ phase' \in {"match", "swap"} /\ loop' \in {"tell_match", "drain"}
      BY <2>3 DEF EnterMatch, EnterSwap, Enter
    <3> QED BY <1>1, <3>1, LinkAssumption DEF LinkInv, LinkTypeOK, AskBudget, MaxAsks
  <2> QED BY <2>1, <2>2, <2>3
<1>3. LinkTypeOK'
  BY <1>1, <1>2, LinkAssumption DEF LinkInv, LinkTypeOK, channels, server, workers
<1>4. HoldKind' /\ QueueBudget'
  BY <1>1, LinkAssumption DEF LinkInv, HoldKind, QueueBudget, server
<1>5. Ordered' /\ Recent'
  BY <1>1 DEF LinkInv, Ordered, Recent, Pending, Held, server, channels
<1> QED BY <1>2, <1>3, <1>4, <1>5 DEF LinkInv

(* A new ask has the highest number so far. *)
LEMMA AskInv ==
    ASSUME LinkInv, NEW kind \in {"commit", "reveal"}, NEW step, NEW wait,
           \/ kind = "commit" /\ step = "ask_commit" /\ wait = "wait_commit"
           \/ kind = "reveal" /\ step = "ask_reveal" /\ wait = "wait_reveal",
           Ask(kind, step, wait)
    PROVE  LinkInv'
<1> DEFINE e == [kind |-> kind, ask |-> asks + 1]
           S == Asks \cup {Note}
<1>0. /\ UNCHANGED <<phase, batch, commits, queued, timeouts, actions, tokens, server, workers, spent>>
      /\ loop = step /\ loop' = wait /\ asks' = asks + 1
      /\ Len(events) < Cap /\ events' = Append(events, e)
  BY DEF Ask, send_event
<1>1. /\ asks \in Nat /\ batch \in 0 .. MaxBatch /\ asks + 1 <= 2 * batch
      /\ kind = "commit" => asks + 1 < 2 * batch
      /\ asks + 1 \in 0 .. MaxAsks /\ timeouts \in 0 .. asks
  BY <1>0, LinkAssumption DEF LinkInv, LinkTypeOK, AskBudget, MaxAsks
<1>2. e \in Asks /\ e.ask = asks + 1
  BY <1>1 DEF Asks
<1>3. \A n \in Nums(actions) \cup Pending : n \in 1 .. asks
  BY DEF LinkInv, Recent
<1>4. Nums(events) \subseteq Pending /\ Nums(inbox) \subseteq Pending
      /\ Nums(asked) \subseteq Pending /\ Held \subseteq Pending
  BY DEF Pending
<1>5. e \in S /\ events \in Seq(S) /\ Rising(events) /\ Below(Nums(events), {e.ask})
  BY <1>1, <1>2, <1>3, <1>4 DEF LinkInv, LinkTypeOK, Ordered, Below
<1> HIDE DEF S, e
<1>6. /\ events' \in Seq(S) /\ Len(events') = Len(events) + 1 /\ Len(events) \in Nat
      /\ Rising(events') /\ Nums(events') \subseteq Nums(events) \cup {asks + 1}
  BY <1>0, <1>2, <1>5, AppendNums, LenProperties
<1>7. LinkTypeOK'
  <2>1. events' \in Seq(Asks \cup {Note}) /\ Len(events') <= Cap
    BY <1>0, <1>6, LinkAssumption DEF S
  <2>2. asks' \in 0 .. MaxAsks /\ timeouts' \in 0 .. asks'
    BY <1>0, <1>1
  <2> QED BY <1>0, <2>1, <2>2 DEF LinkInv, LinkTypeOK, server, workers
<1>8. HoldKind' /\ QueueBudget'
  BY <1>0, LinkAssumption DEF LinkInv, HoldKind, QueueBudget, server
<1>9. AskBudget'
  BY <1>0, <1>1, LinkAssumption DEF LinkInv, AskBudget
<1>10. Nums(actions') = Nums(actions) /\ Pending' \subseteq Pending \cup {asks + 1}
  BY <1>0, <1>6 DEF Pending, Held, server
<1>11. Recent'
  <2>1. Waiting = 0 /\ Waiting' = 1
    BY <1>0 DEF Waiting
  <2>2. timeouts \in Nat /\ timeouts <= asks /\ timeouts' = timeouts
    BY <1>0, <1>1
  <2>3. \A n \in Nums(actions) \cup Pending : n \in 1 .. asks /\ asks < n + timeouts
    BY <2>1, <2>2 DEF LinkInv, Recent
  <2>4. ASSUME NEW n \in Nums(actions') \cup Pending'
        PROVE  n \in 1 .. asks' /\ asks' < n + timeouts' + Waiting'
    <3>1. CASE n = asks + 1
      BY <1>0, <1>1, <2>1, <2>2, <3>1
    <3>2. CASE n \in Nums(actions) \cup Pending
      BY <1>0, <1>1, <2>1, <2>2, <2>3, <3>2
    <3> QED BY <1>10, <3>1, <3>2
  <2> QED BY <1>0, <1>1, <2>1, <2>2, <2>4 DEF Recent
<1>12. Ordered'
  <2>1. Held' = Held /\ UNCHANGED <<actions, inbox, asked>>
    BY <1>0 DEF Held, server
  <2>2. \A n \in Nums(actions) \cup Pending : n < asks + 1
    BY <1>1, <1>3
  <2>3. Below(Nums(actions'), Pending')
    BY <1>10, <2>2 DEF LinkInv, Ordered, Below
  <2>4. Below(Held', Nums(inbox') \cup Nums(asked') \cup Nums(events'))
    BY <1>4, <1>6, <2>1, <2>2 DEF LinkInv, Ordered, Below
  <2>5. Below(Nums(inbox'), Nums(asked') \cup Nums(events'))
    BY <1>4, <1>6, <2>1, <2>2 DEF LinkInv, Ordered, Below
  <2>6. Below(Nums(asked'), Nums(events'))
    BY <1>4, <1>6, <2>1, <2>2 DEF LinkInv, Ordered, Below
  <2> QED BY <1>6, <2>1, <2>3, <2>4, <2>5, <2>6 DEF LinkInv, Ordered
<1> QED BY <1>7, <1>8, <1>9, <1>11, <1>12 DEF LinkInv

(* The wait ends without an answer. *)
LEMMA TimeoutInv == ASSUME LinkInv, receive_action_timeout PROVE LinkInv'
<1>1. /\ UNCHANGED <<phase, batch, commits, asks, channels, server, workers, spent>>
      /\ loop \in {"wait_commit", "wait_reveal"} /\ loop' = "drain"
      /\ timeouts' = timeouts + 1
      /\ queued' \in {queued, queued + 1}
  BY DEF receive_action_timeout
<1>2. /\ Waiting = 1 /\ Waiting' = 0 /\ asks \in Nat /\ timeouts \in Nat
      /\ timeouts + 1 <= asks
  BY <1>1, LinkAssumption DEF Waiting, LinkInv, LinkTypeOK, Recent, MaxAsks
<1>3. queued' \in 0 .. MaxNotes + 1
  BY <1>1, LinkAssumption DEF LinkInv, LinkTypeOK, QueueBudget
<1>4. LinkTypeOK'
  BY <1>1, <1>2, <1>3, LinkAssumption DEF LinkInv, LinkTypeOK, channels, server, workers
<1>5. HoldKind' /\ AskBudget' /\ QueueBudget'
  BY <1>1, <1>3, LinkAssumption DEF LinkInv, HoldKind, AskBudget, QueueBudget, server
<1>6. Ordered'
  BY <1>1 DEF LinkInv, Ordered, Pending, Held, server, channels
<1>7. Recent'
  <2>1. Nums(actions') = Nums(actions) /\ Pending' = Pending
    BY <1>1 DEF Pending, Held, server, channels
  <2> QED BY <1>1, <1>2, <2>1 DEF LinkInv, Recent
<1> QED BY <1>4, <1>5, <1>6, <1>7 DEF LinkInv

(* An answer is read: what stays in the pipeline is younger than it. *)
LEMMA ReceiveInv == ASSUME LinkInv, ReceiveCommit \/ ReceiveReveal PROVE LinkInv'
<1>1. /\ UNCHANGED <<phase, batch, asks, timeouts, events, tokens, server, workers, spent>>
      /\ loop \in {"wait_commit", "wait_reveal"} /\ loop' = "drain"
      /\ actions # <<>> /\ actions' = Tail(actions)
      /\ commits' \in BOOLEAN
      /\ queued' \in {queued, queued + 1}
  BY DEF ReceiveCommit, ReceiveReveal, LinkInv, LinkTypeOK
<1>2. /\ Waiting = 1 /\ Waiting' = 0 /\ asks \in Nat /\ timeouts \in Nat
      /\ timeouts + 1 <= asks
  BY <1>1, LinkAssumption DEF Waiting, LinkInv, LinkTypeOK, Recent, MaxAsks
<1>3. queued' \in 0 .. MaxNotes + 1
  BY <1>1, LinkAssumption DEF LinkInv, LinkTypeOK, QueueBudget
<1>4. actions \in Seq(Asks) /\ Rising(actions) /\ Len(actions) <= Cap /\ Len(actions) \in Nat
  BY LenProperties DEF LinkInv, LinkTypeOK, Ordered
<1>5. Head(actions).ask \in Nat \ {0}
  BY <1>1, <1>4, TailNums, MessageNums
<1>6. /\ actions' \in Seq(Asks) /\ Rising(actions') /\ Len(actions') = Len(actions) - 1
      /\ Nums(actions') \subseteq Nums(actions)
      /\ Head(actions).ask \in Nums(actions)
      /\ Below({Head(actions).ask}, Nums(actions'))
  BY <1>1, <1>4, <1>5, TailNums
<1>7. LinkTypeOK'
  <2>1. Len(actions') <= Cap
    BY <1>4, <1>6, LinkAssumption
  <2> QED BY <1>1, <1>3, <1>6, <2>1, LinkAssumption DEF LinkInv, LinkTypeOK, server, workers
<1>8. HoldKind' /\ AskBudget' /\ QueueBudget'
  BY <1>1, <1>3, LinkAssumption DEF LinkInv, HoldKind, AskBudget, QueueBudget, server
<1>9. Pending' = Pending
  BY <1>1 DEF Pending, Held, server
<1>10. Ordered'
  <2>1. Below(Nums(actions'), Pending')
    BY <1>6, <1>9 DEF LinkInv, Ordered, Below
  <2> QED BY <1>1, <1>6, <2>1 DEF LinkInv, Ordered, Held, server
<1>11. Recent'
  <2>1. asks < Head(actions).ask + timeouts + 1
    BY <1>2, <1>6 DEF LinkInv, Recent
  <2>2. ASSUME NEW n \in Nums(actions') \cup Pending'
        PROVE  n \in 1 .. asks /\ asks < n + timeouts
    <3>1. n \in Nums(actions) \cup Pending
      BY <1>6, <1>9
    <3>2. n \in 1 .. asks
      BY <3>1 DEF LinkInv, Recent
    <3>3. Head(actions).ask < n
      BY <1>6, <1>9 DEF LinkInv, Ordered, Below
    <3> QED BY <1>2, <1>5, <2>1, <3>2, <3>3
  <2> QED BY <1>1, <1>2, <2>2 DEF Recent
<1> QED BY <1>7, <1>8, <1>10, <1>11 DEF LinkInv

(* The relay and the client invent no ask: the bound stays. *)
LEMMA RelayRecent ==
    ASSUME LinkInv, UNCHANGED runloop,
           Nums(actions') \cup Pending' \subseteq Nums(actions) \cup Pending
    PROVE  AskBudget' /\ QueueBudget' /\ Recent'
<1>1. Waiting' = Waiting /\ UNCHANGED <<asks, timeouts>>
  BY DEF Waiting, runloop
<1>2. Recent'
  BY <1>1 DEF LinkInv, Recent
<1>3. AskBudget' /\ QueueBudget'
  BY DEF LinkInv, AskBudget, QueueBudget, runloop
<1> QED BY <1>2, <1>3

(* An event goes to the client. *)
LEMMA ForwardEventInv == ASSUME LinkInv, ForwardEvent PROVE LinkInv'
<1> DEFINE S == Asks \cup {Note}
           h == Head(events)
<1>0. /\ handler = "relay" /\ events # <<>> /\ events' = Tail(events)
      /\ asked' = IF h \in Asks THEN Append(asked, h) ELSE asked
      /\ UNCHANGED <<actions, tokens, connected, handler, hold, inbox, runloop, workers, spent>>
  BY DEF ForwardEvent
<1>1. events \in Seq(S) /\ Rising(events) /\ Len(events) \in Nat /\ Len(events) <= Cap
  BY LenProperties DEF LinkInv, LinkTypeOK, Ordered
<1> HIDE DEF S
<1>2. /\ events' \in Seq(S) /\ Len(events') = Len(events) - 1 /\ Rising(events')
      /\ Nums(events') \subseteq Nums(events)
      /\ h.ask # 0 => h.ask \in Nums(events) /\ Below({h.ask}, Nums(events'))
  BY <1>0, <1>1, TailNums
<1>3. asked \in Seq(Asks) /\ Rising(asked)
  BY DEF LinkInv, LinkTypeOK, Ordered
<1>4. /\ asked' \in Seq(Asks) /\ Rising(asked')
      /\ \A n \in Nums(asked') : n \in Nums(asked) \/ (n = h.ask /\ n # 0)
  <2>1. CASE h \in Asks
    <3>1. h.ask # 0
      BY <2>1, MessageNums
    <3>2. Below(Nums(asked), {h.ask})
      BY <1>2, <3>1 DEF LinkInv, Ordered, Below
    <3> HIDE DEF h
    <3> QED BY <1>0, <1>3, <2>1, <3>2, AppendNums
  <2>2. CASE h \notin Asks
    BY <1>0, <1>3, <2>2
  <2> QED BY <2>1, <2>2
<1> HIDE DEF h
<1>5. LinkTypeOK'
  <2>1. events' \in Seq(Asks \cup {Note}) /\ Len(events') <= Cap
    BY <1>1, <1>2, LinkAssumption DEF S
  <2> QED BY <1>0, <1>4, <2>1 DEF LinkInv, LinkTypeOK, runloop, workers
<1>6. HoldKind'
  BY <1>0 DEF LinkInv, HoldKind
<1>7. Held' = Held /\ Pending' \subseteq Pending /\ UNCHANGED <<actions, inbox>>
  BY <1>0, <1>2, <1>4 DEF Held, Pending
<1>8. AskBudget' /\ QueueBudget' /\ Recent'
  BY <1>0, <1>7, RelayRecent
<1>9. Ordered'
  <2>1. Below(Nums(actions'), Pending')
    BY <1>7 DEF LinkInv, Ordered, Below
  <2>2. Nums(asked') \cup Nums(events') \subseteq Nums(asked) \cup Nums(events)
    BY <1>2, <1>4
  <2>3. Below(Held', Nums(inbox') \cup Nums(asked') \cup Nums(events'))
    BY <1>7, <2>2 DEF LinkInv, Ordered, Below
  <2>4. Below(Nums(inbox'), Nums(asked') \cup Nums(events'))
    BY <1>7, <2>2 DEF LinkInv, Ordered, Below
  <2>5. Below(Nums(asked'), Nums(events'))
    BY <1>2, <1>4 DEF LinkInv, Ordered, Below
  <2> QED BY <1>2, <1>4, <1>7, <2>1, <2>3, <2>4, <2>5 DEF LinkInv, Ordered
<1> QED BY <1>5, <1>6, <1>8, <1>9 DEF LinkInv

(* The handler reads a message of the client. *)
LEMMA ReadInv == ASSUME LinkInv, ReadMessage PROVE LinkInv'
<1> DEFINE h == Head(inbox)
<1>0. /\ handler = "relay" /\ inbox # <<>> /\ inbox' = Tail(inbox) /\ hold' = h
      /\ handler' = IF is_token_action(h) THEN "fwd_token" ELSE "fwd_action"
      /\ UNCHANGED <<connected, asked, channels, runloop, workers, spent>>
  BY DEF ReadMessage
<1>1. inbox \in Seq(Messages) /\ Rising(inbox)
  BY DEF LinkInv, LinkTypeOK, Ordered
<1>2. /\ inbox' \in Seq(Messages) /\ Rising(inbox') /\ h \in Messages
      /\ Nums(inbox') \subseteq Nums(inbox)
      /\ h.ask # 0 => h.ask \in Nums(inbox) /\ Below({h.ask}, Nums(inbox'))
  BY <1>0, <1>1, TailNums
<1> HIDE DEF h
<1>3. LinkTypeOK'
  BY <1>0, <1>2 DEF LinkInv, LinkTypeOK, channels, runloop, workers
<1>4. HoldKind'
  BY <1>0, <1>2, MessageNums DEF HoldKind, is_token_action
<1>5. Held' = {h.ask} \ {0} /\ Held = {}
  BY <1>0, MessageNums DEF LinkInv, HoldKind, Held
<1>6. Pending' \subseteq Pending /\ UNCHANGED <<actions, asked, events>>
  BY <1>0, <1>2, <1>5 DEF Pending, channels
<1>7. AskBudget' /\ QueueBudget' /\ Recent'
  BY <1>0, <1>6, RelayRecent
<1>8. Ordered'
  <2>1. Below(Nums(actions'), Pending')
    BY <1>6 DEF LinkInv, Ordered, Below
  <2>2. Below(Held', Nums(inbox') \cup Nums(asked') \cup Nums(events'))
    BY <1>2, <1>5, <1>6 DEF LinkInv, Ordered, Below
  <2>3. Below(Nums(inbox'), Nums(asked') \cup Nums(events'))
    BY <1>2, <1>6 DEF LinkInv, Ordered, Below
  <2> QED BY <1>2, <1>6, <2>1, <2>2, <2>3 DEF LinkInv, Ordered
<1> QED BY <1>3, <1>4, <1>7, <1>8 DEF LinkInv

(* The handler puts an answer into the action channel, or a token action into the
   token worker's. *)
LEMMA ForwardInv == ASSUME LinkInv, ForwardAction \/ ForwardToken PROVE LinkInv'
<1>1. /\ UNCHANGED <<events, connected, asked, inbox, runloop, workers, spent>>
      /\ handler' = "relay" /\ hold' = Note
  BY DEF ForwardAction, ForwardToken
<1>2. Held' = {}
  BY <1>1, MessageNums DEF Held
<1>3. /\ actions' \in Seq(Asks) /\ Len(actions') <= Cap /\ Rising(actions')
      /\ Nums(actions') \subseteq Nums(actions) \cup Held
      /\ tokens' \in 0 .. Cap
  <2>1. actions \in Seq(Asks) /\ Len(actions) <= Cap /\ Rising(actions) /\ tokens \in 0 .. Cap
    BY DEF LinkInv, LinkTypeOK, Ordered
  <2>2. CASE ForwardAction
    <3>1. /\ actions' = Append(actions, hold) /\ Len(actions) < Cap /\ tokens' = tokens
          /\ hold \in Asks
      BY <2>2 DEF ForwardAction, LinkInv, HoldKind
    <3>2. hold.ask # 0 /\ Below(Nums(actions), {hold.ask})
      BY <3>1, MessageNums DEF LinkInv, Ordered, Below, Pending, Held
    <3>3. /\ actions' \in Seq(Asks) /\ Len(actions') = Len(actions) + 1 /\ Rising(actions')
          /\ Nums(actions') \subseteq Nums(actions) \cup ({hold.ask} \ {0})
      BY <2>1, <3>1, <3>2, AppendNums
    <3>4. Len(actions') <= Cap
      BY <2>1, <3>1, <3>3, LenProperties, LinkAssumption
    <3> QED BY <2>1, <3>1, <3>3, <3>4 DEF Held
  <2>3. CASE ForwardToken
    BY <2>1, <2>3, LinkAssumption DEF ForwardToken
  <2> QED BY <2>2, <2>3
<1>4. LinkTypeOK'
  BY <1>1, <1>3 DEF LinkInv, LinkTypeOK, runloop, workers
<1>5. HoldKind'
  BY <1>1 DEF HoldKind
<1>6. Pending' \subseteq Pending /\ Pending' \subseteq Nums(inbox) \cup Nums(asked) \cup Nums(events)
      /\ Nums(actions') \subseteq Nums(actions) \cup Pending
  BY <1>1, <1>2, <1>3 DEF Pending
<1>7. AskBudget' /\ QueueBudget' /\ Recent'
  BY <1>1, <1>6, RelayRecent
<1>8. Ordered'
  <2>1. Below(Nums(actions'), Pending')
    BY <1>3, <1>6 DEF LinkInv, Ordered, Below
  <2>2. Below(Held', Nums(inbox') \cup Nums(asked') \cup Nums(events'))
    BY <1>2 DEF Below
  <2> QED BY <1>1, <1>3, <2>1, <2>2 DEF LinkInv, Ordered
<1> QED BY <1>4, <1>5, <1>7, <1>8 DEF LinkInv

(* The client answers its oldest ask, lets it be, or sends a token action. *)
LEMMA ClientInv == ASSUME LinkInv, ClientAnswer \/ ClientToken PROVE LinkInv'
<1>1. UNCHANGED <<connected, handler, hold, channels, runloop, workers>>
  BY DEF ClientAnswer, ClientToken
<1>2. inbox \in Seq(Messages) /\ asked \in Seq(Asks) /\ Rising(inbox) /\ Rising(asked)
  BY DEF LinkInv, LinkTypeOK, Ordered
<1>3. spent' \in [tokens : 0 .. MaxTokens, notes : 0 .. MaxNotes]
  <2>1. spent \in [tokens : 0 .. MaxTokens, notes : 0 .. MaxNotes]
    BY DEF LinkInv, LinkTypeOK
  <2>2. CASE ClientToken
    <3>1. spent' = [spent EXCEPT !.tokens = spent.tokens + 1] /\ spent.tokens + 1 \in 0 .. MaxTokens
      BY <2>1, <2>2, LinkAssumption DEF ClientToken
    <3> QED BY <2>1, <3>1
  <2> QED BY <2>1, <2>2 DEF ClientAnswer
<1>4. /\ inbox' \in Seq(Messages) /\ asked' \in Seq(Asks) /\ Rising(inbox') /\ Rising(asked')
      /\ Nums(asked') \subseteq Nums(asked)
      /\ \A n \in Nums(inbox') : n \in Nums(inbox) \/ (n \in Nums(asked) /\ Below({n}, Nums(asked')))
  <2>1. CASE ClientToken
    <3> DEFINE m == [kind |-> "token", ask |-> 0]
    <3>1. m \in Messages /\ m.ask = 0 /\ inbox' = Append(inbox, m) /\ asked' = asked
      BY <2>1 DEF ClientToken, Messages
    <3> HIDE DEF m
    <3> QED BY <1>2, <3>1, AppendNums
  <2>2. CASE ClientAnswer
    <3> DEFINE h == Head(asked)
    <3>1. asked # <<>> /\ asked' = Tail(asked) /\ inbox' \in {inbox, Append(inbox, h)}
      BY <2>2 DEF ClientAnswer
    <3>2. /\ asked' \in Seq(Asks) /\ Rising(asked') /\ Nums(asked') \subseteq Nums(asked)
          /\ h \in Asks
          /\ h.ask # 0 => h.ask \in Nums(asked) /\ Below({h.ask}, Nums(asked'))
      BY <1>2, <3>1, TailNums
    <3> HIDE DEF h
    <3>3. h.ask # 0 /\ h \in Messages
      BY <3>2, MessageNums
    <3>4. Below(Nums(inbox), {h.ask})
      BY <3>2, <3>3 DEF LinkInv, Ordered, Below
    <3>5. CASE inbox' = inbox
      BY <1>2, <3>2, <3>5
    <3>6. CASE inbox' = Append(inbox, h)
      <4>1. /\ inbox' \in Seq(Messages) /\ Rising(inbox')
            /\ Nums(inbox') \subseteq Nums(inbox) \cup ({h.ask} \ {0})
        BY <1>2, <3>3, <3>4, <3>6, AppendNums
      <4> QED BY <3>2, <3>3, <4>1
    <3> QED BY <3>1, <3>5, <3>6
  <2> QED BY <2>1, <2>2
<1>5. LinkTypeOK'
  BY <1>1, <1>3, <1>4 DEF LinkInv, LinkTypeOK, channels, runloop, workers
<1>6. HoldKind'
  BY <1>1 DEF LinkInv, HoldKind
<1>7. Held' = Held /\ Pending' \subseteq Pending /\ UNCHANGED <<actions, events>>
  BY <1>1, <1>4 DEF Held, Pending, channels
<1>8. AskBudget' /\ QueueBudget' /\ Recent'
  BY <1>1, <1>7, RelayRecent
<1>9. Ordered'
  <2>1. Below(Nums(actions'), Pending')
    BY <1>7 DEF LinkInv, Ordered, Below
  <2>2. Below(Held', Nums(inbox') \cup Nums(asked') \cup Nums(events'))
    BY <1>4, <1>7 DEF LinkInv, Ordered, Below
  <2>3. Below(Nums(inbox'), Nums(asked') \cup Nums(events'))
    BY <1>4, <1>7 DEF LinkInv, Ordered, Below
  <2>4. Below(Nums(asked'), Nums(events'))
    BY <1>4, <1>7 DEF LinkInv, Ordered, Below
  <2> QED BY <1>4, <1>7, <2>1, <2>2, <2>3, <2>4 DEF LinkInv, Ordered
<1> QED BY <1>5, <1>6, <1>8, <1>9 DEF LinkInv

-----------------------------------------------------------------------------
(* Every step of the node, of the client and of the network keeps the invariant. *)
LEMMA LinkInductive == LinkInv /\ [Next]_vars => LinkInv'
<1> SUFFICES ASSUME LinkInv, [Next]_vars PROVE LinkInv'
  OBVIOUS
<1>1. CASE HandlerStep
  BY <1>1, SessionInv, AuthInv, ForwardEventInv, ReadInv, ForwardInv DEF HandlerStep
<1>2. CASE ClientStep
  BY <1>2, SessionInv, ClientInv DEF ClientStep
<1>3. CASE SendBatchStart \/ SendRevealStart
  BY <1>3, AskInv DEF SendBatchStart, SendRevealStart
<1>4. CASE LoopStep
  BY <1>3, <1>4, EnterInv, NoticeInv, ReceiveInv, TimeoutInv DEF LoopStep
<1>5. CASE TokenStep \/ TokenLock \/ SettleRequest \/ SettleLock \/ SettleSubmit
  BY <1>5, WorkerInv, NoticeInv DEF TokenStep
<1>6. CASE UNCHANGED vars
  <2>1. UNCHANGED <<channels, server, runloop, workers, spent>>
    BY <1>6 DEF vars
  <2>2. LinkTypeOK'
    BY <2>1 DEF LinkInv, LinkTypeOK, channels, server, runloop, workers
  <2>3. HoldKind' /\ AskBudget' /\ QueueBudget'
    BY <2>1 DEF LinkInv, HoldKind, AskBudget, QueueBudget, server, runloop
  <2>4. Ordered' /\ Recent'
    BY <2>1 DEF LinkInv, Ordered, Recent, Pending, Held, Waiting, channels, server, runloop
  <2> QED BY <2>2, <2>3, <2>4 DEF LinkInv
<1> QED BY <1>1, <1>2, <1>4, <1>5, <1>6 DEF Next

(* While the loop waits, the answer at the head of the channel is behind by no
   more than the timeouts. *)
LEMMA HeadLag ==
    ASSUME LinkInv, actions # <<>>, loop \in {"wait_commit", "wait_reveal"}
    PROVE  asks - Head(actions).ask <= timeouts
<1>1. actions \in Seq(Asks) /\ Rising(actions) /\ asks \in Nat /\ timeouts \in Nat
  BY LinkAssumption DEF LinkInv, LinkTypeOK, Ordered, MaxAsks
<1>2. Head(actions).ask \in Nat \ {0} /\ Head(actions).ask \in Nums(actions)
  BY <1>1, TailNums, MessageNums
<1>3. asks < Head(actions).ask + timeouts + 1
  BY <1>2 DEF LinkInv, Recent, Waiting
<1> QED BY <1>1, <1>2, <1>3

(* The numbers of the asks under way rise from the run loop's receive to the
   node's send, in every reachable state. *)
THEOREM LinkInvariant == Spec => []LinkInv
BY InitInv, LinkInductive, PTL DEF Spec

(* The channels of the strategy server never hold more than their capacity, the
   run loop asks at most twice a batch, and it queues no more than the events of
   one block for the strategy (LinkTypeOK). *)
THEOREM LinkTypeCorrect == Spec => []LinkTypeOK
<1>1. LinkInv => LinkTypeOK
  BY DEF LinkInv
<1> QED BY <1>1, LinkInvariant, PTL

(* What receive_action returns is never further behind the ask than the number of
   waits that timed out, whatever connections came and went (LagBounded). *)
THEOREM LagIsBounded == Spec => LagBounded
<1>1. LinkInv /\ [Next]_vars
      => [actions # <<>> /\ loop \in {"wait_commit", "wait_reveal"} /\ loop' = "drain"
            => asks - Head(actions).ask <= timeouts]_vars
  BY HeadLag
<1> QED BY <1>1, LinkInvariant, PTL DEF Spec, LagBounded

-----------------------------------------------------------------------------
(***************************************************************************)
(* OrderIntake: from the text of an order to the reservation of its fills. *)
(***************************************************************************)

(* Powers of the base. *)

(* f is the table of the powers up to n. *)
IsPow(f, n) == f = [m \in 0 .. n |-> IF m = 0 THEN 1 ELSE Base * f[m - 1]]

(* A table is determined by its equation. *)
LEMMA PowUnique ==
    ASSUME NEW i \in Nat, NEW j \in Nat, NEW f, NEW g, IsPow(f, i), IsPow(g, j),
           NEW n \in Nat, n <= i, n <= j
    PROVE  f[n] = g[n]
<1> DEFINE Bad == {m \in 0 .. n : f[m] # g[m]}
<1> SUFFICES ASSUME Bad # {} PROVE FALSE
  OBVIOUS
<1>1. PICK m \in Bad : \A k \in Bad : m <= k
  <2>1. Bad \in SUBSET Nat
    OBVIOUS
  <2> HIDE DEF Bad
  <2> QED BY <2>1, LeastNat
<1>2. m \in Nat /\ m <= n /\ m \in 0 .. i /\ m \in 0 .. j /\ f[m] # g[m]
  OBVIOUS
<1>3. /\ f[m] = IF m = 0 THEN 1 ELSE Base * f[m - 1]
      /\ g[m] = IF m = 0 THEN 1 ELSE Base * g[m - 1]
  BY <1>2 DEF IsPow
<1>4. m # 0
  BY <1>2, <1>3
<1>5. m - 1 \in 0 .. n /\ m - 1 \notin Bad
  BY <1>1, <1>2, <1>4
<1> QED BY <1>2, <1>3, <1>4, <1>5

(* There is a table of any length. *)
LEMMA PowExists == \A n \in Nat : \E f : IsPow(f, n)
<1> DEFINE Bad == {n \in Nat : ~ \E f : IsPow(f, n)}
<1> SUFFICES ASSUME Bad # {} PROVE FALSE
  OBVIOUS
<1>1. PICK n \in Bad : \A k \in Bad : n <= k
  <2>1. Bad \in SUBSET Nat
    OBVIOUS
  <2> HIDE DEF Bad
  <2> QED BY <2>1, LeastNat
<1>2. n \in Nat /\ ~ \E f : IsPow(f, n)
  OBVIOUS
<1>3. n # 0
  <2> SUFFICES ASSUME n = 0 PROVE FALSE
    OBVIOUS
  <2> DEFINE h == [m \in 0 .. 0 |-> 1]
  <2>1. \A m \in 0 .. 0 : m = 0
    OBVIOUS
  <2>2. h = [m \in 0 .. 0 |-> IF m = 0 THEN 1 ELSE Base * h[m - 1]]
    BY <2>1
  <2>3. IsPow(h, n)
    <3> HIDE DEF h
    <3> QED BY <2>2 DEF IsPow
  <2> QED BY <1>2, <2>3
<1>4. n - 1 \in Nat /\ n - 1 \notin Bad
  BY <1>1, <1>2, <1>3
<1>5. PICK f : IsPow(f, n - 1)
  BY <1>4
<1> HIDE DEF Bad
<1> DEFINE e(m) == IF m = n THEN Base * f[n - 1] ELSE f[m]
           h == [m \in 0 .. n |-> e(m)]
<1>6. \A m \in 0 .. n : e(m) = IF m = 0 THEN 1 ELSE Base * h[m - 1]
  <2> SUFFICES ASSUME NEW m \in 0 .. n PROVE e(m) = IF m = 0 THEN 1 ELSE Base * h[m - 1]
    OBVIOUS
  <2>1. CASE m = n
    <3>1. h[m - 1] = f[n - 1]
      BY <1>2, <1>3, <2>1
    <3> HIDE DEF h
    <3> QED BY <1>3, <2>1, <3>1
  <2>2. CASE m # n
    <3>1. m \in 0 .. n - 1
      BY <1>2, <2>2
    <3>2. f[m] = IF m = 0 THEN 1 ELSE Base * f[m - 1]
      BY <1>5, <3>1 DEF IsPow
    <3>3. m # 0 => h[m - 1] = f[m - 1]
      BY <1>2, <3>1
    <3> HIDE DEF h
    <3> QED BY <2>2, <3>2, <3>3
  <2> QED BY <2>1, <2>2
<1>7. IsPow(h, n)
  <2> DEFINE d(m) == IF m = 0 THEN 1 ELSE Base * h[m - 1]
  <2>1. \A m \in 0 .. n : e(m) = d(m)
    BY <1>6
  <2>2. h = [m \in 0 .. n |-> e(m)]
    OBVIOUS
  <2> HIDE DEF e, d, h
  <2>3. h = [m \in 0 .. n |-> d(m)]
    BY <2>1, <2>2
  <2> QED BY <2>3 DEF IsPow, d
<1> QED BY <1>2, <1>7

(* The equations of the powers (10.pow). *)
LEMMA PowStep == Pow[0] = 1 /\ \A n \in Nat : Pow[n + 1] = Base * Pow[n]
<1> DEFINE G(n) == CHOOSE f : IsPow(f, n)
           h == [n \in Nat |-> G(n)[n]]
           rhs(f, n) == IF n = 0 THEN 1 ELSE Base * f[n - 1]
<1>1. \A n \in Nat : IsPow(G(n), n)
  BY PowExists
<1> HIDE DEF G
<1>2. \A n \in Nat : G(n)[n] = rhs(h, n)
  <2> SUFFICES ASSUME NEW n \in Nat PROVE G(n)[n] = rhs(h, n)
    OBVIOUS
  <2>1. n \in 0 .. n /\ G(n)[n] = IF n = 0 THEN 1 ELSE Base * G(n)[n - 1]
    BY <1>1 DEF IsPow
  <2>2. CASE n # 0
    <3>1. n - 1 \in Nat /\ n - 1 <= n
      BY <2>2
    <3>2. G(n)[n - 1] = G(n - 1)[n - 1]
      <4>1. IsPow(G(n), n) /\ IsPow(G(n - 1), n - 1)
        BY <1>1, <3>1
      <4> QED BY <3>1, <4>1, PowUnique
    <3>3. h[n - 1] = G(n - 1)[n - 1]
      BY <3>1
    <3> HIDE DEF h
    <3> QED BY <2>1, <2>2, <3>2, <3>3
  <2> QED BY <2>1, <2>2
<1>3. h = [n \in Nat |-> rhs(h, n)]
  <2>1. h = [n \in Nat |-> G(n)[n]]
    OBVIOUS
  <2> HIDE DEF h, rhs
  <2> QED BY <1>2, <2>1
<1>4. \E f : f = [n \in Nat |-> IF n = 0 THEN 1 ELSE Base * f[n - 1]]
  <2> HIDE DEF h
  <2> QED BY <1>3
<1>5. Pow = [n \in Nat |-> IF n = 0 THEN 1 ELSE Base * Pow[n - 1]]
  BY <1>4 DEF Pow
<1>6. Pow[0] = 1
  BY <1>5
<1>7. ASSUME NEW n \in Nat PROVE Pow[n + 1] = Base * Pow[n]
  <2>1. n + 1 \in Nat /\ n + 1 # 0 /\ (n + 1) - 1 = n
    OBVIOUS
  <2> QED BY <1>5, <2>1
<1> QED BY <1>6, <1>7

(* Powers are positive. *)
LEMMA PowType == \A n \in Nat : Pow[n] \in Nat \ {0}
<1> DEFINE Bad == {n \in Nat : Pow[n] \notin Nat \ {0}}
<1> SUFFICES ASSUME Bad # {} PROVE FALSE
  OBVIOUS
<1>1. PICK n \in Bad : \A k \in Bad : n <= k
  <2>1. Bad \in SUBSET Nat
    OBVIOUS
  <2> HIDE DEF Bad
  <2> QED BY <2>1, LeastNat
<1>2. n \in Nat /\ Pow[n] \notin Nat \ {0}
  OBVIOUS
<1>3. n # 0
  BY <1>2, PowStep
<1>4. n - 1 \in Nat /\ n - 1 \notin Bad /\ (n - 1) + 1 = n
  BY <1>1, <1>2, <1>3
<1>5. Pow[n - 1] \in Nat \ {0}
  BY <1>4
<1> HIDE DEF Bad
<1>6. Pow[(n - 1) + 1] = Base * Pow[n - 1]
  BY <1>4, PowStep
<1>7. Pow[n] = Base * Pow[n - 1]
  BY <1>4, <1>6, Zenon
<1> DEFINE y == Pow[n - 1]
<1>8. y \in Nat \ {0} /\ Base \in Nat \ {0}
  BY <1>5, IntakeAssumption
<1> HIDE DEF y
<1>9. Base * y \in Nat \ {0}
  BY <1>8, Z3
<1> QED BY <1>2, <1>7, <1>9 DEF y

(* Shifting by a places and then by b places. *)
LEMMA PowSum == \A a, b \in Nat : Pow[a + b] = Pow[a] * Pow[b]
<1> SUFFICES ASSUME NEW a \in Nat PROVE \A b \in Nat : Pow[a + b] = Pow[a] * Pow[b]
  OBVIOUS
<1> DEFINE Bad == {n \in Nat : Pow[a + n] # Pow[a] * Pow[n]}
<1> SUFFICES ASSUME Bad # {} PROVE FALSE
  OBVIOUS
<1>1. PICK n \in Bad : \A k \in Bad : n <= k
  <2>1. Bad \in SUBSET Nat
    OBVIOUS
  <2> HIDE DEF Bad
  <2> QED BY <2>1, LeastNat
<1>2. n \in Nat /\ Pow[a + n] # Pow[a] * Pow[n]
  OBVIOUS
<1>3. n # 0
  <2> SUFFICES ASSUME n = 0 PROVE FALSE
    OBVIOUS
  <2>1. a + 0 = a /\ Pow[0] = 1 /\ Pow[a] \in Nat
    BY PowStep, PowType
  <2>2. Pow[a] * 1 = Pow[a]
    BY <2>1
  <2> QED BY <1>2, <2>1, <2>2
<1> DEFINE m == n - 1
<1>4. m \in Nat /\ m \notin Bad /\ m + 1 = n /\ a + m \in Nat /\ (a + m) + 1 = a + n
  BY <1>1, <1>2, <1>3
<1>5. Pow[a + m] = Pow[a] * Pow[m]
  BY <1>4
<1> HIDE DEF Bad, m
<1>6. Pow[a + n] = Base * Pow[a + m] /\ Pow[n] = Base * Pow[m]
  <2>1. Pow[(a + m) + 1] = Base * Pow[a + m] /\ Pow[m + 1] = Base * Pow[m]
    BY <1>4, PowStep
  <2> QED BY <1>4, <2>1, Zenon
<1> DEFINE x == Pow[a] y == Pow[m]
<1>7. x \in Nat /\ y \in Nat /\ Base \in Nat
  BY <1>4, PowType, IntakeAssumption
<1> HIDE DEF x, y
<1>8. Base * (x * y) = x * (Base * y)
  BY <1>7, Z3
<1> QED BY <1>2, <1>5, <1>6, <1>8 DEF x, y

(* Whole units of size d, and the rest. *)
LEMMA WholeUnits ==
    ASSUME NEW f \in Nat, NEW d \in Nat \ {0}
    PROVE  f \div d \in Nat /\ (f \div d) * d <= f /\ f < (f \div d + 1) * d
BY Z3

(* What is cut off in parse_decimal_to_fixed is less than one unit. *)
LEMMA ParseFloors ==
    ASSUME NEW x \in [digits : BOOLEAN, int : Nat, frac : Nat, places : Nat], NEW d \in Nat,
           NEW n, n = parse_decimal_to_fixed(x, d), n # Error
    PROVE  Floors(x, n, d) /\ n \in 0 .. Word - 1
<1> DEFINE i == x.int f == x.frac p == Pow[x.places] t == Pow[d] exact == (i * p + f) * t
           value == i * t + (IF x.places <= d THEN f * Pow[d - x.places] ELSE f \div Pow[x.places - d])
<1>1. n = FitsWord(value)
  BY DEF parse_decimal_to_fixed
<1>2. n = value /\ n < Word
  <2> HIDE DEF value
  <2> QED BY <1>1 DEF FitsWord
<1>0. n < Word /\ Word \in Nat
  BY <1>2, IntakeAssumption
<1>3. i \in Nat /\ f \in Nat /\ x.places \in Nat /\ p \in Nat \ {0} /\ t \in Nat \ {0}
  BY PowType
<1>4. CASE x.places <= d
  <2> DEFINE r == Pow[d - x.places]
  <2>1. d - x.places \in Nat /\ d = x.places + (d - x.places)
    BY <1>3, <1>4
  <2>2. r \in Nat /\ t = p * r
    BY <1>3, <2>1, PowSum, PowType
  <2>3. n = i * t + f * r
    BY <1>2, <1>4
  <2> HIDE DEF i, f, p, t, r
  <2>4. n \in Nat
    BY <1>3, <2>2, <2>3
  <2>5. (i * t + f * r) * p = i * t * p + f * r * p /\ (i * p + f) * t = i * p * t + f * t
    BY <1>3, <2>2, Z3
  <2>6. i * t * p = i * p * t /\ f * r * p = f * (p * r)
    BY <1>3, <2>2, Z3
  <2>7. n * p = (i * p + f) * t
    BY <2>2, <2>3, <2>5, <2>6
  <2>8. n * p \in Nat /\ (n + 1) * p = n * p + p
    BY <1>3, <2>4, Z3
  <2>9. n * p <= (i * p + f) * t /\ (i * p + f) * t < (n + 1) * p
    BY <1>3, <2>7, <2>8
  <2>10. Floors(x, n, d)
    BY <2>9 DEF Floors, i, f, p, t
  <2> QED BY <1>0, <2>4, <2>10
<1>5. CASE x.places > d
  <2> DEFINE r == Pow[x.places - d] q == f \div r
  <2>1. x.places - d \in Nat /\ x.places = d + (x.places - d) /\ ~(x.places <= d)
    BY <1>3, <1>5
  <2>2. r \in Nat \ {0} /\ p = t * r
    BY <1>3, <2>1, PowSum, PowType
  <2>3. n = i * t + q
    BY <1>2, <2>1
  <2>4. q \in Nat /\ q * r <= f /\ f < (q + 1) * r
    <3> HIDE DEF f, r
    <3> QED BY <1>3, <2>2, WholeUnits
  <2> HIDE DEF i, f, p, t, r, q
  <2>5. n \in Nat /\ q * r \in Nat
    BY <1>3, <2>2, <2>3, <2>4
  <2>6. /\ n * p = i * t * p + q * (t * r)
        /\ (n + 1) * p = i * t * p + (q + 1) * (t * r)
        /\ (i * p + f) * t = i * t * p + f * t
    <3>1. (i * t + q) * p = i * t * p + q * p /\ (i * t + q + 1) * p = i * t * p + (q + 1) * p
      BY <1>3, <2>4, Z3
    <3>2. (i * p + f) * t = i * t * p + f * t
      BY <1>3, Z3
    <3> QED BY <2>2, <2>3, <3>1, <3>2
  <2>7. q * (t * r) <= f * t /\ f * t < (q + 1) * (t * r)
    <3>1. (q * r) * t <= f * t /\ f * t < ((q + 1) * r) * t
      BY <1>3, <2>2, <2>4, <2>5, Z3
    <3>2. (q * r) * t = q * (t * r) /\ ((q + 1) * r) * t = (q + 1) * (t * r)
      BY <1>3, <2>2, <2>4, Z3
    <3> QED BY <3>1, <3>2
  <2>8. n * p <= (i * p + f) * t /\ (i * p + f) * t < (n + 1) * p
    <3> DEFINE u == i * t * p v == q * (t * r) w == (q + 1) * (t * r) z == f * t
    <3>1. u \in Nat /\ v \in Nat /\ w \in Nat /\ z \in Nat
      BY <1>3, <2>2, <2>4, Z3
    <3> HIDE DEF u, v, w, z
    <3>2. u + v <= u + z /\ u + z < u + w
      BY <2>7, <3>1 DEF v, w, z
    <3> QED BY <2>6, <3>2 DEF u, v, w, z
  <2>9. Floors(x, n, d)
    BY <2>8 DEF Floors, i, f, p, t
  <2> QED BY <1>0, <2>5, <2>9
<1> QED BY <1>3, <1>4, <1>5

-----------------------------------------------------------------------------
(* Outflows.                                                               *)

(* Splitting a product before the division loses, if anything. *)
LEMMA SplitValue ==
    ASSUME NEW a \in Nat, NEW b \in Nat, NEW d \in Nat \ {0}
    PROVE  a \div d + b \div d <= (a + b) \div d
<1> DEFINE x == a \div d y == b \div d c == a + b z == c \div d
<1>1. x \in Nat /\ x * d <= a
  BY WholeUnits
<1>2. y \in Nat /\ y * d <= b
  BY WholeUnits
<1>3. c \in Nat /\ z \in Nat /\ c < (z + 1) * d
  <2>1. c \in Nat
    OBVIOUS
  <2> HIDE DEF c
  <2> QED BY <2>1, WholeUnits
<1> SUFFICES ASSUME x + y > z PROVE FALSE
  <2> HIDE DEF x, y, z
  <2>1. x + y <= z
    BY <1>1, <1>2, <1>3
  <2> QED BY <2>1 DEF x, y, z
<1> HIDE DEF x, y, z
<1>4. x + y >= z + 1
  BY <1>1, <1>2, <1>3
<1>5. (x + y) * d >= (z + 1) * d /\ (x + y) * d = x * d + y * d /\ x * d \in Nat /\ y * d \in Nat /\ (z + 1) * d \in Nat
  BY <1>1, <1>2, <1>3, <1>4, Z3
<1> QED BY <1>1, <1>2, <1>3, <1>5

(* A pair's divisor is a power of the base. *)
LEMMA DivisorType ==
    ASSUME NEW spec \in OrderSpecs
    PROVE  /\ Divisor(spec.pair) \in Nat \ {0}
           /\ OutflowToken(spec) \in Token /\ InflowToken(spec) \in Token
           /\ Decimals[spec.pair[1]] \in Nat
<1>1. spec.pair \in Market \cup {Unlisted}
  BY DEF OrderSpecs
<1>2. spec.pair \in Token \X Token /\ Decimals[spec.pair[2]] <= Decimals[spec.pair[1]] + PriceDec
  BY <1>1, IntakeAssumption
<1>3. spec.pair[1] \in Token /\ spec.pair[2] \in Token
  BY <1>2
<1>4. Decimals[spec.pair[1]] \in Nat /\ Decimals[spec.pair[2]] \in Nat /\ PriceDec \in Nat
  BY <1>3, IntakeAssumption
<1>5. Decimals[spec.pair[1]] + PriceDec - Decimals[spec.pair[2]] \in Nat
  BY <1>2, <1>4
<1> QED BY <1>3, <1>4, <1>5, PowType DEF Divisor, OutflowToken, InflowToken

(* The fills of an order reserve no more than the whole order (compute_outflow
   rounds down). *)
LEMMA OutflowSplit ==
    ASSUME NEW spec \in OrderSpecs, NEW l \in Nat, NEW q \in 0 .. l, NEW p \in Nat
    PROVE  /\ Outflow(spec, q, p) \in Nat /\ Outflow(spec, l - q, p) \in Nat /\ Outflow(spec, l, p) \in Nat
           /\ Outflow(spec, q, p) + Outflow(spec, l - q, p) <= Outflow(spec, l, p)
           /\ Inflow(spec, q, p) \in Nat
<1> DEFINE d == Divisor(spec.pair) a == q * p b == (l - q) * p
<1>1. d \in Nat \ {0}
  BY DivisorType
<1>2. q \in Nat /\ l - q \in Nat /\ a \in Nat /\ b \in Nat /\ l * p = a + b
  <2>1. q \in Nat /\ l - q \in Nat
    OBVIOUS
  <2>2. q * p \in Nat /\ (l - q) * p \in Nat /\ l * p = q * p + (l - q) * p
    BY <2>1, Z3
  <2> QED BY <2>1, <2>2
<1> HIDE DEF d, a, b
<1>3. a \div d \in Nat /\ b \div d \in Nat /\ (a + b) \div d \in Nat /\ a \div d + b \div d <= (a + b) \div d
  <2>1. a + b \in Nat
    BY <1>2
  <2> QED BY <1>1, <1>2, <2>1, WholeUnits, SplitValue
<1>4. /\ Value(spec.pair, q, p) = a \div d /\ Value(spec.pair, l - q, p) = b \div d
      /\ Value(spec.pair, l, p) = (a + b) \div d
  BY <1>2 DEF Value, a, b, d
<1> DEFINE u == a \div d v == b \div d w == (a + b) \div d
<1>5. u \in Nat /\ v \in Nat /\ w \in Nat /\ u + v <= w
  BY <1>3
<1>6. /\ Value(spec.pair, q, p) = u /\ Value(spec.pair, l - q, p) = v /\ Value(spec.pair, l, p) = w
  BY <1>4
<1> HIDE DEF u, v, w
<1>7. CASE spec.side = "buy"
  BY <1>2, <1>5, <1>6, <1>7 DEF Outflow, Inflow
<1>8. CASE spec.side # "buy"
  BY <1>2, <1>5, <1>6, <1>8 DEF Outflow, Inflow
<1> QED BY <1>7, <1>8

-----------------------------------------------------------------------------
(* What the fills of a bag reserve.                                        *)

FillBag(b) == IsABag(b) /\ DOMAIN b \subseteq Fills /\ IsFiniteSet(DOMAIN b)

OnToken(b, t) == {f \in DOMAIN b : f.out_token = t}

ReservedIn(b, t) == MapThenSumSet(LAMBDA f : f.out * b[f], OnToken(b, t))

(* All the copies of a fill together. *)
Weights(b) == [f \in Fills |-> IF f \in DOMAIN b THEN f.out * b[f] ELSE 0]

(* A fill's amount, and how often it is in the bag. *)
LEMMA WeightsType ==
    ASSUME NEW b, FillBag(b)
    PROVE  /\ Weights(b) \in [Fills -> Nat] /\ \A f \in DOMAIN b : b[f] \in Nat \ {0}
           /\ \A f \in Fills : f.out \in Nat /\ f.in \in Nat /\ f.out_token \in Token /\ f.in_token \in Token
<1>1. \A f \in DOMAIN b : b[f] \in Nat \ {0}
  BY DEF FillBag, IsABag
<1>2. \A f \in Fills : f.out \in Nat /\ f.in \in Nat /\ f.out_token \in Token /\ f.in_token \in Token
  BY DEF Fills
<1>3. ASSUME NEW f \in Fills PROVE (IF f \in DOMAIN b THEN f.out * b[f] ELSE 0) \in Nat
  <2>1. CASE f \in DOMAIN b
    <3> DEFINE x == f.out y == b[f]
    <3>1. x \in Nat /\ y \in Nat
      BY <1>1, <1>2, <2>1
    <3> HIDE DEF x, y
    <3>2. x * y \in Nat
      BY <3>1, Z3
    <3> QED BY <2>1, <3>2 DEF x, y
  <2> QED BY <2>1
<1> QED BY <1>1, <1>2, <1>3 DEF Weights

(* The fold adds up the weights. *)
LEMMA ReservedIsSum ==
    ASSUME NEW b, FillBag(b), NEW t
    PROVE  /\ ReservedIn(b, t) = SumOver(Weights(b), OnToken(b, t))
           /\ OnToken(b, t) \in SUBSET Fills /\ IsFiniteSet(OnToken(b, t))
<1> DEFINE S == OnToken(b, t)
           I(f) == f = [s \in SUBSET S |->
                         IF s = {} THEN 0
                         ELSE FirstOf(s).out * b[FirstOf(s)] + f[s \ {FirstOf(s)}]]
           F == CHOOSE f : I(f)
<1>1. IsFiniteSet(S) /\ S \in SUBSET Fills /\ S \in SUBSET DOMAIN b
  BY FS_Subset DEF FillBag, OnToken
<1>2. ReservedIn(b, t) = F[S]
  BY DEF ReservedIn, MapThenSumSet, MapThenFoldSet, FirstOf
<1> HIDE DEF S
<1>3. \A s \in SUBSET S : s # {} => Weights(b)[FirstOf(s)] = FirstOf(s).out * b[FirstOf(s)]
  BY <1>1 DEF Weights, FirstOf
<1>4. \A f : I(f) <=> IsSum(f, Weights(b), S)
  BY <1>3 DEF IsSum
<1>5. \E f : I(f)
  BY <1>1, <1>4, SumExists
<1>6. IsSum(F, Weights(b), S)
  BY <1>4, <1>5
<1> HIDE DEF F
<1>7. F[S] = SumOver(Weights(b), S)
  BY <1>1, <1>6, SumIs
<1> QED BY <1>1, <1>2, <1>7 DEF S

(* What all the fills but one reserve. *)
Others(b, t, f) == SumOver(Weights(b), OnToken(b, t) \ {f})

(* The fills but for one, and that one. *)
LEMMA ReservedSplit ==
    ASSUME NEW b, FillBag(b), NEW t, NEW f \in Fills
    PROVE  /\ Others(b, t, f) \in Nat
           /\ ReservedIn(b, t) = Others(b, t, f) + (IF f.out_token = t THEN Weights(b)[f] ELSE 0)
<1> DEFINE S == OnToken(b, t) w == Weights(b) R == S \ {f}
<1>1. S \in SUBSET Fills /\ IsFiniteSet(S) /\ ReservedIn(b, t) = SumOver(w, S) /\ w \in [Fills -> Nat]
  BY ReservedIsSum, WeightsType
<1>2. f \in S <=> (f \in DOMAIN b /\ f.out_token = t)
  BY DEF OnToken
<1>3. f \notin DOMAIN b => w[f] = 0
  BY DEF Weights
<1> HIDE DEF S, w
<1>4. R \in SUBSET Fills /\ IsFiniteSet(R) /\ Others(b, t, f) = SumOver(w, R)
  BY <1>1, FS_Subset DEF Others, S, w
<1>5. SumOver(w, R) \in Nat
  <2> HIDE DEF R
  <2> QED BY <1>1, <1>4, SumNat
<1>6. CASE f \in S
  <2>1. SumOver(w, S) = w[f] + SumOver(w, R)
    BY <1>1, <1>6, SumRemove
  <2>2. w[f] \in Nat
    BY <1>1
  <2> HIDE DEF R
  <2>3. SumOver(w, S) = SumOver(w, R) + w[f]
    BY <1>5, <2>1, <2>2
  <2> QED BY <1>1, <1>2, <1>4, <1>5, <1>6, <2>3 DEF w
<1>7. CASE f \notin S
  <2>1. R = S
    BY <1>7
  <2>2. (IF f.out_token = t THEN w[f] ELSE 0) = 0
    BY <1>2, <1>3, <1>7
  <2>3. SumOver(w, S) = SumOver(w, R) + 0
    BY <1>5, <2>1
  <2> QED BY <1>1, <1>4, <1>5, <2>2, <2>3 DEF w
<1> QED BY <1>6, <1>7

(* Two bags that differ in the copies of one fill. *)
LEMMA ReservedDiffers ==
    ASSUME NEW b, FillBag(b), NEW c, FillBag(c), NEW f \in Fills, NEW t,
           DOMAIN b \ {f} = DOMAIN c \ {f}, \A g \in DOMAIN b \ {f} : c[g] = b[g]
    PROVE  \E rest \in Nat :
              /\ ReservedIn(b, t) = rest + (IF f.out_token = t THEN Weights(b)[f] ELSE 0)
              /\ ReservedIn(c, t) = rest + (IF f.out_token = t THEN Weights(c)[f] ELSE 0)
<1> DEFINE R == OnToken(b, t) \ {f}
<1>1. OnToken(c, t) \ {f} = R
  BY DEF OnToken
<1>2. \A g \in R : Weights(b)[g] = Weights(c)[g]
  <2>1. \A g \in R : g \in DOMAIN b \ {f} /\ g \in DOMAIN c /\ g \in Fills
    BY DEF OnToken, FillBag
  <2> HIDE DEF R
  <2> QED BY <2>1 DEF Weights
<1>3. IsFiniteSet(R)
  BY ReservedIsSum, FS_Subset
<1>4. SumOver(Weights(b), R) = SumOver(Weights(c), R)
  <2> HIDE DEF R
  <2> QED BY <1>2, <1>3, SumCongruence
<1>5. Others(b, t, f) = Others(c, t, f)
  BY <1>1, <1>4 DEF Others
<1>6. Others(b, t, f) \in Nat
  BY ReservedSplit
<1>7. ReservedIn(b, t) = Others(b, t, f) + (IF f.out_token = t THEN Weights(b)[f] ELSE 0)
  BY ReservedSplit
<1>8. ReservedIn(c, t) = Others(b, t, f) + (IF f.out_token = t THEN Weights(c)[f] ELSE 0)
  BY <1>5, ReservedSplit
<1> QED BY <1>6, <1>7, <1>8

(* One more fill is pending. *)
LEMMA ReservedMore ==
    ASSUME NEW b, FillBag(b), NEW f \in Fills, NEW t
    PROVE  /\ FillBag(b (+) SetToBag({f}))
           /\ ReservedIn(b, t) \in Nat
           /\ ReservedIn(b (+) SetToBag({f}), t) = ReservedIn(b, t) + (IF f.out_token = t THEN f.out ELSE 0)
<1> DEFINE c == b (+) SetToBag({f})
<1>1. /\ DOMAIN c = DOMAIN b \cup {f}
      /\ \A g \in DOMAIN c : c[g] = (IF g \in DOMAIN b THEN b[g] ELSE 0) + (IF g = f THEN 1 ELSE 0)
      /\ c \in [DOMAIN c -> {c[g] : g \in DOMAIN c}]
  BY DEF (+), SetToBag
<1> HIDE DEF c
<1>2. /\ Weights(b) \in [Fills -> Nat] /\ \A g \in DOMAIN b : b[g] \in Nat \ {0}
      /\ f.out \in Nat
  BY WeightsType
<1>3. \A g \in DOMAIN c : c[g] \in {n \in Nat : n > 0}
  BY <1>1, <1>2
<1>4. FillBag(c)
  <2>1. IsFiniteSet(DOMAIN c)
    BY <1>1, FS_AddElement DEF FillBag
  <2>2. IsABag(c)
    BY <1>1, <1>3 DEF IsABag
  <2> QED BY <1>1, <2>1, <2>2 DEF FillBag
<1>5. /\ DOMAIN b \ {f} = DOMAIN c \ {f}
      /\ \A g \in DOMAIN b \ {f} : c[g] = b[g]
  BY <1>1, <1>2
<1>6. Weights(c)[f] = Weights(b)[f] + f.out
  <2> DEFINE x == f.out y == IF f \in DOMAIN b THEN b[f] ELSE 0
  <2>1. c[f] = y + 1 /\ f \in DOMAIN c
    BY <1>1
  <2>2. x \in Nat /\ y \in Nat
    BY <1>2
  <2>3. Weights(c)[f] = x * (y + 1)
    BY <2>1 DEF Weights
  <2>4. Weights(b)[f] = x * y
    BY <2>2 DEF Weights
  <2> HIDE DEF x, y
  <2>5. x * (y + 1) = x * y + x
    BY <2>2, Z3
  <2> QED BY <2>3, <2>4, <2>5 DEF x
<1>7. PICK rest \in Nat :
              /\ ReservedIn(b, t) = rest + (IF f.out_token = t THEN Weights(b)[f] ELSE 0)
              /\ ReservedIn(c, t) = rest + (IF f.out_token = t THEN Weights(c)[f] ELSE 0)
  BY <1>4, <1>5, ReservedDiffers
<1> DEFINE u == Weights(b)[f] v == Weights(c)[f]
<1>8. u \in Nat /\ v = u + f.out
  BY <1>2, <1>6
<1> HIDE DEF u, v
<1>9. ReservedIn(b, t) \in Nat /\ ReservedIn(c, t) = ReservedIn(b, t) + (IF f.out_token = t THEN f.out ELSE 0)
  BY <1>2, <1>7, <1>8 DEF u, v
<1> QED BY <1>4, <1>9 DEF c

(* A fill is settled or given up. *)
LEMMA ReservedLess ==
    ASSUME NEW b, FillBag(b), NEW f \in DOMAIN b, NEW t
    PROVE  /\ FillBag(b (-) SetToBag({f}))
           /\ ReservedIn(b (-) SetToBag({f}), t) \in Nat
           /\ ReservedIn(b (-) SetToBag({f}), t) <= ReservedIn(b, t)
<1> DEFINE c == b (-) SetToBag({f})
           less(g) == IF g = f THEN b[g] - 1 ELSE b[g]
<1>0. f \in Fills
  BY DEF FillBag
<1>1. /\ DOMAIN c = {g \in DOMAIN b : less(g) > 0}
      /\ \A g \in DOMAIN c : c[g] = less(g)
      /\ c \in [DOMAIN c -> {c[g] : g \in DOMAIN c}]
  BY DEF (-), SetToBag
<1> HIDE DEF c
<1>2. /\ Weights(b) \in [Fills -> Nat] /\ \A g \in DOMAIN b : b[g] \in Nat \ {0}
      /\ f.out \in Nat
  BY <1>0, WeightsType
<1>3. \A g \in DOMAIN c : c[g] \in {n \in Nat : n > 0}
  BY <1>1, <1>2
<1>4. FillBag(c)
  <2>1. IsFiniteSet(DOMAIN c)
    <3>1. DOMAIN c \in SUBSET DOMAIN b
      BY <1>1
    <3> QED BY <3>1, FS_Subset DEF FillBag
  <2>2. IsABag(c)
    BY <1>1, <1>3 DEF IsABag
  <2> QED BY <1>1, <2>1, <2>2 DEF FillBag
<1>5. /\ DOMAIN b \ {f} = DOMAIN c \ {f}
      /\ \A g \in DOMAIN b \ {f} : c[g] = b[g]
  BY <1>1, <1>2
<1> DEFINE u == Weights(b)[f] v == Weights(c)[f]
<1>6. u \in Nat /\ v \in Nat /\ v <= u
  <2> DEFINE x == f.out y == b[f] z == IF f \in DOMAIN c THEN c[f] ELSE 0
  <2>1. x \in Nat /\ y \in Nat /\ z \in Nat /\ z <= y
    BY <1>1, <1>2
  <2>2. u = x * y
    BY <1>0 DEF Weights
  <2>3. v = x * z
    BY <1>0, <2>1 DEF Weights
  <2> HIDE DEF x, y, z
  <2>4. x * z \in Nat /\ x * y \in Nat /\ x * z <= x * y
    BY <2>1, Z3
  <2> QED BY <2>2, <2>3, <2>4
<1>7. PICK rest \in Nat :
              /\ ReservedIn(b, t) = rest + (IF f.out_token = t THEN Weights(b)[f] ELSE 0)
              /\ ReservedIn(c, t) = rest + (IF f.out_token = t THEN Weights(c)[f] ELSE 0)
  BY <1>0, <1>4, <1>5, ReservedDiffers
<1> HIDE DEF u, v
<1>8. ReservedIn(c, t) \in Nat /\ ReservedIn(c, t) <= ReservedIn(b, t)
  BY <1>6, <1>7 DEF u, v
<1> QED BY <1>4, <1>8 DEF c

-----------------------------------------------------------------------------
(* What the orders of a batch may still cost.                              *)

NeedOf(o) == Outflow(o.spec, o.left, o.price)

NeedFn(s) == [i \in 1 .. Len(s) |-> NeedOf(s[i])]

Own(s, t) == {i \in 1 .. Len(s) : OutflowToken(s[i].spec) = t}

Needs(s, t) == SumOver(NeedFn(s), Own(s, t))

(* An order's cost is a natural number, and so is what all the orders cost. *)
LEMMA NeedOfType ==
    ASSUME NEW o \in Orders
    PROVE  /\ NeedOf(o) \in Nat /\ o.spec \in OrderSpecs /\ OutflowToken(o.spec) \in Token
           /\ o.price \in Nat /\ o.left \in Nat /\ o.quantity \in Nat
<1>1. o.spec \in OrderSpecs /\ o.price \in Nat /\ o.left \in Nat /\ o.quantity \in Nat
  BY DEF Orders
<1>2. 0 \in 0 .. o.left
  BY <1>1
<1>3. Outflow(o.spec, o.left, o.price) \in Nat
  BY <1>1, <1>2, OutflowSplit
<1> QED BY <1>1, <1>3, DivisorType DEF NeedOf

(* The costs are amounts to add up. *)
LEMMA NeedsType ==
    ASSUME NEW s \in Seq(Orders), NEW t
    PROVE  /\ NeedFn(s) \in [1 .. Len(s) -> Nat]
           /\ Own(s, t) \in SUBSET (1 .. Len(s)) /\ IsFiniteSet(Own(s, t)) /\ Needs(s, t) \in Nat
<1>1. Len(s) \in Nat /\ \A i \in 1 .. Len(s) : s[i] \in Orders
  BY ElementOfSeq, LenProperties
<1>2. NeedFn(s) \in [1 .. Len(s) -> Nat]
  BY <1>1, NeedOfType DEF NeedFn
<1>3. Own(s, t) \in SUBSET (1 .. Len(s))
  BY DEF Own
<1>4. IsFiniteSet(Own(s, t))
  <2>1. IsFiniteSet(1 .. Len(s))
    BY <1>1, FS_Interval
  <2> QED BY <1>3, <2>1, FS_Subset
<1>5. SumOver(NeedFn(s), Own(s, t)) \in Nat
  <2> DEFINE D == 1 .. Len(s) a == NeedFn(s) S == Own(s, t)
  <2> HIDE DEF D, a, S
  <2>1. a \in [D -> Nat] /\ S \in SUBSET D /\ IsFiniteSet(S)
    BY <1>2, <1>3, <1>4 DEF D, a, S
  <2>2. SumOver(a, S) \in Nat
    BY <2>1, SumNat
  <2> QED BY <2>2 DEF a, S
<1> QED BY <1>2, <1>3, <1>4, <1>5 DEF Needs

(* No order, no cost. *)
LEMMA NeedsEmpty ==
    ASSUME NEW t PROVE Needs(<<>>, t) = 0
<1>1. Own(<<>>, t) = {}
  BY DEF Own
<1>2. IsFiniteSet({})
  BY FS_EmptySet
<1>3. SumOver(NeedFn(<<>>), {}) = 0
  BY <1>2, SumStep
<1> QED BY <1>1, <1>3 DEF Needs

(* What all the orders but one may still cost. *)
OtherNeeds(s, t, i) == SumOver(NeedFn(s), Own(s, t) \ {i})

(* The orders but for the one at a place, and that one. *)
LEMMA NeedsSplit ==
    ASSUME NEW s \in Seq(Orders), NEW t, NEW i \in 1 .. Len(s)
    PROVE  /\ OtherNeeds(s, t, i) \in Nat
           /\ Needs(s, t) = OtherNeeds(s, t, i) + (IF OutflowToken(s[i].spec) = t THEN NeedOf(s[i]) ELSE 0)
<1> DEFINE D == 1 .. Len(s) a == NeedFn(s) S == Own(s, t) R == S \ {i}
<1>1. a \in [D -> Nat] /\ S \in SUBSET D /\ IsFiniteSet(S)
  BY NeedsType
<1>2. i \in D /\ (i \in S <=> OutflowToken(s[i].spec) = t) /\ a[i] = NeedOf(s[i])
  BY DEF Own, NeedFn
<1> HIDE DEF D, a, S
<1>3. R \in SUBSET D /\ IsFiniteSet(R)
  BY <1>1, FS_Subset
<1>4. SumOver(a, R) \in Nat
  <2> HIDE DEF R
  <2> QED BY <1>1, <1>3, SumNat
<1>5. a[i] \in Nat
  BY <1>1, <1>2
<1>6. CASE i \in S
  <2>1. \A x \in S : SumOver(a, S) = a[x] + SumOver(a, S \ {x})
    BY <1>1, SumRemove
  <2>2. SumOver(a, S) = a[i] + SumOver(a, R)
    BY <1>6, <2>1, Zenon
  <2> HIDE DEF R
  <2>3. SumOver(a, S) = SumOver(a, R) + a[i]
    BY <1>4, <1>5, <2>2
  <2>4. SumOver(a, S) = SumOver(a, R) + (IF OutflowToken(s[i].spec) = t THEN NeedOf(s[i]) ELSE 0)
    BY <1>2, <1>6, <2>3, Zenon
  <2> QED BY <1>4, <2>4 DEF Needs, OtherNeeds, a, S, R
<1>7. CASE i \notin S
  <2>1. R = S
    BY <1>7
  <2>2. (IF OutflowToken(s[i].spec) = t THEN NeedOf(s[i]) ELSE 0) = 0
    BY <1>2, <1>7
  <2> HIDE DEF R
  <2>3. SumOver(a, S) = SumOver(a, R) + 0
    BY <1>4, <2>1
  <2> QED BY <1>4, <2>2, <2>3 DEF Needs, OtherNeeds, a, S, R
<1> QED BY <1>6, <1>7

(* One more order is accepted. *)
LEMMA NeedsAppend ==
    ASSUME NEW s \in Seq(Orders), NEW o \in Orders, NEW t
    PROVE  Needs(Append(s, o), t) = Needs(s, t) + (IF OutflowToken(o.spec) = t THEN NeedOf(o) ELSE 0)
<1> DEFINE r == Append(s, o) i == Len(s) + 1
<1>1. /\ r \in Seq(Orders) /\ Len(r) = Len(s) + 1 /\ Len(s) \in Nat
      /\ \A j \in 1 .. Len(s) : r[j] = s[j]
      /\ r[i] = o
  BY AppendProperties, LenProperties
<1> HIDE DEF r
<1>2. i \in 1 .. Len(r)
  BY <1>1
<1>3. Own(r, t) \ {i} = Own(s, t)
  BY <1>1 DEF Own
<1>4. \A j \in Own(s, t) : NeedFn(r)[j] = NeedFn(s)[j]
  BY <1>1 DEF Own, NeedFn
<1>5. SumOver(NeedFn(r), Own(s, t)) = SumOver(NeedFn(s), Own(s, t))
  <2>1. IsFiniteSet(Own(s, t))
    BY NeedsType
  <2> QED BY <1>4, <2>1, SumCongruence
<1> HIDE DEF i
<1>6. Needs(r, t) = OtherNeeds(r, t, i) + (IF OutflowToken(r[i].spec) = t THEN NeedOf(r[i]) ELSE 0)
  BY <1>1, <1>2, NeedsSplit
<1>7. Needs(r, t) = Needs(s, t) + (IF OutflowToken(o.spec) = t THEN NeedOf(o) ELSE 0)
  BY <1>1, <1>3, <1>5, <1>6, Zenon DEF Needs, OtherNeeds
<1> QED BY <1>7 DEF r

(* A fill takes its cost, or more, from what its order may still cost. *)
LEMMA NeedsFill ==
    ASSUME NEW s \in Seq(Orders), NEW i \in 1 .. Len(s), NEW q \in 0 .. s[i].left, NEW t,
           NEW r, r = [s EXCEPT ![i].left = @ - q]
    PROVE  /\ r \in Seq(Orders) /\ Len(r) = Len(s)
           /\ r[i] \in Orders /\ NeedOf(r[i]) \in Nat /\ NeedOf(s[i]) \in Nat
           /\ Outflow(s[i].spec, q, s[i].price) \in Nat
           /\ NeedOf(r[i]) + Outflow(s[i].spec, q, s[i].price) <= NeedOf(s[i])
           /\ r[i].spec = s[i].spec /\ r[i].price = s[i].price /\ r[i].quantity = s[i].quantity
           /\ \A j \in 1 .. Len(s) : j # i => r[j] = s[j]
           /\ Needs(r, t) + (IF OutflowToken(s[i].spec) = t THEN Outflow(s[i].spec, q, s[i].price) ELSE 0)
              <= Needs(s, t)
<1> DEFINE o == s[i] n == [o EXCEPT !.left = @ - q]
<1>1. Len(s) \in Nat /\ s \in [1 .. Len(s) -> Orders] /\ o \in Orders
  BY ElementOfSeq, LenProperties
<1>2. r = [s EXCEPT ![i] = n]
  OBVIOUS
<1>3. o.left \in 0 .. Word - 1 /\ o.left - q \in 0 .. Word - 1 /\ Word \in Nat
  <2> DEFINE l == o.left
  <2>1. l \in 0 .. Word - 1 /\ q \in 0 .. l
    BY <1>1 DEF Orders
  <2> HIDE DEF l
  <2>2. Word \in Nat
    BY IntakeAssumption
  <2>3. l - q \in 0 .. Word - 1
    BY <2>1, <2>2
  <2> QED BY <2>1, <2>2, <2>3 DEF l
<1>4. /\ n \in Orders /\ n.spec = o.spec /\ n.price = o.price /\ n.quantity = o.quantity
      /\ n.left = o.left - q
  BY <1>1, <1>3 DEF Orders
<1> HIDE DEF n
<1>5. /\ r \in [1 .. Len(s) -> Orders] /\ r[i] = n
      /\ \A j \in 1 .. Len(s) : j # i => r[j] = s[j]
  BY <1>1, <1>2, <1>4
<1>6. r \in Seq(Orders) /\ Len(r) = Len(s)
  BY <1>1, <1>5, IsASeq, LenProperties
<1> DEFINE cost == Outflow(o.spec, q, o.price)
<1>7. /\ NeedOf(n) \in Nat /\ NeedOf(o) \in Nat /\ cost \in Nat /\ NeedOf(n) + cost <= NeedOf(o)
  <2> DEFINE l == o.left p == o.price sp == o.spec
  <2>1. sp \in OrderSpecs /\ p \in Nat /\ l \in Nat /\ q \in 0 .. l
    BY <1>1, NeedOfType
  <2>2. NeedOf(n) = Outflow(sp, l - q, p) /\ NeedOf(o) = Outflow(sp, l, p)
    BY <1>4 DEF NeedOf
  <2> HIDE DEF l, p, sp
  <2>3. /\ Outflow(sp, q, p) \in Nat /\ Outflow(sp, l - q, p) \in Nat /\ Outflow(sp, l, p) \in Nat
        /\ Outflow(sp, q, p) + Outflow(sp, l - q, p) <= Outflow(sp, l, p)
    BY <2>1, OutflowSplit
  <2> DEFINE x == Outflow(sp, q, p) y == Outflow(sp, l - q, p) z == Outflow(sp, l, p)
  <2> HIDE DEF x, y, z
  <2>4. x \in Nat /\ y \in Nat /\ z \in Nat /\ y + x <= z
    BY <2>3 DEF x, y, z
  <2>5. NeedOf(n) = y /\ NeedOf(o) = z /\ cost = x
    BY <2>2 DEF x, y, z, sp, p
  <2> HIDE DEF cost
  <2> QED BY <2>4, <2>5
<1>8. Own(r, t) = Own(s, t)
  BY <1>4, <1>5, <1>6 DEF Own
<1>9. SumOver(NeedFn(r), Own(s, t) \ {i}) = SumOver(NeedFn(s), Own(s, t) \ {i})
  <2>1. \A j \in Own(s, t) \ {i} : NeedFn(r)[j] = NeedFn(s)[j]
    BY <1>5, <1>6 DEF Own, NeedFn
  <2>2. IsFiniteSet(Own(s, t) \ {i})
    BY NeedsType, FS_Subset
  <2> DEFINE S == Own(s, t) \ {i}
  <2> HIDE DEF S
  <2>3. SumOver(NeedFn(r), S) = SumOver(NeedFn(s), S)
    BY <2>1, <2>2, SumCongruence DEF S
  <2> QED BY <2>3 DEF S
<1>10. OtherNeeds(r, t, i) = OtherNeeds(s, t, i)
  BY <1>8, <1>9 DEF OtherNeeds
<1> DEFINE rest == OtherNeeds(s, t, i)
<1>11. rest \in Nat /\ Needs(s, t) = rest + (IF OutflowToken(o.spec) = t THEN NeedOf(o) ELSE 0)
  BY NeedsSplit
<1>12. Needs(r, t) = rest + (IF OutflowToken(o.spec) = t THEN NeedOf(n) ELSE 0)
  <2>1. i \in 1 .. Len(r)
    BY <1>6
  <2>2. Needs(r, t) = OtherNeeds(r, t, i) + (IF OutflowToken(r[i].spec) = t THEN NeedOf(r[i]) ELSE 0)
    BY <1>6, <2>1, NeedsSplit
  <2>3. r[i] = n /\ n.spec = o.spec
    BY <1>4, <1>5
  <2> HIDE DEF o
  <2> QED BY <1>10, <2>2, <2>3, Zenon
<1> HIDE DEF rest, cost
<1>13. Needs(r, t) + (IF OutflowToken(o.spec) = t THEN cost ELSE 0) <= Needs(s, t)
  <2> HIDE DEF o
  <2> QED BY <1>7, <1>11, <1>12
<1> QED BY <1>4, <1>5, <1>6, <1>7, <1>13 DEF cost

-----------------------------------------------------------------------------
(* The inductive invariant.                                                *)

(* What the pending fills reserve is there. *)
Backed == \A t \in Token : ReservedIn(pending, t) <= confirmed[t]

(* What each stage of a batch leaves behind. *)
StageInv ==
    /\ stage = "idle" => orders = <<>> /\ wrapped = FALSE
    /\ stage # "match" => refused = {} /\ others = [t \in Token |-> 0]
    /\ stage # "validate" => taken = 0 /\ cumulative_outflows = [t \in Token |-> 0]
    /\ stage = "validate" => Len(orders) <= taken

(* While the answer is looked at, the running sum is what the accepted orders cost,
   and what they are compared with is what is not reserved. *)
CheckedInv ==
    stage = "validate" /\ wrapped = FALSE =>
        \A t \in Token :
            /\ cumulative_outflows[t] = Needs(orders, t)
            /\ Needs(orders, t) <= projected_balances[t]
            /\ projected_balances[t] + ReservedIn(pending, t) = confirmed[t]

(* What the orders may still cost of a token is there beside what is reserved. *)
Covered(t) == t \notin refused /\ ReservedIn(pending, t) + Needs(orders, t) <= confirmed[t]

(* While the orders are matched, every token is covered of which no match of others
   took. *)
CoveredInv ==
    stage = "match" /\ wrapped = FALSE => \A t \in Token : others[t] = 0 => Covered(t)

(* No order of the batch costs a word or more, if nothing wrapped. *)
FittingInv == wrapped = FALSE => \A i \in 1 .. Len(orders) : NeedOf(orders[i]) < Word

(* An order holds no more than its text says, and less than a unit less. *)
AsWritten(o) ==
    /\ Floors(o.spec.price, o.price, PriceDec)
    /\ Floors(o.spec.quantity, o.quantity, Decimals[o.spec.pair[1]])

TextsInv == \A i \in 1 .. Len(orders) : AsWritten(orders[i])

IntakeInv ==
    /\ IntakeTypeOK /\ IsFiniteSet(DOMAIN pending)
    /\ Backed /\ StageInv /\ CheckedInv /\ CoveredInv /\ FittingInv /\ TextsInv

(* The tracker's reservations are the sum over its bag of fills. *)
LEMMA TypedFills ==
    ASSUME IntakeTypeOK, IsFiniteSet(DOMAIN pending)
    PROVE  /\ FillBag(pending)
           /\ \A t \in Token : /\ Reserved(t) = ReservedIn(pending, t) /\ Reserved(t) \in Nat
                               /\ confirmed[t] \in Nat
                               /\ projected(t) \in Nat
                               /\ Reserved(t) <= confirmed[t] => projected(t) + Reserved(t) = confirmed[t]
<1>1. FillBag(pending)
  BY DEF IntakeTypeOK, FillBag, BagToSet
<1>2. \A t : Reserved(t) = ReservedIn(pending, t)
  BY DEF Reserved, ReservedIn, OnToken, BagToSet
<1>3. ASSUME NEW t \in Token
      PROVE  ReservedIn(pending, t) \in Nat /\ confirmed[t] \in Nat
  <2> DEFINE S == OnToken(pending, t) a == Weights(pending)
  <2>1. ReservedIn(pending, t) = SumOver(a, S) /\ S \in SUBSET Fills /\ IsFiniteSet(S) /\ a \in [Fills -> Nat]
    BY <1>1, ReservedIsSum, WeightsType
  <2> HIDE DEF S, a
  <2>2. SumOver(a, S) \in Nat
    BY <2>1, SumNat
  <2> QED BY <2>1, <2>2 DEF IntakeTypeOK
<1>4. ASSUME NEW t \in Token
      PROVE  /\ Reserved(t) = ReservedIn(pending, t) /\ Reserved(t) \in Nat
             /\ confirmed[t] \in Nat
             /\ projected(t) \in Nat
             /\ Reserved(t) <= confirmed[t] => projected(t) + Reserved(t) = confirmed[t]
  <2> DEFINE x == Reserved(t) y == confirmed[t]
  <2>1. x \in Nat /\ y \in Nat /\ x = ReservedIn(pending, t)
    BY <1>2, <1>3
  <2>2. projected(t) = IF x <= y THEN y - x ELSE 0
    BY DEF projected
  <2> HIDE DEF x, y
  <2>3. projected(t) \in Nat /\ (x <= y => projected(t) + x = y)
    BY <2>1, <2>2
  <2> QED BY <2>1, <2>3 DEF x, y
<1> QED BY <1>1, <1>4

(* It starts empty. *)
LEMMA IntakeStarts == ASSUME IntakeInit PROVE IntakeInv
<1> USE DEF IntakeInit
<1>1. IntakeTypeOK
  <2>1. confirmed \in [Token -> Nat] /\ cumulative_outflows \in [Token -> 0 .. Word - 1]
    BY IntakeAssumption
  <2>2. orders \in Seq(Orders) /\ Len(orders) = 0
    OBVIOUS
  <2>3. IsABag(pending) /\ BagToSet(pending) \subseteq Fills
    BY DEF EmptyBag, SetToBag, IsABag, BagToSet
  <2>4. taken \in 0 .. CommitsPerBatch /\ batches \in 0 .. MaxBatches /\ Len(orders) <= CommitsPerBatch
    BY <2>2, IntakeAssumption
  <2>5. stage \in {"idle", "validate", "match"} /\ projected_balances \in [Token -> Nat]
    OBVIOUS
  <2>6. wrapped \in BOOLEAN
    BY Zenon
  <2>7. refused \subseteq Token /\ others \in [Token -> 0 .. MaxOthers]
    BY IntakeAssumption
  <2> HIDE DEF IntakeInit
  <2> QED BY <2>1, <2>2, <2>3, <2>4, <2>5, <2>6, <2>7 DEF IntakeTypeOK
<1>2. DOMAIN pending = {} /\ IsFiniteSet(DOMAIN pending)
  <2>1. DOMAIN pending = {}
    BY DEF EmptyBag, SetToBag
  <2> QED BY <2>1, FS_EmptySet
<1>3. Backed
  <2> SUFFICES ASSUME NEW t \in Token PROVE ReservedIn(pending, t) <= confirmed[t]
    BY DEF Backed
  <2>1. OnToken(pending, t) = {}
    BY <1>2 DEF OnToken
  <2>2. ReservedIn(pending, t) = SumOver(Weights(pending), {})
    BY <1>1, <1>2, <2>1, TypedFills, ReservedIsSum
  <2>3. ReservedIn(pending, t) = 0
    BY <2>2, FS_EmptySet, SumStep
  <2>4. confirmed[t] \in Nat
    BY <1>1 DEF IntakeTypeOK
  <2> QED BY <2>3, <2>4
<1>4. stage = "idle" /\ orders = <<>> /\ wrapped = FALSE /\ taken = 0
      /\ refused = {} /\ others = [t \in Token |-> 0]
      /\ cumulative_outflows = [t \in Token |-> 0] /\ Len(orders) = 0
  OBVIOUS
<1> HIDE DEF IntakeInit
<1>5. StageInv /\ CheckedInv /\ CoveredInv
  BY <1>4 DEF StageInv, CheckedInv, CoveredInv
<1>6. FittingInv /\ TextsInv
  BY <1>4 DEF FittingInv, TextsInv
<1> QED BY <1>1, <1>2, <1>3, <1>5, <1>6 DEF IntakeInv

(* The balances are read when nothing is accepted yet. *)
LEMMA ConvertKeeps ==
    ASSUME IntakeInv, convert_strategy_orders PROVE IntakeInv'
<1> USE DEF convert_strategy_orders
<1>1. /\ IntakeTypeOK /\ IsFiniteSet(DOMAIN pending)
      /\ Backed /\ StageInv /\ FittingInv /\ TextsInv
  BY DEF IntakeInv
<1>2. /\ orders = <<>> /\ Len(orders) = 0 /\ wrapped = FALSE /\ taken = 0
      /\ refused = {} /\ others = [t \in Token |-> 0]
      /\ cumulative_outflows = [t \in Token |-> 0]
  BY <1>1 DEF StageInv
<1>3. /\ \A t \in Token : projected(t) \in Nat /\ projected(t) + ReservedIn(pending, t) = confirmed[t]
  BY <1>1, TypedFills DEF Backed
<1>4. IntakeTypeOK'
  <2>1. projected_balances' \in [Token -> Nat]
    BY <1>3
  <2>2. batches' \in 0 .. MaxBatches
    BY <1>1, IntakeAssumption DEF IntakeTypeOK
  <2> QED BY <1>1, <2>1, <2>2 DEF IntakeTypeOK
<1>5. Backed' /\ FittingInv' /\ TextsInv'
  BY <1>1 DEF Backed, FittingInv, TextsInv
<1>6. StageInv' /\ CoveredInv'
  BY <1>2 DEF StageInv, CoveredInv
<1>7. CheckedInv'
  <2> SUFFICES ASSUME NEW t \in Token
               PROVE  /\ cumulative_outflows'[t] = Needs(orders', t)
                      /\ Needs(orders', t) <= projected_balances'[t]
                      /\ projected_balances'[t] + ReservedIn(pending', t) = confirmed'[t]
    BY DEF CheckedInv
  <2>1. Needs(orders', t) = 0
    <3>1. orders' = <<>>
      BY <1>2
    <3> QED BY <3>1, NeedsEmpty
  <2>2. cumulative_outflows'[t] = 0
    BY <1>2
  <2>3. projected_balances'[t] = projected(t)
    OBVIOUS
  <2>4. projected(t) \in Nat /\ projected(t) + ReservedIn(pending, t) = confirmed[t]
    BY <1>3
  <2>5. 0 <= projected(t)
    BY <2>4
  <2>6. pending' = pending /\ confirmed' = confirmed
    OBVIOUS
  <2> HIDE DEF convert_strategy_orders
  <2>7. Needs(orders', t) <= projected_balances'[t]
    BY <2>1, <2>3, <2>5
  <2>8. projected_balances'[t] + ReservedIn(pending', t) = confirmed'[t]
    BY <2>3, <2>4, <2>6, Zenon
  <2> QED BY <2>1, <2>2, <2>7, <2>8
<1>8. IsFiniteSet(DOMAIN pending')
  BY <1>1
<1> HIDE DEF convert_strategy_orders
<1> QED BY <1>4, <1>5, <1>6, <1>7, <1>8 DEF IntakeInv

(* A word holds a small number as it is. *)
LEMMA WordHolds ==
    ASSUME NEW x \in Nat
    PROVE  x % Word \in 0 .. Word - 1 /\ (x < Word => x % Word = x)
<1>1. Word \in Nat \ {0}
  BY IntakeAssumption
<1> QED BY <1>1, Z3

(* What a match of others is worth is a number. *)
LEMMA OtherValue ==
    ASSUME NEW pair \in Market, NEW q \in Nat, NEW p \in Nat
    PROVE  Value(pair, q, p) \in Nat
<1>1. Divisor(pair) \in Nat \ {0}
  <2>1. Decimals[pair[1]] + PriceDec - Decimals[pair[2]] \in Nat
    BY IntakeAssumption
  <2> QED BY <2>1, PowType DEF Divisor
<1>2. q * p \in Nat
  OBVIOUS
<1> HIDE DEF Divisor
<1> QED BY <1>1, <1>2, WholeUnits DEF Value

(* An accepted order: numbers as the text says, and words. *)
LEMMA AcceptedOrder ==
    ASSUME NEW spec \in OrderSpecs, Converts(spec),
           NEW o, o = [spec |-> spec, price |-> convert_order(spec).price,
                       quantity |-> convert_order(spec).quantity, left |-> convert_order(spec).quantity]
    PROVE  /\ o \in Orders /\ AsWritten(o)
           /\ o.spec = spec /\ NeedOf(o) = Outflow(spec, convert_order(spec).quantity, convert_order(spec).price)
           /\ NeedOf(o) \in Nat /\ OutflowToken(spec) \in Token
<1> DEFINE p == parse_decimal_to_fixed(spec.price, PriceDec)
           q == parse_decimal_to_fixed(spec.quantity, Decimals[spec.pair[1]])
<1>1. convert_order(spec).price = p /\ convert_order(spec).quantity = q
  BY DEF convert_order
<1>2. p # Error /\ q # Error
  BY <1>1 DEF Converts
<1>3. /\ spec.price \in [digits : BOOLEAN, int : Nat, frac : Nat, places : Nat]
      /\ spec.quantity \in [digits : BOOLEAN, int : Nat, frac : Nat, places : Nat]
  <2>1. NotANumber \in [digits : BOOLEAN, int : Nat, frac : Nat, places : Nat]
    BY DEF NotANumber
  <2> QED BY <2>1, IntakeAssumption DEF OrderSpecs
<1>4. PriceDec \in Nat /\ Decimals[spec.pair[1]] \in Nat
  BY DivisorType, IntakeAssumption
<1>5. Floors(spec.price, p, PriceDec) /\ p \in 0 .. Word - 1
  BY <1>2, <1>3, <1>4, ParseFloors
<1>6. Floors(spec.quantity, q, Decimals[spec.pair[1]]) /\ q \in 0 .. Word - 1
  BY <1>2, <1>3, <1>4, ParseFloors
<1> HIDE DEF p, q
<1>7. o = [spec |-> spec, price |-> p, quantity |-> q, left |-> q]
  BY <1>1
<1>8. o.spec = spec /\ o.price = p /\ o.quantity = q /\ o.left = q /\ o \in Orders
  BY <1>5, <1>6, <1>7 DEF Orders
<1>9. AsWritten(o)
  BY <1>5, <1>6, <1>8 DEF AsWritten
<1>10. NeedOf(o) = Outflow(spec, convert_order(spec).quantity, convert_order(spec).price)
  BY <1>1, <1>8 DEF NeedOf
<1> QED BY <1>8, <1>9, <1>10, NeedOfType, DivisorType

(* The running sum of validate_orders, with and without wrapping. *)
LEMMA RunningSum ==
    ASSUME NEW c \in 0 .. Word - 1, NEW x \in Nat, NEW y, y = (c + (x % Word)) % Word
    PROVE  y \in 0 .. Word - 1 /\ (c + x < Word => y = c + x /\ x < Word)
<1> DEFINE z == x % Word
<1>1. Word \in Nat \ {0}
  BY IntakeAssumption
<1>2. z \in 0 .. Word - 1 /\ (x < Word => z = x)
  BY WordHolds
<1> HIDE DEF z
<1>3. c + z \in Nat
  BY <1>1, <1>2
<1>4. (c + z) % Word \in 0 .. Word - 1 /\ (c + z < Word => (c + z) % Word = c + z)
  BY <1>3, WordHolds
<1>5. y = (c + z) % Word
  BY DEF z
<1>6. ASSUME c + x < Word PROVE y = c + x /\ x < Word
  <2>1. x < Word
    BY <1>1, <1>6
  <2> QED BY <1>2, <1>4, <1>5, <1>6, <2>1
<1> QED BY <1>4, <1>5, <1>6

(* A rejected order leaves only its place in the count. *)
LEMMA RejectKeeps ==
    ASSUME IntakeInv, stage = "validate", taken < CommitsPerBatch, taken' = taken + 1,
           UNCHANGED <<cumulative_outflows, orders, wrapped>>,
           UNCHANGED <<stage, batches, projected_balances, confirmed, pending, refused, others>>
    PROVE  IntakeInv'
<1>1. taken \in Nat /\ taken' \in 0 .. CommitsPerBatch
  BY IntakeAssumption DEF IntakeInv, IntakeTypeOK
<1>2. IntakeTypeOK'
  BY <1>1 DEF IntakeInv, IntakeTypeOK
<1>3. StageInv'
  <2>1. Len(orders) \in Nat /\ Len(orders) <= taken
    BY LenProperties DEF IntakeInv, IntakeTypeOK, StageInv
  <2>2. Len(orders) <= taken + 1
    BY <1>1, <2>1
  <2> QED BY <2>2 DEF IntakeInv, StageInv
<1>4. (Backed /\ CheckedInv /\ CoveredInv /\ FittingInv /\ TextsInv)'
  BY DEF IntakeInv, Backed, CheckedInv, CoveredInv, Covered, FittingInv, TextsInv
<1> QED BY <1>2, <1>3, <1>4 DEF IntakeInv

(* An accepted order costs, with the ones before it, no more than the balance. *)
LEMMA AcceptKeeps ==
    ASSUME IntakeInv, stage = "validate", taken < CommitsPerBatch, taken' = taken + 1,
           NEW spec \in OrderSpecs, AcceptOrder(spec),
           UNCHANGED <<stage, batches, projected_balances, confirmed, pending, refused, others>>
    PROVE  IntakeInv'
<1> DEFINE co == convert_order(spec)
           t0 == OutflowToken(spec)
           o == [spec |-> spec, price |-> co.price, quantity |-> co.quantity, left |-> co.quantity]
           x == NeedOf(o)
           c == cumulative_outflows[t0]
           y == new_cumulative(spec, co.quantity, co.price)
<1>1. /\ Converts(spec) /\ y <= projected_balances[t0]
      /\ cumulative_outflows' = [cumulative_outflows EXCEPT ![t0] = y]
      /\ orders' = Append(orders, o)
      /\ wrapped' = (wrapped \/ c + Outflow(spec, co.quantity, co.price) >= Word)
  BY DEF AcceptOrder, Accepted
<1>2. o \in Orders /\ AsWritten(o) /\ o.spec = spec /\ x \in Nat /\ t0 \in Token
      /\ x = Outflow(spec, co.quantity, co.price)
  BY <1>1, AcceptedOrder
<1>3. /\ IntakeTypeOK /\ IsFiniteSet(DOMAIN pending)
      /\ Backed /\ StageInv /\ CheckedInv /\ CoveredInv /\ FittingInv /\ TextsInv
  BY DEF IntakeInv
<1>4. y = (c + (x % Word)) % Word
  BY <1>2 DEF new_cumulative, compute_outflow
<1>5. wrapped' = (wrapped \/ c + x >= Word)
  BY <1>1, <1>2
<1> HIDE DEF co, t0, o, x, c, y
<1>6. c \in 0 .. Word - 1 /\ wrapped \in BOOLEAN
  BY <1>2, <1>3 DEF IntakeTypeOK, c
<1>7. y \in 0 .. Word - 1 /\ (c + x < Word => y = c + x /\ x < Word)
  BY <1>2, <1>4, <1>6, RunningSum
<1>8. ASSUME wrapped' = FALSE PROVE wrapped = FALSE /\ y = c + x /\ x < Word
  <2>1. wrapped = FALSE /\ ~(c + x >= Word)
    BY <1>5, <1>6, <1>8
  <2>2. c + x < Word
    BY <1>2, <1>6, <2>1, IntakeAssumption
  <2> QED BY <1>7, <2>1, <2>2
<1>9. /\ orders \in Seq(Orders) /\ orders' \in Seq(Orders) /\ Len(orders) \in Nat /\ Len(orders') = Len(orders) + 1
      /\ \A i \in 1 .. Len(orders) : orders'[i] = orders[i]
      /\ orders'[Len(orders) + 1] = o
  BY <1>1, <1>2, <1>3, AppendProperties, LenProperties DEF IntakeTypeOK
<1>10. taken \in Nat /\ taken' \in 0 .. CommitsPerBatch /\ Len(orders') <= taken' /\ Len(orders') <= CommitsPerBatch
  <2>1. taken \in Nat /\ CommitsPerBatch \in Nat /\ Len(orders) <= taken
    BY <1>3, IntakeAssumption DEF IntakeTypeOK, StageInv
  <2> DEFINE n == Len(orders')
  <2>2. n = Len(orders) + 1
    BY <1>9
  <2> HIDE DEF n
  <2>3. taken + 1 \in 0 .. CommitsPerBatch /\ n <= taken + 1 /\ n <= CommitsPerBatch
    BY <1>9, <2>1, <2>2
  <2> QED BY <2>1, <2>3 DEF n
<1>11. IntakeTypeOK'
  <2>1. cumulative_outflows' \in [Token -> 0 .. Word - 1]
    BY <1>1, <1>3, <1>7 DEF IntakeTypeOK
  <2>2. wrapped' \in BOOLEAN
    BY <1>5, Zenon
  <2> QED BY <1>3, <1>9, <1>10, <2>1, <2>2 DEF IntakeTypeOK
<1>12. Backed' /\ StageInv' /\ CoveredInv'
  BY <1>3, <1>10 DEF Backed, StageInv, CoveredInv
<1>13. TextsInv'
  <2>1. \A i \in 1 .. Len(orders') : i \in 1 .. Len(orders) \/ i = Len(orders) + 1
    BY <1>9
  <2>2. \A i \in 1 .. Len(orders) : AsWritten(orders'[i])
    BY <1>3, <1>9 DEF TextsInv
  <2> QED BY <1>2, <1>9, <2>1, <2>2 DEF TextsInv
<1>14. FittingInv'
  <2> SUFFICES ASSUME wrapped' = FALSE, NEW i \in 1 .. Len(orders') PROVE NeedOf(orders'[i]) < Word
    BY DEF FittingInv
  <2>1. wrapped = FALSE /\ x < Word
    BY <1>8
  <2>2. i \in 1 .. Len(orders) \/ i = Len(orders) + 1
    BY <1>9
  <2>3. CASE i \in 1 .. Len(orders)
    BY <1>3, <1>9, <2>1, <2>3 DEF FittingInv
  <2>4. CASE i = Len(orders) + 1
    <3>1. orders'[i] = o
      BY <1>9, <2>4
    <3> QED BY <2>1, <3>1 DEF x
  <2> QED BY <2>2, <2>3, <2>4
<1>15. CheckedInv'
  <2> SUFFICES ASSUME wrapped' = FALSE, NEW t \in Token
               PROVE  /\ cumulative_outflows'[t] = Needs(orders', t)
                      /\ Needs(orders', t) <= projected_balances'[t]
                      /\ projected_balances'[t] + ReservedIn(pending', t) = confirmed'[t]
    BY DEF CheckedInv
  <2>1. wrapped = FALSE /\ y = c + x
    BY <1>8
  <2>2. /\ cumulative_outflows[t] = Needs(orders, t) /\ Needs(orders, t) <= projected_balances[t]
        /\ projected_balances[t] + ReservedIn(pending, t) = confirmed[t]
    BY <1>3, <2>1 DEF CheckedInv
  <2>3. Needs(Append(orders, o), t) = Needs(orders, t) + (IF t0 = t THEN x ELSE 0) /\ Needs(orders, t) \in Nat
    <3>1. Needs(Append(orders, o), t) = Needs(orders, t) + (IF OutflowToken(o.spec) = t THEN NeedOf(o) ELSE 0)
      BY <1>2, <1>9, NeedsAppend
    <3>2. OutflowToken(o.spec) = t0
      BY <1>2 DEF t0
    <3> QED BY <1>9, <3>1, <3>2, NeedsType DEF x
  <2> DEFINE m == Needs(orders, t) k == Needs(orders', t)
  <2>4. m \in Nat /\ k = m + (IF t0 = t THEN x ELSE 0) /\ cumulative_outflows[t] = m /\ m <= projected_balances[t]
    BY <1>1, <2>2, <2>3
  <2> HIDE DEF m, k
  <2>5. cumulative_outflows'[t] = k /\ k <= projected_balances[t]
    <3>1. CASE t = t0
      <4>1. cumulative_outflows'[t] = y
        BY <1>1, <1>3, <3>1 DEF IntakeTypeOK
      <4>2. c = m /\ k = m + x
        BY <2>4, <3>1 DEF c
      <4> QED BY <1>1, <2>1, <3>1, <4>1, <4>2
    <3>2. CASE t # t0
      <4>1. cumulative_outflows'[t] = cumulative_outflows[t]
        BY <1>1, <1>3, <3>2 DEF IntakeTypeOK
      <4>2. k = m
        BY <2>4, <3>2
      <4> QED BY <2>4, <4>1, <4>2
    <3> QED BY <3>1, <3>2
  <2> QED BY <2>2, <2>5 DEF k
<1> QED BY <1>3, <1>11, <1>12, <1>13, <1>14, <1>15 DEF IntakeInv

(* The answer is used up: what was checked is what the match relies on. *)
LEMMA CommitKeeps ==
    ASSUME IntakeInv, Commit PROVE IntakeInv'
<1> USE DEF Commit
<1>1. /\ IntakeTypeOK /\ IsFiniteSet(DOMAIN pending)
      /\ Backed /\ StageInv /\ CheckedInv /\ FittingInv /\ TextsInv
  BY DEF IntakeInv
<1>2. IntakeTypeOK'
  <2>1. Word \in Nat \ {0} /\ CommitsPerBatch \in Nat
    BY IntakeAssumption
  <2>2. /\ projected_balances' \in [Token -> Nat] /\ cumulative_outflows' \in [Token -> 0 .. Word - 1]
        /\ taken' \in 0 .. CommitsPerBatch
    BY <2>1
  <2> QED BY <1>1, <2>2 DEF IntakeTypeOK
<1>3. Backed' /\ FittingInv' /\ TextsInv' /\ StageInv' /\ CheckedInv'
  BY <1>1 DEF Backed, FittingInv, TextsInv, StageInv, CheckedInv
<1>4. CoveredInv'
  <2> SUFFICES ASSUME wrapped = FALSE
               PROVE  refused = {}
                      /\ \A t \in Token : ReservedIn(pending, t) + Needs(orders, t) <= confirmed[t]
    BY DEF CoveredInv, Covered
  <2>1. refused = {}
    BY <1>1 DEF StageInv
  <2>2. ASSUME NEW t \in Token PROVE ReservedIn(pending, t) + Needs(orders, t) <= confirmed[t]
    <3>1. /\ Needs(orders, t) <= projected_balances[t]
          /\ projected_balances[t] + ReservedIn(pending, t) = confirmed[t]
      BY <1>1 DEF CheckedInv
    <3>2. ReservedIn(pending, t) \in Nat /\ Needs(orders, t) \in Nat /\ projected_balances[t] \in Nat
      BY <1>1, TypedFills, NeedsType DEF IntakeTypeOK
    <3> HIDE DEF Commit
    <3> QED BY <3>1, <3>2
  <2> QED BY <2>1, <2>2
<1> QED BY <1>1, <1>2, <1>3, <1>4 DEF IntakeInv

(* The batch and its flags are gone. *)
LEMMA BatchOverKeeps ==
    ASSUME IntakeInv, BatchOver PROVE IntakeInv'
<1> USE DEF BatchOver
<1>1. /\ IntakeTypeOK /\ IsFiniteSet(DOMAIN pending) /\ Backed /\ StageInv
  BY DEF IntakeInv
<1>2. orders' = <<>> /\ orders' \in Seq(Orders) /\ Len(orders') = 0 /\ Len(orders') <= CommitsPerBatch
  BY IntakeAssumption
<1>3. IntakeTypeOK'
  <2>1. others' \in [Token -> 0 .. MaxOthers]
    BY IntakeAssumption
  <2> QED BY <1>1, <1>2, <2>1 DEF IntakeTypeOK
<1>4. StageInv' /\ Backed'
  BY <1>1, <1>2 DEF Backed, StageInv
<1>5. CheckedInv' /\ CoveredInv' /\ FittingInv' /\ TextsInv'
  BY <1>2 DEF CheckedInv, CoveredInv, FittingInv, TextsInv
<1> QED BY <1>1, <1>3, <1>4, <1>5 DEF IntakeInv

(* A settlement frees its fill and never costs a balance. *)
LEMMA SettlementKeeps ==
    ASSUME IntakeInv, SettlementEnds PROVE IntakeInv'
<1>1. /\ IntakeTypeOK /\ IsFiniteSet(DOMAIN pending)
      /\ Backed /\ StageInv /\ CoveredInv /\ FittingInv /\ TextsInv
  BY DEF IntakeInv
<1>2. PICK f \in DOMAIN pending :
        /\ pending' = pending (-) SetToBag({f})
        /\ confirmed' \in {confirmed, [confirmed EXCEPT ![f.in_token] = @ + f.in]}
  BY DEF SettlementEnds, BagToSet
<1>3. /\ stage # "validate"
      /\ UNCHANGED <<stage, batches, taken, projected_balances, cumulative_outflows, orders,
                     refused, others, wrapped>>
  BY DEF SettlementEnds
<1>4. FillBag(pending) /\ confirmed \in [Token -> Nat]
  BY <1>1, TypedFills DEF IntakeTypeOK
<1>5. f.in \in Nat /\ f.in_token \in Token
  BY <1>4, WeightsType DEF FillBag
<1>6. confirmed' \in [Token -> Nat] /\ \A t \in Token : confirmed[t] <= confirmed'[t]
  <2>1. CASE confirmed' = confirmed
    BY <1>4, <2>1
  <2>2. CASE confirmed' = [confirmed EXCEPT ![f.in_token] = @ + f.in]
    <3> DEFINE c == [confirmed EXCEPT ![f.in_token] = @ + f.in]
    <3>1. c \in [Token -> Nat] /\ \A t \in Token : confirmed[t] <= c[t]
      BY <1>4, <1>5
    <3> HIDE DEF c
    <3>2. confirmed' = c
      BY <2>2 DEF c
    <3> QED BY <3>1, <3>2
  <2> QED BY <1>2, <2>1, <2>2
<1>7. FillBag(pending')
  BY <1>2, <1>4, ReservedLess
<1>8. ASSUME NEW t \in Token
      PROVE  /\ ReservedIn(pending', t) \in Nat /\ ReservedIn(pending, t) \in Nat
             /\ ReservedIn(pending', t) <= ReservedIn(pending, t)
  <2>1. /\ ReservedIn(pending (-) SetToBag({f}), t) \in Nat
        /\ ReservedIn(pending (-) SetToBag({f}), t) <= ReservedIn(pending, t)
    BY <1>2, <1>4, ReservedLess
  <2>2. ReservedIn(pending, t) \in Nat
    BY <1>1, TypedFills
  <2> QED BY <1>2, <2>1, <2>2
<1>9. IntakeTypeOK' /\ IsFiniteSet(DOMAIN pending')
  BY <1>1, <1>3, <1>6, <1>7 DEF IntakeTypeOK, FillBag, BagToSet
<1>10. StageInv' /\ FittingInv' /\ TextsInv' /\ CheckedInv'
  BY <1>1, <1>3 DEF StageInv, FittingInv, TextsInv, CheckedInv
<1>11. Backed'
  <2> SUFFICES ASSUME NEW t \in Token PROVE ReservedIn(pending', t) <= confirmed'[t]
    BY DEF Backed
  <2> DEFINE x == ReservedIn(pending', t) y == ReservedIn(pending, t) a == confirmed[t] b == confirmed'[t]
  <2>1. x \in Nat /\ y \in Nat /\ x <= y
    BY <1>8
  <2>2. y <= a /\ a <= b /\ a \in Nat /\ b \in Nat
    BY <1>1, <1>4, <1>6 DEF Backed
  <2> HIDE DEF x, y, a, b
  <2>3. x <= b
    BY <2>1, <2>2
  <2> QED BY <2>3 DEF x, b
<1>12. CoveredInv'
  <2> SUFFICES ASSUME stage = "match", wrapped = FALSE, NEW t \in Token, others[t] = 0
               PROVE  t \notin refused /\ ReservedIn(pending', t) + Needs(orders, t) <= confirmed'[t]
    BY <1>3 DEF CoveredInv, Covered
  <2>1. Covered(t)
    BY <1>1 DEF CoveredInv
  <2>2. ReservedIn(pending', t) + Needs(orders, t) <= confirmed'[t]
    <3> DEFINE x == ReservedIn(pending', t) y == ReservedIn(pending, t) a == confirmed[t] b == confirmed'[t]
               n == Needs(orders, t)
    <3>1. x \in Nat /\ y \in Nat /\ x <= y
      BY <1>8
    <3>2. y + n <= a /\ a <= b /\ a \in Nat /\ b \in Nat
      BY <1>4, <1>6, <2>1 DEF Covered
    <3>3. n \in Nat
      BY <1>1, NeedsType DEF IntakeTypeOK
    <3> HIDE DEF x, y, a, b, n
    <3>4. x + n <= b
      BY <3>1, <3>2, <3>3
    <3> QED BY <3>4 DEF x, b, n
  <2> QED BY <2>1, <2>2 DEF Covered
<1> QED BY <1>9, <1>10, <1>11, <1>12 DEF IntakeInv

(* What a fill takes from its order. *)
LEMMA FillQuantity ==
    ASSUME NEW l \in Nat, NEW q \in {l, (l + 1) \div 2} \ {0} PROVE q \in 0 .. l
<1>1. CASE q = l
  BY <1>1
<1>2. CASE q = (l + 1) \div 2
  <2>1. q \in Nat /\ q * 2 <= l + 1 /\ q # 0
    BY <1>2, WholeUnits
  <2> QED BY <2>1
<1> QED BY <1>1, <1>2

(* A fill is reserved out of what its order may still cost. *)
LEMMA RegisterKeeps ==
    ASSUME IntakeInv, RegisterFill PROVE IntakeInv'
<1>1. /\ IntakeTypeOK /\ IsFiniteSet(DOMAIN pending)
      /\ Backed /\ StageInv /\ CoveredInv /\ FittingInv /\ TextsInv
  BY DEF IntakeInv
<1>2. /\ stage = "match"
      /\ UNCHANGED <<stage, batches, taken, projected_balances, cumulative_outflows, confirmed,
                     others, wrapped>>
  BY DEF RegisterFill
<1>3. orders \in Seq(Orders) /\ DOMAIN orders = 1 .. Len(orders) /\ Len(orders) <= CommitsPerBatch
  BY <1>1, LenProperties DEF IntakeTypeOK
<1>4. PICK i \in 1 .. Len(orders) :
        \E q \in {orders[i].left, (orders[i].left + 1) \div 2} \ {0} :
            LET o == orders[i]
                out == compute_outflow(o.spec, q, o.price)
            IN /\ orders' = [orders EXCEPT ![i].left = @ - q]
               /\ \/ /\ out <= projected(OutflowToken(o.spec))
                     /\ pending' = pending (+) SetToBag(
                          {[out_token |-> OutflowToken(o.spec), out |-> out,
                            in_token |-> InflowToken(o.spec),
                            in |-> Inflow(o.spec, q, o.price) % Word]})
                     /\ UNCHANGED refused
                  \/ /\ out > projected(OutflowToken(o.spec))
                     /\ refused' = refused \cup {OutflowToken(o.spec)}
                     /\ UNCHANGED pending
  BY <1>3 DEF RegisterFill
<1> DEFINE o == orders[i]
<1>5. PICK q \in {o.left, (o.left + 1) \div 2} \ {0} :
            LET out == compute_outflow(o.spec, q, o.price)
            IN /\ orders' = [orders EXCEPT ![i].left = @ - q]
               /\ \/ /\ out <= projected(OutflowToken(o.spec))
                     /\ pending' = pending (+) SetToBag(
                          {[out_token |-> OutflowToken(o.spec), out |-> out,
                            in_token |-> InflowToken(o.spec),
                            in |-> Inflow(o.spec, q, o.price) % Word]})
                     /\ UNCHANGED refused
                  \/ /\ out > projected(OutflowToken(o.spec))
                     /\ refused' = refused \cup {OutflowToken(o.spec)}
                     /\ UNCHANGED pending
  BY <1>4
<1> DEFINE t0 == OutflowToken(o.spec)
           cost == Outflow(o.spec, q, o.price)
           out == compute_outflow(o.spec, q, o.price)
           f == [out_token |-> t0, out |-> out, in_token |-> InflowToken(o.spec),
                 in |-> Inflow(o.spec, q, o.price) % Word]
<1>6. orders' = [orders EXCEPT ![i].left = @ - q]
  BY <1>5
<1>7. \/ /\ out <= projected(t0) /\ pending' = pending (+) SetToBag({f}) /\ refused' = refused
      \/ out > projected(t0) /\ refused' = refused \cup {t0} /\ pending' = pending
  BY <1>5
<1>8. o \in Orders /\ o.left \in Nat /\ o.spec \in OrderSpecs /\ t0 \in Token /\ InflowToken(o.spec) \in Token
      /\ o.price \in Nat
  BY <1>3, ElementOfSeq, NeedOfType, DivisorType
<1>9. q \in 0 .. o.left
  BY <1>5, <1>8, FillQuantity
<1>10. /\ orders' \in Seq(Orders) /\ Len(orders') = Len(orders)
       /\ orders'[i] \in Orders /\ NeedOf(orders'[i]) \in Nat /\ NeedOf(o) \in Nat /\ cost \in Nat
       /\ NeedOf(orders'[i]) + cost <= NeedOf(o)
       /\ orders'[i].spec = o.spec /\ orders'[i].price = o.price /\ orders'[i].quantity = o.quantity
       /\ \A j \in 1 .. Len(orders) : j # i => orders'[j] = orders[j]
  <2>1. /\ orders' \in Seq(Orders) /\ Len(orders') = Len(orders)
        /\ orders'[i] \in Orders /\ NeedOf(orders'[i]) \in Nat /\ NeedOf(orders[i]) \in Nat
    <3>1. orders' \in Seq(Orders)
      BY <1>3, <1>6, <1>9, NeedsFill
    <3>2. Len(orders') = Len(orders)
      BY <1>3, <1>6, <1>9, NeedsFill
    <3>3. orders'[i] \in Orders
      BY <1>3, <1>6, <1>9, NeedsFill
    <3>4. NeedOf(orders'[i]) \in Nat /\ NeedOf(orders[i]) \in Nat
      BY <1>3, <1>6, <1>9, NeedsFill
    <3> QED BY <3>1, <3>2, <3>3, <3>4
  <2>2. /\ Outflow(orders[i].spec, q, orders[i].price) \in Nat
        /\ NeedOf(orders'[i]) + Outflow(orders[i].spec, q, orders[i].price) <= NeedOf(orders[i])
    BY <1>3, <1>6, <1>9, NeedsFill
  <2>3. /\ orders'[i].spec = orders[i].spec /\ orders'[i].price = orders[i].price
        /\ orders'[i].quantity = orders[i].quantity
    BY <1>3, <1>6, <1>9, NeedsFill
  <2>4. \A j \in 1 .. Len(orders) : j # i => orders'[j] = orders[j]
    BY <1>3, <1>6, <1>9, NeedsFill
  <2> QED BY <2>1, <2>2, <2>3, <2>4
<1>11. ASSUME NEW t PROVE Needs(orders', t) + (IF t0 = t THEN cost ELSE 0) <= Needs(orders, t)
  BY <1>3, <1>6, <1>9, NeedsFill
<1>12. out = cost % Word /\ Inflow(o.spec, q, o.price) \in Nat
  BY <1>8, <1>9, OutflowSplit DEF compute_outflow
<1>13. out \in 0 .. Word - 1 /\ (cost < Word => out = cost) /\ f \in Fills /\ f.out_token = t0 /\ f.out = out
  <2> DEFINE w == Inflow(o.spec, q, o.price) % Word
  <2>1. w \in 0 .. Word - 1
    BY <1>12, WordHolds
  <2>2. out \in 0 .. Word - 1 /\ (cost < Word => out = cost)
    BY <1>10, <1>12, WordHolds
  <2> HIDE DEF w, out, t0
  <2>3. [out_token |-> t0, out |-> out, in_token |-> InflowToken(o.spec), in |-> w] \in Fills
    BY <1>8, <2>1, <2>2 DEF Fills
  <2> QED BY <2>2, <2>3 DEF w
<1> HIDE DEF o, t0, cost, out, f
<1>14. FillBag(pending) /\ FillBag(pending')
  <2>1. FillBag(pending)
    BY <1>1, TypedFills
  <2>2. FillBag(pending (+) SetToBag({f}))
    BY <1>13, <2>1, ReservedMore
  <2> QED BY <1>7, <2>1, <2>2
<1>15. IntakeTypeOK' /\ IsFiniteSet(DOMAIN pending')
  <2>1. refused' \subseteq Token
    BY <1>1, <1>7, <1>8 DEF IntakeTypeOK
  <2>2. Len(orders') <= CommitsPerBatch
    BY <1>3, <1>10
  <2> QED BY <1>1, <1>2, <1>10, <1>14, <2>1, <2>2 DEF IntakeTypeOK, FillBag, BagToSet
<1>16. TextsInv'
  <2> SUFFICES ASSUME NEW j \in 1 .. Len(orders') PROVE AsWritten(orders'[j])
    BY DEF TextsInv
  <2>1. CASE j = i
    <3>1. AsWritten(o)
      BY <1>1 DEF TextsInv, o
    <3> QED BY <1>10, <2>1, <3>1 DEF AsWritten
  <2>2. CASE j # i
    BY <1>1, <1>10, <2>2 DEF TextsInv
  <2> QED BY <2>1, <2>2
<1>17. FittingInv'
  <2> SUFFICES ASSUME wrapped = FALSE, NEW j \in 1 .. Len(orders') PROVE NeedOf(orders'[j]) < Word
    BY <1>2 DEF FittingInv
  <2>1. CASE j = i
    <3> DEFINE x == NeedOf(orders'[i]) y == NeedOf(o)
    <3>1. y < Word /\ x \in Nat /\ y \in Nat /\ x + cost <= y /\ Word \in Nat /\ cost \in Nat
      BY <1>1, <1>10, IntakeAssumption DEF FittingInv, o
    <3> HIDE DEF x, y
    <3>2. x < Word
      BY <3>1
    <3> QED BY <2>1, <3>2 DEF x
  <2>2. CASE j # i
    BY <1>1, <1>10, <2>2 DEF FittingInv
  <2> QED BY <2>1, <2>2
<1>18. StageInv' /\ CheckedInv'
  BY <1>1, <1>2 DEF StageInv, CheckedInv
<1>19. ASSUME NEW t \in Token
       PROVE  /\ ReservedIn(pending, t) \in Nat /\ ReservedIn(pending, t) <= confirmed[t] /\ confirmed[t] \in Nat
              /\ projected(t) \in Nat /\ projected(t) + ReservedIn(pending, t) = confirmed[t]
              /\ pending' = pending (+) SetToBag({f}) =>
                   ReservedIn(pending', t) = ReservedIn(pending, t) + (IF t0 = t THEN out ELSE 0)
  <2>1. /\ ReservedIn(pending, t) \in Nat /\ ReservedIn(pending, t) <= confirmed[t] /\ confirmed[t] \in Nat
        /\ projected(t) \in Nat /\ projected(t) + ReservedIn(pending, t) = confirmed[t]
    BY <1>1, TypedFills DEF Backed
  <2>2. ReservedIn(pending (+) SetToBag({f}), t)
          = ReservedIn(pending, t) + (IF f.out_token = t THEN f.out ELSE 0)
    BY <1>13, <1>14, ReservedMore
  <2> QED BY <1>13, <2>1, <2>2
<1>20. Backed'
  <2> SUFFICES ASSUME NEW t \in Token PROVE ReservedIn(pending', t) <= confirmed[t]
    BY <1>2 DEF Backed
  <2> DEFINE x == ReservedIn(pending, t) y == ReservedIn(pending', t) a == confirmed[t] p == projected(t)
  <2>1. x \in Nat /\ x <= a /\ a \in Nat /\ p \in Nat /\ p + x = a
        /\ (pending' = pending (+) SetToBag({f}) => y = x + (IF t0 = t THEN out ELSE 0))
    BY <1>19
  <2>2. CASE out <= projected(t0) /\ pending' = pending (+) SetToBag({f})
    <3>1. y = x + (IF t0 = t THEN out ELSE 0) /\ (t0 = t => out <= p)
      BY <2>1, <2>2
    <3> HIDE DEF x, y, a, p
    <3>2. y <= a
      BY <1>13, <2>1, <3>1
    <3> QED BY <3>2 DEF y, a
  <2>3. CASE pending' = pending
    BY <2>1, <2>3
  <2> QED BY <1>7, <2>2, <2>3
<1>21. CoveredInv'
  <2> SUFFICES ASSUME wrapped = FALSE, NEW t \in Token, others[t] = 0
               PROVE  t \notin refused' /\ ReservedIn(pending', t) + Needs(orders', t) <= confirmed[t]
    BY <1>2 DEF CoveredInv, Covered
  <2>1. t \notin refused /\ ReservedIn(pending, t) + Needs(orders, t) <= confirmed[t]
    BY <1>1, <1>2 DEF CoveredInv, Covered
  <2>2. out = cost
    <3> DEFINE x == NeedOf(orders'[i]) y == NeedOf(o)
    <3>1. y < Word /\ x \in Nat /\ y \in Nat /\ x + cost <= y /\ Word \in Nat /\ cost \in Nat
      BY <1>1, <1>10, IntakeAssumption DEF FittingInv, o
    <3> HIDE DEF x, y
    <3>2. cost < Word
      BY <3>1
    <3> QED BY <1>13, <3>2
  <2>3. /\ Needs(orders', t) \in Nat /\ Needs(orders, t) \in Nat
        /\ Needs(orders', t) + (IF t0 = t THEN cost ELSE 0) <= Needs(orders, t)
    BY <1>3, <1>10, <1>11, NeedsType
  <2> DEFINE n == Needs(orders, t) m == Needs(orders', t) x == ReservedIn(pending, t)
             y == ReservedIn(pending', t) a == confirmed[t] p == projected(t)
  <2>4. n \in Nat /\ m \in Nat /\ m + (IF t0 = t THEN cost ELSE 0) <= n /\ x + n <= a
    BY <2>1, <2>3
  <2>5. /\ x \in Nat /\ a \in Nat /\ p \in Nat /\ p + x = a
        /\ pending' = pending (+) SetToBag({f}) => y = x + (IF t0 = t THEN out ELSE 0)
    BY <1>19
  <2>6. t = t0 => out <= projected(t0) /\ ~(out > projected(t0))
    <3> SUFFICES ASSUME t = t0 PROVE out <= p /\ ~(out > p)
      OBVIOUS
    <3> HIDE DEF n, m, x, y, a, p
    <3> QED BY <1>10, <1>13, <2>2, <2>4, <2>5
  <2>7. CASE pending' = pending (+) SetToBag({f}) /\ refused' = refused
    <3>1. y = x + (IF t0 = t THEN out ELSE 0)
      BY <2>5, <2>7
    <3> HIDE DEF n, m, x, y, a, p
    <3>2. y + m <= a
      BY <1>10, <2>2, <2>4, <2>5, <3>1
    <3> QED BY <2>1, <2>7, <3>2 DEF y, m, a
  <2>8. CASE t # t0 /\ refused' = refused \cup {t0} /\ pending' = pending
    <3>1. y = x
      BY <2>8
    <3> HIDE DEF n, m, x, y, a, p
    <3>2. y + m <= a
      BY <2>4, <2>5, <2>8, <3>1
    <3>3. t \notin refused'
      BY <2>1, <2>8
    <3> QED BY <3>2, <3>3 DEF y, m, a
  <2> HIDE DEF n, m, x, y, a, p
  <2> QED BY <1>7, <2>6, <2>7, <2>8
<1> QED BY <1>15, <1>16, <1>17, <1>18, <1>20, <1>21 DEF IntakeInv

(* A match of others leaves the node's own cover short only in the token it takes,
   and takes no more of that than is free. *)
LEMMA RegisterOtherKeeps ==
    ASSUME IntakeInv, RegisterOther PROVE IntakeInv'
<1>1. /\ IntakeTypeOK /\ IsFiniteSet(DOMAIN pending)
      /\ Backed /\ StageInv /\ CoveredInv /\ FittingInv /\ TextsInv
  BY DEF IntakeInv
<1>2. /\ stage = "match"
      /\ UNCHANGED <<stage, batches, taken, projected_balances, cumulative_outflows, orders,
                     confirmed, refused, wrapped>>
  BY DEF RegisterOther
<1>3. PICK g \in OtherFills :
        \/ /\ g.quantity <= projected(g.pair[1]) /\ others[g.pair[1]] < MaxOthers
           /\ pending' = pending (+) SetToBag(
                {[out_token |-> g.pair[1], out |-> g.quantity, in_token |-> g.pair[2],
                  in |-> Value(g.pair, g.quantity, g.price) % Word]})
           /\ others' = [others EXCEPT ![g.pair[1]] = @ + 1]
        \/ UNCHANGED <<pending, others>>
  BY DEF RegisterOther
<1>4. CASE UNCHANGED <<pending, others>>
  BY <1>2, <1>4, <1>1 DEF IntakeInv, IntakeTypeOK, Backed, StageInv, CheckedInv, CoveredInv, Covered,
                          FittingInv, TextsInv
<1>5. CASE ~UNCHANGED <<pending, others>>
  <2> DEFINE t0 == g.pair[1]
             out == g.quantity
             w == Value(g.pair, g.quantity, g.price) % Word
             f == [out_token |-> t0, out |-> out, in_token |-> g.pair[2], in |-> w]
  <2>1. /\ out <= projected(t0) /\ others[t0] < MaxOthers
        /\ pending' = pending (+) SetToBag({f}) /\ others' = [others EXCEPT ![t0] = @ + 1]
    BY <1>3, <1>5
  <2>2. /\ t0 \in Token /\ g.pair[2] \in Token /\ g.pair \in Market
        /\ out \in 1 .. Word - 1 /\ g.price \in 0 .. Word - 1 /\ Word \in Nat /\ MaxOthers \in Nat
    BY IntakeAssumption
  <2>3. w \in 0 .. Word - 1
    <3>1. g.quantity \in Nat /\ g.price \in Nat /\ g.pair \in Market
      BY <2>2 DEF out
    <3>2. Value(g.pair, g.quantity, g.price) \in Nat
      BY <3>1, OtherValue
    <3> QED BY <3>2, WordHolds
  <2> HIDE DEF t0, out, w
  <2>4. f \in Fills /\ f.out_token = t0 /\ f.out = out
    BY <2>2, <2>3 DEF Fills, t0
  <2> HIDE DEF f
  <2>5. FillBag(pending) /\ FillBag(pending')
    <3>1. FillBag(pending)
      BY <1>1, TypedFills
    <3>2. FillBag(pending (+) SetToBag({f}))
      BY <2>4, <3>1, ReservedMore
    <3> QED BY <2>1, <3>1, <3>2
  <2>6. /\ others' \in [Token -> 0 .. MaxOthers] /\ others'[t0] # 0
        /\ \A t \in Token : t # t0 => others'[t] = others[t]
    <3>1. others \in [Token -> 0 .. MaxOthers]
      BY <1>1 DEF IntakeTypeOK
    <3> QED BY <2>1, <2>2, <3>1
  <2>7. IntakeTypeOK' /\ IsFiniteSet(DOMAIN pending')
    BY <1>1, <1>2, <2>5, <2>6 DEF IntakeTypeOK, FillBag, BagToSet
  <2>8. StageInv' /\ CheckedInv' /\ FittingInv' /\ TextsInv'
    BY <1>1, <1>2 DEF StageInv, CheckedInv, FittingInv, TextsInv
  <2>9. ASSUME NEW t \in Token
        PROVE  /\ ReservedIn(pending, t) \in Nat /\ projected(t) \in Nat
               /\ projected(t) + ReservedIn(pending, t) = confirmed[t]
               /\ ReservedIn(pending', t) = ReservedIn(pending, t) + (IF t0 = t THEN out ELSE 0)
    <3>1. /\ ReservedIn(pending, t) \in Nat /\ projected(t) \in Nat
          /\ projected(t) + ReservedIn(pending, t) = confirmed[t]
      BY <1>1, TypedFills DEF Backed
    <3>2. ReservedIn(pending (+) SetToBag({f}), t)
            = ReservedIn(pending, t) + (IF f.out_token = t THEN f.out ELSE 0)
      BY <2>4, <2>5, ReservedMore
    <3> QED BY <2>1, <2>4, <3>1, <3>2
  <2>10. Backed'
    <3> SUFFICES ASSUME NEW t \in Token PROVE ReservedIn(pending', t) <= confirmed[t]
      BY <1>2 DEF Backed
    <3> DEFINE x == ReservedIn(pending, t) y == ReservedIn(pending', t) a == confirmed[t] p == projected(t)
    <3>1. x \in Nat /\ p \in Nat /\ p + x = a /\ y = x + (IF t0 = t THEN out ELSE 0)
          /\ (t0 = t => out <= p)
      BY <2>1, <2>9
    <3> HIDE DEF x, y, a, p
    <3>2. y <= a
      BY <2>2, <3>1
    <3> QED BY <3>2 DEF y, a
  <2>11. CoveredInv'
    <3> SUFFICES ASSUME wrapped = FALSE, NEW t \in Token, others'[t] = 0
                 PROVE  t \notin refused /\ ReservedIn(pending', t) + Needs(orders, t) <= confirmed[t]
      BY <1>2 DEF CoveredInv, Covered
    <3>1. t # t0 /\ others[t] = 0
      BY <2>6
    <3>2. t \notin refused /\ ReservedIn(pending, t) + Needs(orders, t) <= confirmed[t]
      BY <1>1, <1>2, <3>1 DEF CoveredInv, Covered
    <3>3. ReservedIn(pending', t) = ReservedIn(pending, t)
      BY <2>9, <3>1
    <3> QED BY <3>2, <3>3
  <2> QED BY <2>7, <2>8, <2>10, <2>11 DEF IntakeInv
<1> QED BY <1>4, <1>5

(* Every step of the intake keeps the invariant. *)
LEMMA IntakeStep ==
    ASSUME IntakeInv, [IntakeNext]_intakeVars PROVE IntakeInv'
<1>1. CASE convert_strategy_orders
  BY <1>1, ConvertKeeps
<1>2. CASE validate_orders
  <2>1. /\ stage = "validate" /\ taken < CommitsPerBatch /\ taken' = taken + 1
        /\ UNCHANGED <<stage, batches, projected_balances, confirmed, pending, refused, others>>
    BY <1>2 DEF validate_orders
  <2>2. PICK spec \in OrderSpecs : AcceptOrder(spec) \/ RejectOrder(spec)
    BY <1>2 DEF validate_orders
  <2>3. CASE AcceptOrder(spec)
    BY <2>1, <2>3, AcceptKeeps
  <2>4. CASE RejectOrder(spec)
    <3>1. UNCHANGED <<cumulative_outflows, orders, wrapped>>
      BY <2>4 DEF RejectOrder
    <3> QED BY <2>1, <3>1, RejectKeeps
  <2> QED BY <2>2, <2>3, <2>4
<1>3. CASE Commit
  BY <1>3, CommitKeeps
<1>4. CASE RegisterFill
  BY <1>4, RegisterKeeps
<1>5. CASE RegisterOther
  BY <1>5, RegisterOtherKeeps
<1>6. CASE BatchOver
  BY <1>6, BatchOverKeeps
<1>7. CASE SettlementEnds
  BY <1>7, SettlementKeeps
<1>8. CASE UNCHANGED intakeVars
  BY <1>8 DEF intakeVars, IntakeInv, IntakeTypeOK, Backed, StageInv, CheckedInv, CoveredInv, Covered,
              FittingInv, TextsInv
<1> QED BY <1>1, <1>2, <1>3, <1>4, <1>5, <1>6, <1>7, <1>8 DEF IntakeNext

(* The invariant of the intake holds for every market, every set of texts and any
   number of batches. *)
THEOREM IntakeInvariant == IntakeSpec => []IntakeInv
<1>1. IntakeInit => IntakeInv
  BY IntakeStarts
<1>2. IntakeInv /\ [IntakeNext]_intakeVars => IntakeInv'
  BY IntakeStep
<1> QED BY <1>1, <1>2, PTL DEF IntakeSpec

(* Amounts stay in their words, and a batch never holds more orders than
   commits_per_batch (convert_strategy_orders, compute_outflow). *)
THEOREM IntakeTyped == IntakeSpec => []IntakeTypeOK
<1>1. IntakeInv => IntakeTypeOK
  BY DEF IntakeInv
<1> QED BY <1>1, IntakeInvariant, PTL

(* What validate_orders accepts, register_match can reserve: whatever the balances,
   decimals and markets, however the orders are filled and however the settlements
   of earlier batches end in between, unless an amount did not fit its word or a
   match of two others of the pool took of the same token first. *)
THEOREM AcceptedFillsReserved == IntakeSpec => []FillsReserved
<1>1. IntakeInv => FillsReserved
  <2> SUFFICES ASSUME IntakeInv, wrapped = FALSE, NEW t \in refused PROVE others[t] > 0
    BY DEF FillsReserved, IntakeInv, IntakeTypeOK
  <2>1. t \in Token /\ others[t] \in 0 .. MaxOthers /\ MaxOthers \in Nat
    BY IntakeAssumption DEF IntakeInv, IntakeTypeOK
  <2>2. stage = "match"
    BY DEF IntakeInv, StageInv
  <2>3. others[t] # 0
    BY <2>1, <2>2 DEF IntakeInv, CoveredInv, Covered
  <2> QED BY <2>1, <2>3
<1> QED BY <1>1, IntakeInvariant, PTL

(* parse_decimal_to_fixed never gains: an accepted price or quantity is the number
   of the text, cut off after the last decimal. *)
THEOREM TextsFloored == IntakeSpec => []NothingGained
<1>1. IntakeInv => NothingGained
  <2> SUFFICES ASSUME IntakeInv PROVE NothingGained
    OBVIOUS
  <2>1. DOMAIN orders = 1 .. Len(orders)
    BY LenProperties DEF IntakeInv, IntakeTypeOK
  <2>2. \A i \in 1 .. Len(orders) : AsWritten(orders[i])
    BY DEF IntakeInv, TextsInv
  <2> QED BY <2>1, <2>2 DEF NothingGained, AsWritten
<1> QED BY <1>1, IntakeInvariant, PTL

-----------------------------------------------------------------------------
(* While the answer is looked at nothing is filled. *)
WholeInv == stage = "validate" => \A i \in 1 .. Len(orders) : orders[i].left = orders[i].quantity

(* Every step keeps the orders whole until they are committed. *)
LEMMA WholeStep ==
    ASSUME IntakeInv, WholeInv, [IntakeNext]_intakeVars PROVE WholeInv'
<1>1. CASE convert_strategy_orders
  <2>1. Len(orders') = 0
    BY <1>1 DEF convert_strategy_orders, IntakeInv, StageInv
  <2> QED BY <2>1 DEF WholeInv
<1>2. CASE validate_orders
  <2>1. stage = "validate" /\ stage' = stage
    BY <1>2 DEF validate_orders
  <2>2. PICK spec \in OrderSpecs : AcceptOrder(spec) \/ RejectOrder(spec)
    BY <1>2 DEF validate_orders
  <2>3. CASE AcceptOrder(spec)
    <3> DEFINE o == [spec |-> spec, price |-> convert_order(spec).price,
                     quantity |-> convert_order(spec).quantity, left |-> convert_order(spec).quantity]
    <3>1. orders' = Append(orders, o) /\ Converts(spec)
      BY <2>3 DEF AcceptOrder, Accepted
    <3>2. o \in Orders
      BY <3>1, AcceptedOrder
    <3>3. o.left = o.quantity
      OBVIOUS
    <3> HIDE DEF o
    <3>4. /\ Len(orders) \in Nat /\ Len(orders') = Len(orders) + 1
          /\ \A i \in 1 .. Len(orders) : orders'[i] = orders[i]
          /\ orders'[Len(orders) + 1] = o
      BY <3>1, <3>2, AppendProperties, LenProperties DEF IntakeInv, IntakeTypeOK
    <3>5. \A i \in 1 .. Len(orders') : i \in 1 .. Len(orders) \/ i = Len(orders) + 1
      BY <3>4
    <3>6. \A i \in 1 .. Len(orders) : orders'[i].left = orders'[i].quantity
      BY <2>1, <3>4 DEF WholeInv
    <3> QED BY <3>3, <3>4, <3>5, <3>6 DEF WholeInv
  <2>4. CASE RejectOrder(spec)
    BY <2>1, <2>4 DEF RejectOrder, WholeInv
  <2> QED BY <2>2, <2>3, <2>4
<1>3. CASE Commit \/ RegisterFill \/ RegisterOther \/ BatchOver \/ SettlementEnds
  <2>1. stage' # "validate"
    BY <1>3 DEF Commit, RegisterFill, RegisterOther, BatchOver, SettlementEnds
  <2> QED BY <2>1 DEF WholeInv
<1>4. CASE UNCHANGED intakeVars
  BY <1>4 DEF intakeVars, WholeInv
<1> QED BY <1>1, <1>2, <1>3, <1>4 DEF IntakeNext

(* What the accepted orders cost together, as AcceptedPayable counts it. *)
LEMMA CostIsNeeds ==
    ASSUME NEW s \in Seq(Orders), \A i \in 1 .. Len(s) : s[i].left = s[i].quantity, NEW t
    PROVE  MapThenSumSet(LAMBDA i : Outflow(s[i].spec, s[i].quantity, s[i].price),
                         {i \in DOMAIN s : OutflowToken(s[i].spec) = t}) = Needs(s, t)
<1> DEFINE S == Own(s, t)
           I(f) == f = [u \in SUBSET S |->
                         IF u = {} THEN 0
                         ELSE Outflow(s[FirstOf(u)].spec, s[FirstOf(u)].quantity, s[FirstOf(u)].price)
                              + f[u \ {FirstOf(u)}]]
           F == CHOOSE f : I(f)
<1>1. IsFiniteSet(S) /\ S \in SUBSET (1 .. Len(s)) /\ {i \in DOMAIN s : OutflowToken(s[i].spec) = t} = S
  BY NeedsType, LenProperties DEF Own
<1> HIDE DEF S
<1>2. MapThenSumSet(LAMBDA i : Outflow(s[i].spec, s[i].quantity, s[i].price), S) = F[S]
  BY DEF MapThenSumSet, MapThenFoldSet, FirstOf
<1>3. \A u \in SUBSET S : u # {} =>
        NeedFn(s)[FirstOf(u)]
          = Outflow(s[FirstOf(u)].spec, s[FirstOf(u)].quantity, s[FirstOf(u)].price)
  <2>1. \A u \in SUBSET S : u # {} => FirstOf(u) \in 1 .. Len(s)
    BY <1>1 DEF FirstOf
  <2>2. \A i \in 1 .. Len(s) : NeedFn(s)[i] = Outflow(s[i].spec, s[i].quantity, s[i].price)
    BY DEF NeedFn, NeedOf
  <2> QED BY <2>1, <2>2
<1>4. \A f : I(f) <=> IsSum(f, NeedFn(s), S)
  BY <1>3 DEF IsSum
<1>5. \E f : I(f)
  BY <1>1, <1>4, SumExists
<1>6. IsSum(F, NeedFn(s), S)
  BY <1>4, <1>5
<1> HIDE DEF F
<1>7. F[S] = SumOver(NeedFn(s), S)
  BY <1>1, <1>6, SumIs
<1> QED BY <1>1, <1>2, <1>7 DEF Needs, S

(* The sentence at the head of convert.rs, "Orders validated before signing (pair
   active, price>0, qty≥min, balance)", is true of every batch in which no amount
   wraps: the orders that OrdersPayable.cfg finds accepted and unpaid all come from
   an outflow or a sum beyond a u64. *)
THEOREM PayableUnlessWrapped == IntakeSpec => [](wrapped = FALSE => AcceptedPayable)
<1>1. IntakeInit => WholeInv
  BY DEF IntakeInit, WholeInv
<1>2. IntakeInv /\ WholeInv /\ [IntakeNext]_intakeVars => WholeInv'
  BY WholeStep
<1>3. IntakeInv /\ WholeInv => (wrapped = FALSE => AcceptedPayable)
  <2> SUFFICES ASSUME IntakeInv, WholeInv, wrapped = FALSE, stage = "validate", NEW t \in Token
               PROVE  MapThenSumSet(LAMBDA i : Outflow(orders[i].spec, orders[i].quantity, orders[i].price),
                                    {i \in DOMAIN orders : OutflowToken(orders[i].spec) = t})
                        <= projected_balances[t]
    BY DEF AcceptedPayable
  <2>1. orders \in Seq(Orders) /\ \A i \in 1 .. Len(orders) : orders[i].left = orders[i].quantity
    BY DEF IntakeInv, IntakeTypeOK, WholeInv
  <2>2. MapThenSumSet(LAMBDA i : Outflow(orders[i].spec, orders[i].quantity, orders[i].price),
                      {i \in DOMAIN orders : OutflowToken(orders[i].spec) = t}) = Needs(orders, t)
    BY <2>1, CostIsNeeds
  <2>3. Needs(orders, t) <= projected_balances[t]
    BY DEF IntakeInv, CheckedInv
  <2> QED BY <2>2, <2>3
<1> QED BY <1>1, <1>2, <1>3, IntakeInvariant, PTL DEF IntakeSpec
=============================================================================
