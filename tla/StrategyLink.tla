---------------------------- MODULE StrategyLink ----------------------------
(***************************************************************************)
(* The WebSocket link between the node and its strategy: the acceptor and  *)
(* the handler of the one connection, the three bounded channels behind    *)
(* them, the run loop that asks the strategy for orders and for reveals    *)
(* with a timeout, the token worker that answers token actions, and the    *)
(* settlement worker that shares tx_lock with the token worker.            *)
(*                                                                         *)
(* A message is an answer to an ask or a token action. Asks are numbered,  *)
(* so that an answer can be told from the answer to an earlier ask.        *)
(***************************************************************************)
EXTENDS Naturals, Sequences

CONSTANTS
    Cap,           \* capacity of each channel (32)
    MaxBatch,      \* bound on batches
    MaxTokens,     \* bound on token actions the strategy sends
    MaxNotes       \* bound on chain events the strategy is told about

ASSUME LinkAssumption ==
    Cap \in Nat \ {0} /\ MaxBatch \in Nat \ {0} /\ MaxTokens \in Nat /\ MaxNotes \in Nat

VARIABLES
    events,        \* event channel: node -> handler
    actions,       \* action channel: handler -> run loop (Commit, Reveal)
    tokens,        \* token action channel: number of actions in it
    connected,     \* the watch channel behind is_connected
    handler,       \* step of handle_connection, or "down"
    hold,          \* the message the handler is forwarding
    asked,         \* asks the client has and has not answered
    inbox,         \* what the client has sent and the handler has not read
    loop,          \* step of the run loop
    phase, batch,  \* last_phase, last_batch_id
    commits,       \* published_commits is not empty
    queued,        \* length of sent_events
    asks,          \* asks sent so far
    timeouts,      \* waits that timed out so far
    token_worker,  \* step of token_worker_loop
    settler,       \* step of the settlement worker
    tx_lock,
    spent          \* token actions sent and chain events seen, for the bounds

channels == <<events, actions, tokens>>
server == <<connected, handler, hold, asked, inbox>>
runloop == <<loop, phase, batch, commits, queued, asks, timeouts>>
workers == <<token_worker, settler, tx_lock>>
vars == <<channels, server, runloop, workers, spent>>

MaxAsks == 2 * MaxBatch

Note == [kind |-> "note", ask |-> 0]

Asks == [kind : {"commit", "reveal"}, ask : 1 .. MaxAsks]

Messages == Asks \cup {[kind |-> "token", ask |-> 0]}

LinkTypeOK ==
    /\ events \in Seq(Asks \cup {Note}) /\ Len(events) <= Cap
    /\ actions \in Seq(Asks) /\ Len(actions) <= Cap
    /\ tokens \in 0 .. Cap
    /\ connected \in BOOLEAN
    /\ handler \in {"down", "auth", "drain", "relay", "fwd_action", "fwd_token"}
    /\ hold \in Messages \cup {Note}
    /\ asked \in Seq(Asks) /\ inbox \in Seq(Messages)
    /\ loop \in {"idle", "ask_commit", "wait_commit", "ask_reveal", "wait_reveal", "tell_match", "drain"}
    /\ phase \in {"commit", "reveal", "match", "swap"}
    /\ batch \in 0 .. MaxBatch
    /\ commits \in BOOLEAN
    /\ queued \in 0 .. MaxNotes + 2
    /\ asks \in 0 .. MaxAsks /\ timeouts \in 0 .. asks
    /\ token_worker \in {"idle", "lock", "submit", "notify"}
    /\ settler \in {"idle", "lock", "submit"}
    /\ tx_lock \in {"free", "token", "settle"}
    /\ spent \in [tokens : 0 .. MaxTokens, notes : 0 .. MaxNotes]

Init ==
    /\ events = <<>> /\ actions = <<>> /\ tokens = 0
    /\ connected = FALSE /\ handler = "down" /\ hold = Note /\ asked = <<>> /\ inbox = <<>>
    /\ loop = "idle" /\ phase = "swap" /\ batch = 0 /\ commits = FALSE
    /\ queued = 0 /\ asks = 0 /\ timeouts = 0
    /\ token_worker = "idle" /\ settler = "idle" /\ tx_lock = "free"
    /\ spent = [tokens |-> 0, notes |-> 0]

-----------------------------------------------------------------------------
(***************************************************************************)
(* Channels and the acceptor.                                              *)
(***************************************************************************)

(* Mutant: an unbounded channel. *)
SendAnyway(e) == events' = Append(events, e)

(* mpsc::Sender::send waits until there is room. *)
send_event(e) == Len(events) < Cap /\ events' = Append(events, e)

NewSession(step) ==
    /\ handler' = step
    /\ connected' = FALSE
    /\ hold' = Note /\ asked' = <<>> /\ inbox' = <<>>

(* Mutant: while a connection is up, another one is turned away. *)
FirstStays == IF handler = "down" THEN NewSession("auth") ELSE UNCHANGED server

(* The handler of the previous connection is aborted wherever it is (CD-15). *)
Replaces == NewSession("auth")

acceptor_loop == Replaces /\ UNCHANGED <<channels, runloop, workers, spent>>

(* No message in 5 seconds, or one that is not an auth with the right token. *)
AuthFailed ==
    /\ handler = "auth"
    /\ NewSession("down")
    /\ UNCHANGED <<channels, runloop, workers, spent>>

AuthOk ==
    /\ handler = "auth"
    /\ handler' = "drain"
    /\ connected' = TRUE
    /\ UNCHANGED <<hold, asked, inbox, channels, runloop, workers, spent>>

(* Events of the time without a client are thrown away; so is what the node sent
   after it saw connected. *)
DrainStale ==
    /\ handler = "drain"
    /\ handler' = "relay"
    /\ events' = <<>>
    /\ UNCHANGED <<actions, tokens, connected, hold, asked, inbox, runloop, workers, spent>>

-----------------------------------------------------------------------------
(***************************************************************************)
(* The relay loop and the client.                                          *)
(***************************************************************************)

ForwardEvent ==
    /\ handler = "relay" /\ events # <<>>
    /\ events' = Tail(events)
    /\ asked' = IF Head(events) \in Asks THEN Append(asked, Head(events)) ELSE asked
    /\ UNCHANGED <<actions, tokens, connected, handler, hold, inbox, runloop, workers, spent>>

(* Close, an error, or a ping that cannot be sent. A handler that waits for room
   in a channel does not see it. *)
ConnectionLost ==
    /\ handler \in {"drain", "relay"}
    /\ NewSession("down")
    /\ UNCHANGED <<channels, runloop, workers, spent>>

is_token_action(m) == m.kind = "token"

(* from_json parsed the message; it goes into the channel of its kind. *)
ReadMessage ==
    /\ handler = "relay" /\ inbox # <<>>
    /\ inbox' = Tail(inbox)
    /\ hold' = Head(inbox)
    /\ handler' = IF is_token_action(Head(inbox)) THEN "fwd_token" ELSE "fwd_action"
    /\ UNCHANGED <<connected, asked, channels, runloop, workers, spent>>

ForwardAction ==
    /\ handler = "fwd_action" /\ Len(actions) < Cap
    /\ actions' = Append(actions, hold)
    /\ handler' = "relay" /\ hold' = Note
    /\ UNCHANGED <<events, tokens, connected, asked, inbox, runloop, workers, spent>>

ForwardToken ==
    /\ handler = "fwd_token" /\ tokens < Cap
    /\ tokens' = tokens + 1
    /\ handler' = "relay" /\ hold' = Note
    /\ UNCHANGED <<events, actions, connected, asked, inbox, runloop, workers, spent>>

(* The client answers each ask at most once and in the order it was asked, sooner or
   later; an answer it does not give is like one from_json refuses. This is an
   assumption on the bot: the server forwards a Commit or Reveal nobody asked for,
   or a second one, just the same. *)
ClientAnswer ==
    /\ asked # <<>>
    /\ asked' = Tail(asked)
    /\ inbox' \in {inbox, Append(inbox, Head(asked))}
    /\ UNCHANGED <<connected, handler, hold, channels, runloop, workers, spent>>

ClientToken ==
    /\ connected /\ spent.tokens < MaxTokens
    /\ inbox' = Append(inbox, [kind |-> "token", ask |-> 0])
    /\ spent' = [spent EXCEPT !.tokens = @ + 1]
    /\ UNCHANGED <<connected, handler, hold, asked, channels, runloop, workers>>

-----------------------------------------------------------------------------
(***************************************************************************)
(* The run loop: one block per phase.                                      *)
(***************************************************************************)

(* The next phase begins; on_chain_event may queue an event, and the phase
   handler queues `more`. *)
Enter(from, to, step, more) ==
    /\ loop = "idle" /\ phase = from
    /\ phase' = to
    /\ loop' = step
    /\ \E n \in {0, 1} :
        /\ spent.notes + n <= MaxNotes
        /\ spent' = [spent EXCEPT !.notes = @ + n]
        /\ queued' = queued + n + more
    /\ UNCHANGED <<asks, timeouts, channels, server, workers>>

(* With an order book to fill and a client the loop asks; without a client the
   commit phase queues its notice of a timeout. *)
EnterCommit ==
    /\ batch < MaxBatch
    /\ batch' = batch + 1
    /\ commits' = FALSE
    /\ \E can_commit \in BOOLEAN :
        Enter("swap", "commit", IF can_commit /\ connected THEN "ask_commit" ELSE "drain",
              IF can_commit /\ ~connected THEN 1 ELSE 0)

EnterReveal ==
    /\ Enter("commit", "reveal", IF commits /\ connected THEN "ask_reveal" ELSE "drain", 0)
    /\ UNCHANGED <<batch, commits>>

EnterMatch ==
    /\ Enter("reveal", "match", IF connected THEN "tell_match" ELSE "drain", 0)
    /\ UNCHANGED <<batch, commits>>

EnterSwap == Enter("match", "swap", "drain", 0) /\ UNCHANGED <<batch, commits>>

Ask(kind, step, wait) ==
    /\ loop = step
    /\ send_event([kind |-> kind, ask |-> asks + 1])
    /\ asks' = asks + 1
    /\ loop' = wait
    /\ UNCHANGED <<phase, batch, commits, queued, timeouts, actions, tokens, server, workers, spent>>

SendBatchStart == Ask("commit", "ask_commit", "wait_commit")

(* Mutant: the loop reveals without waiting for the answer. *)
RevealAtOnce == Ask("reveal", "ask_reveal", "drain")

SendRevealStart == Ask("reveal", "ask_reveal", "wait_reveal")

(* Orders to commit; anything else, and orders that validate_orders rejects to
   the last, end in the notice of a timeout. *)
ReceiveCommit ==
    /\ loop = "wait_commit" /\ actions # <<>>
    /\ actions' = Tail(actions)
    /\ commits' \in (IF Head(actions).kind = "commit" THEN BOOLEAN ELSE {FALSE})
    /\ queued' = IF commits' THEN queued ELSE queued + 1
    /\ loop' = "drain"
    /\ UNCHANGED <<phase, batch, asks, timeouts, events, tokens, server, workers, spent>>

(* Anything but a Reveal: reveal all. *)
ReceiveReveal ==
    /\ loop = "wait_reveal" /\ actions # <<>>
    /\ actions' = Tail(actions)
    /\ loop' = "drain"
    /\ UNCHANGED <<phase, batch, commits, queued, asks, timeouts, events, tokens, server, workers, spent>>

(* 3 seconds for the orders, 5 for the reveals. *)
receive_action_timeout ==
    /\ loop \in {"wait_commit", "wait_reveal"} /\ actions = <<>>
    /\ timeouts' = timeouts + 1
    /\ queued' = IF loop = "wait_commit" THEN queued + 1 ELSE queued
    /\ loop' = "drain"
    /\ UNCHANGED <<phase, batch, commits, asks, channels, server, workers, spent>>

SendMatchResult ==
    /\ loop = "tell_match"
    /\ send_event(Note)
    /\ loop' = "drain"
    /\ UNCHANGED <<phase, batch, commits, queued, asks, timeouts, actions, tokens, server, workers, spent>>

(* The queued events go out one by one, with a client or without. *)
drain_strategy_events ==
    /\ loop = "drain"
    /\ \/ queued > 0 /\ send_event(Note) /\ queued' = queued - 1 /\ UNCHANGED loop
       \/ queued = 0 /\ loop' = "idle" /\ UNCHANGED <<queued, events>>
    /\ UNCHANGED <<phase, batch, commits, asks, timeouts, actions, tokens, server, workers, spent>>

-----------------------------------------------------------------------------
(***************************************************************************)
(* The workers.                                                            *)
(***************************************************************************)

TokenTake ==
    /\ token_worker = "idle" /\ tokens > 0
    /\ tokens' = tokens - 1
    /\ token_worker' = "lock"
    /\ UNCHANGED <<events, actions, settler, tx_lock, server, runloop, spent>>

TokenLock ==
    /\ token_worker = "lock" /\ tx_lock = "free"
    /\ tx_lock' = "token"
    /\ token_worker' = "submit"
    /\ UNCHANGED <<settler, channels, server, runloop, spent>>

TokenSubmit ==
    /\ token_worker = "submit"
    /\ token_worker' = "notify"
    /\ UNCHANGED <<settler, tx_lock, channels, server, runloop, spent>>

(* Mutant: the lock is kept until the next action. *)
KeepGuard == UNCHANGED tx_lock

DropGuard == tx_lock' = "free"

(* The result is sent while the lock is held. *)
notify ==
    /\ token_worker = "notify"
    /\ send_event(Note)
    /\ token_worker' = "idle"
    /\ DropGuard
    /\ UNCHANGED <<settler, actions, tokens, server, runloop, spent>>

SettleRequest ==
    /\ settler = "idle"
    /\ settler' = "lock"
    /\ UNCHANGED <<token_worker, tx_lock, channels, server, runloop, spent>>

SettleLock ==
    /\ settler = "lock" /\ tx_lock = "free"
    /\ tx_lock' = "settle"
    /\ settler' = "submit"
    /\ UNCHANGED <<token_worker, channels, server, runloop, spent>>

SettleSubmit ==
    /\ settler = "submit"
    /\ settler' = "idle"
    /\ tx_lock' = "free"
    /\ UNCHANGED <<token_worker, channels, server, runloop, spent>>

-----------------------------------------------------------------------------
HandlerStep ==
    \/ AuthFailed \/ AuthOk \/ DrainStale \/ ForwardEvent \/ ReadMessage
    \/ ForwardAction \/ ForwardToken

ClientStep == acceptor_loop \/ ConnectionLost \/ ClientAnswer \/ ClientToken

LoopStep ==
    \/ EnterCommit \/ EnterReveal \/ EnterMatch \/ EnterSwap
    \/ SendBatchStart \/ SendRevealStart \/ SendMatchResult
    \/ ReceiveCommit \/ ReceiveReveal \/ receive_action_timeout
    \/ drain_strategy_events

TokenStep == TokenTake \/ TokenSubmit \/ notify

Next ==
    \/ HandlerStep \/ ClientStep \/ LoopStep
    \/ TokenStep \/ TokenLock
    \/ SettleRequest \/ SettleLock \/ SettleSubmit

Spec == Init /\ [][Next]_vars

(* The node's tasks are scheduled, and its lock is fair; nobody connects unless
   somebody wants to. *)
NodeFair ==
    /\ WF_vars(LoopStep) /\ WF_vars(HandlerStep) /\ WF_vars(TokenStep) /\ WF_vars(SettleSubmit)
    /\ SF_vars(TokenLock) /\ SF_vars(SettleLock)

FairSpec == Spec /\ NodeFair

(* A strategy whose connection is gone or answers nothing any more connects
   again, and it has the token. *)
Stuck == handler \in {"down", "fwd_action", "fwd_token"}

ClientFair == WF_vars(Stuck /\ acceptor_loop) /\ SF_vars(AuthOk) /\ SF_vars(DrainStale)

LiveSpec == FairSpec /\ ClientFair

-----------------------------------------------------------------------------
(***************************************************************************)
(* Properties.                                                             *)
(***************************************************************************)

(* An answer the loop reads may be the answer to an earlier ask: one that came
   after its wait had timed out stays in the channel. It is never further behind
   than the number of waits that timed out, whatever connections came and went;
   so the first timeout of a session is what puts the two out of step, and
   nothing else does. *)
LagBounded ==
    [][actions # <<>> /\ loop \in {"wait_commit", "wait_reveal"} /\ loop' = "drain"
        => asks - Head(actions).ask <= timeouts]_vars

(* The run loop comes back from its phase handler, to see the next block and to
   send its heartbeat ("Timeout = skip, never block"). *)
LoopReturns == loop # "idle" ~> loop = "idle"

(* The settlement worker gets the transaction lock, although the token worker
   holds it while it waits for room in the event channel. *)
SettleReturns == settler = "lock" ~> settler = "idle"
=============================================================================
