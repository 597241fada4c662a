------------------------------ MODULE HeldFunds ------------------------------
(***************************************************************************)
(* What the settlement pipeline promises its caller, without queues,       *)
(* workers or maps: a balance per token, the set of matches whose outflow  *)
(* is held, the set of trades that happened on chain and those of them     *)
(* whose event has not been read.                                          *)
(*   - an outflow is held only if it fits into what is still available;    *)
(*   - the balance grows only by the inflow of a held match when the event *)
(*     of a trade that happened on chain is read, the two being alike in   *)
(*     all the event reports; the hold ends with it, and an event that was *)
(*     read or missed never counts again;                                  *)
(*   - a hold may end without a credit (abort or expiry).                  *)
(***************************************************************************)
EXTENDS Integers

CONSTANTS Token, Match, OutToken(_), OutAmount(_), InToken(_), InAmount(_),
          SumOut(_),    \* total outflow of a set of matches
          Reported(_)   \* what the event of a trade reports

VARIABLES balance, held, marked, happened, unread

heldVars == <<balance, held, marked, happened, unread>>

HeldIn(t) == {m \in held : OutToken(m) = t}

Available(t) ==
  LET afterHolds == IF SumOut(HeldIn(t)) <= balance[t]
                    THEN balance[t] - SumOut(HeldIn(t)) ELSE 0
  IN IF marked[t] <= afterHolds THEN afterHolds - marked[t] ELSE 0

Init ==
  /\ balance \in [Token -> Nat]
  /\ held = {}
  /\ marked = [t \in Token |-> 0]
  /\ happened = {} /\ unread = {}

Hold(m) ==
  /\ m \notin held
  /\ OutAmount(m) <= Available(OutToken(m))
  /\ held' = held \union {m}
  /\ UNCHANGED <<balance, marked, happened, unread>>

Credit(m, e) ==
  /\ m \in held /\ e \in unread
  /\ Reported(m) = Reported(e)
  /\ unread' = unread \ {e}
  /\ balance' = [balance EXCEPT ![InToken(m)] = @ + InAmount(m)]
  /\ held' = held \ {m}
  /\ UNCHANGED <<marked, happened>>

Return(S) ==
  /\ held' = held \ S
  /\ UNCHANGED <<balance, marked, happened, unread>>

\* A trade happens at most once.
Happen(m) ==
  /\ m \notin happened
  /\ happened' = happened \union {m}
  /\ unread' = unread \union {m}
  /\ UNCHANGED <<balance, held, marked>>

\* Events are read without effect, or never read.
Miss ==
  /\ unread' \subseteq unread
  /\ UNCHANGED <<balance, held, marked, happened>>

Mark(t) ==
  LET amount == marked'[t] - marked[t] IN
  /\ amount \in Nat
  /\ amount <= Available(t)
  /\ marked' = [marked EXCEPT ![t] = @ + amount]
  /\ UNCHANGED <<balance, held, happened, unread>>

Unmark(t, executed) ==
  /\ marked' = [marked EXCEPT ![t] = 0]
  /\ balance' = IF executed
                THEN [balance EXCEPT ![t] = IF marked[t] <= @
                                            THEN @ - marked[t] ELSE 0]
                ELSE balance
  /\ UNCHANGED <<held, happened, unread>>

\* A restart forgets every hold and every event, and reads the balances again.
Reseed ==
  /\ balance' \in [Token -> Nat]
  /\ held' = {}
  /\ marked' = [t \in Token |-> 0]
  /\ unread' = {}
  /\ UNCHANGED happened

Next ==
  \/ \E m \in Match : Hold(m) \/ Happen(m)
  \/ \E m, e \in Match : Credit(m, e)
  \/ Miss
  \/ \E S \in SUBSET Match : Return(S)
  \/ \E t \in Token : Mark(t)
  \/ \E t \in Token, x \in BOOLEAN : Unmark(t, x)
  \/ Reseed

Spec == Init /\ [][Next]_heldVars
=============================================================================
