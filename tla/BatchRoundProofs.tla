--------------------------- MODULE BatchRoundProofs ---------------------------
(***************************************************************************)
(* Machine-checked facts about the commit-reveal-match round, for every    *)
(* set of nodes, pool assignment, batch layout, window and limit, and      *)
(* whatever other participants publish.                                    *)
(***************************************************************************)
EXTENDS BatchRound, SequenceTheorems, FiniteSetTheorems, TLAPS

InputTyped == input \in [Node -> [batch : Batch \union {0}, orders : Seq(Order)]]

\* The validator's batch is one the loop has seen; a skip leaves it behind.
ValidatorBehind == \A n \in Node : vbatch[n] <= BatchAt(block[n])

\* What a node has committed is its own and published.
OwnCommitted ==
  \A n \in Node : \A o \in ToSet(committed[n]) : o.nft = n /\ Committed(o)

\* A node's signature is only ever seen on an order the node has committed.
NetHonest ==
  \A r \in net : SignedReveal(r) /\ r.order.nft \in Node => Committed(r.order)

\* A node stores what was revealed for the batch it stores it in.
StoreHonest ==
  \A n \in Node : \A b \in Batch : \A o \in ToSet(inbound_reveals[n][b]) : Revealed(o, b)

\* An NFT is queued since the last fetch or later.
QueuedSince ==
  \A n \in Node : /\ last_fetch[n] <= vbatch[n]
                  /\ \A p \in unknown[n] : last_fetch[n] <= heard_at[n][p]

TypeInv == RoundTypeOK /\ InputTyped

NetInv == ValidatorBehind /\ OwnCommitted /\ NetHonest /\ StoreHonest /\ InputAuthentic

StoreInv == SeenIsStored /\ CountsMatchStore

KeyInv == QueuedSince /\ KeyFetchedInTime

\* The inductive invariant.
RoundInv == TypeInv /\ NetInv /\ StoreInv /\ KeyInv

-----------------------------------------------------------------------------
(* Batches, sequences and counts.                                          *)

\* Integer division by a fixed divisor never goes down.
LEMMA DivMono ==
    ASSUME NEW B \in Nat \ {0}, NEW h \in Nat, NEW k \in Nat, h <= k
    PROVE  h \div B \in Nat /\ h \div B <= k \div B
BY Z3

\* compute_batch_id never goes down as blocks go up.
LEMMA BatchMono ==
    /\ Batch \subseteq Nat
    /\ \A h \in Block : BatchAt(h) \in Batch
    /\ \A h, k \in Block : h <= k => BatchAt(h) <= BatchAt(k)
<1>1. FirstBatch \in Nat /\ MaxBlock \in Nat /\ BlocksPerBatch \in Nat \ {0}
  BY RoundAssumption
<1>2. \A h, k \in Nat : h <= k => h \div BlocksPerBatch \in Nat
                                  /\ h \div BlocksPerBatch <= k \div BlocksPerBatch
  BY <1>1, DivMono
<1>3. MaxBlock \div BlocksPerBatch \in Nat
  BY <1>1, <1>2
<1>4. \A h \in Block : h \in Nat /\ h <= MaxBlock
  BY <1>1 DEF Block
<1>5. \A h, k \in Block : h <= k => BatchAt(h) <= BatchAt(k)
  <2> SUFFICES ASSUME NEW h \in Block, NEW k \in Block, h <= k PROVE BatchAt(h) <= BatchAt(k)
    OBVIOUS
  <2>1. h \div BlocksPerBatch \in Nat /\ k \div BlocksPerBatch \in Nat
        /\ h \div BlocksPerBatch <= k \div BlocksPerBatch
    BY <1>2, <1>4
  <2> QED BY <1>1, <2>1 DEF BatchAt
<1>6. \A h \in Block : BatchAt(h) \in Batch
  <2> SUFFICES ASSUME NEW h \in Block PROVE BatchAt(h) \in Batch
    OBVIOUS
  <2>1. h \div BlocksPerBatch \in Nat /\ h \div BlocksPerBatch <= MaxBlock \div BlocksPerBatch
    BY <1>1, <1>2, <1>4
  <2> QED BY <1>1, <1>3, <2>1 DEF BatchAt, Batch
<1>7. Batch \subseteq Nat
  BY <1>1, <1>3 DEF Batch, BatchAt
<1> QED BY <1>5, <1>6, <1>7

\* The orders a node holds for a batch are a pool (what the strategy handed it).
LEMMA PoolType == \A n \in Node, b \in Batch : PoolOf[n][b] \in Pool
BY DEF Pool

\* The elements of a store after one was appended, and of two stores together.
LEMMA AppendSet ==
    ASSUME NEW S, NEW s \in Seq(S), NEW e \in S
    PROVE  Append(s, e) \in Seq(S) /\ ToSet(Append(s, e)) = ToSet(s) \union {e}
<1>1. /\ Append(s, e) \in Seq(S) /\ Len(s) \in Nat
      /\ DOMAIN s = 1 .. Len(s) /\ DOMAIN Append(s, e) = 1 .. Len(s) + 1
      /\ \A i \in 1 .. Len(s) : Append(s, e)[i] = s[i]
      /\ Append(s, e)[Len(s) + 1] = e
  BY LenProperties, AppendProperties
<1>2. ASSUME NEW x \in ToSet(Append(s, e)) PROVE x \in ToSet(s) \union {e}
  <2>1. PICK i \in 1 .. Len(s) + 1 : x = Append(s, e)[i]
    BY <1>1 DEF ToSet
  <2>2. CASE i \in 1 .. Len(s)
    BY <1>1, <2>1, <2>2 DEF ToSet
  <2>3. CASE i = Len(s) + 1
    BY <1>1, <2>1, <2>3
  <2> QED BY <1>1, <2>2, <2>3
<1>3. ASSUME NEW x \in ToSet(s) PROVE x \in ToSet(Append(s, e))
  <2>1. PICK i \in 1 .. Len(s) : x = s[i]
    BY <1>1 DEF ToSet
  <2>2. i \in 1 .. Len(s) + 1 /\ x = Append(s, e)[i]
    BY <1>1, <2>1
  <2> QED BY <1>1, <2>2 DEF ToSet
<1>4. e \in ToSet(Append(s, e))
  <2>1. Len(s) + 1 \in 1 .. Len(s) + 1
    BY <1>1
  <2> QED BY <1>1, <2>1 DEF ToSet
<1> QED BY <1>1, <1>2, <1>3, <1>4

\* A concatenation holds nothing that neither part holds.
LEMMA ConcatSet ==
    ASSUME NEW S, NEW s \in Seq(S), NEW t \in Seq(S)
    PROVE  s \o t \in Seq(S) /\ ToSet(s \o t) \subseteq ToSet(s) \union ToSet(t)
<1>1. /\ s \o t \in Seq(S) /\ Len(s) \in Nat /\ Len(t) \in Nat
      /\ DOMAIN s = 1 .. Len(s) /\ DOMAIN t = 1 .. Len(t)
      /\ DOMAIN (s \o t) = 1 .. Len(s) + Len(t)
      /\ \A i \in 1 .. Len(s) + Len(t) :
           (s \o t)[i] = IF i <= Len(s) THEN s[i] ELSE t[i - Len(s)]
  BY LenProperties, ConcatProperties
<1>2. ASSUME NEW x \in ToSet(s \o t) PROVE x \in ToSet(s) \union ToSet(t)
  <2>1. PICK i \in 1 .. Len(s) + Len(t) : x = (s \o t)[i]
    BY <1>1 DEF ToSet
  <2>2. CASE i <= Len(s)
    BY <1>1, <2>1, <2>2 DEF ToSet
  <2>3. CASE i > Len(s)
    <3>1. i - Len(s) \in 1 .. Len(t) /\ x = t[i - Len(s)]
      BY <1>1, <2>1, <2>3
    <3> QED BY <1>1, <3>1 DEF ToSet
  <2> QED BY <1>1, <2>2, <2>3
<1> QED BY <1>1, <1>2

\* How many elements of a store a sender has, before and after an append.
LEMMA FromAppend ==
    ASSUME NEW S, NEW s \in Seq(S), NEW e \in S, NEW p
    PROVE  /\ From(p, s) \in Nat
           /\ From(p, Append(s, e)) = From(p, s) + (IF e.nft = p THEN 1 ELSE 0)
<1> DEFINE A == {i \in DOMAIN s : s[i].nft = p}
           B == {i \in DOMAIN Append(s, e) : Append(s, e)[i].nft = p}
<1>1. /\ Len(s) \in Nat /\ DOMAIN s = 1 .. Len(s) /\ DOMAIN Append(s, e) = 1 .. Len(s) + 1
      /\ \A i \in 1 .. Len(s) : Append(s, e)[i] = s[i]
      /\ Append(s, e)[Len(s) + 1] = e
  BY LenProperties, AppendProperties
<1>2. IsFiniteSet(A) /\ Cardinality(A) \in Nat
  <2>1. IsFiniteSet(1 .. Len(s))
    BY <1>1, FS_Interval
  <2>2. A \subseteq 1 .. Len(s)
    BY <1>1
  <2> HIDE DEF A
  <2> QED BY <2>1, <2>2, FS_Subset, FS_CardinalityType
<1>3. Len(s) + 1 \notin A
  BY <1>1
<1>4. CASE e.nft = p
  <2>1. B = A \union {Len(s) + 1}
    BY <1>1, <1>4
  <2> HIDE DEF A, B
  <2>2. Cardinality(B) = Cardinality(A) + 1
    BY <1>2, <1>3, <2>1, FS_AddElement
  <2> QED BY <1>2, <1>4, <2>2 DEF From, A, B
<1>5. CASE e.nft # p
  <2>1. B = A
    BY <1>1, <1>5
  <2>2. From(p, s) = Cardinality(A) /\ From(p, Append(s, e)) = Cardinality(B)
    BY DEF From
  <2> HIDE DEF A, B
  <2> QED BY <1>2, <1>5, <2>1, <2>2
<1> QED BY <1>4, <1>5

\* An empty store holds no message of anybody.
LEMMA FromEmpty == \A p : From(p, <<>>) = 0
<1> SUFFICES ASSUME NEW p PROVE From(p, <<>>) = 0
  OBVIOUS
<1>1. {i \in DOMAIN <<>> : <<>>[i].nft = p} = {}
  OBVIOUS
<1> QED BY <1>1, FS_EmptySet DEF From

\* The empty store has no element and is a sequence over any set.
LEMMA EmptyStore == ToSet(<<>>) = {} /\ \A S : <<>> \in Seq(S)
<1>1. \A S : <<>> \in Seq(S)
  BY EmptySeq
<1> QED BY <1>1 DEF ToSet

-----------------------------------------------------------------------------
(* The initial state.                                                      *)

\* A node starts with empty stores, dedup sets and limiter.
LEMMA InitInv == Init => RoundInv
<1> SUFFICES ASSUME Init PROVE RoundInv
  OBVIOUS
<1>1. /\ StartBlock \in Block /\ BatchAt(StartBlock) \in Batch /\ Batch \subseteq Nat
      /\ PUBKEY_FETCH_INTERVAL \in Nat \ {0} /\ MAX_MSGS_PER_NFT_PER_BATCH \in Nat
  BY RoundAssumption, BatchMono DEF Block
<1>2. <<>> \in Seq(Order)
  BY EmptyStore
<1>3. RoundTypeOK
  <2>1. /\ my_pool \in [Node -> Pool] /\ topics \in [Node -> SUBSET Pool]
        /\ block \in [Node -> Block] /\ vbatch \in [Node -> Batch]
        /\ heard_at \in [Node -> [Nft -> Batch]]
    BY <1>1, PoolType DEF Init
  <2>2. /\ committed \in [Node -> Seq(Order)]
        /\ inbound_commits \in [Node -> [Batch -> Seq(Order)]]
        /\ inbound_reveals \in [Node -> [Batch -> Seq(Order)]]
    BY <1>2 DEF Init
  <2>3. \A n \in Node : input[n].batch \in Batch \union {0} /\ input[n].orders \in Seq(Order)
    BY <1>2 DEF Init, NoInput
  <2>4. /\ net \subseteq CommitMessage \union RevealMessage
        /\ stage \in [Node -> {"wait", "phase"}]
        /\ seen_commits \in [Node -> SUBSET Order] /\ seen_reveals \in [Node -> SUBSET Order]
        /\ msg_counts \in [Node -> [Nft -> [Batch -> 0..MAX_MSGS_PER_NFT_PER_BATCH]]]
        /\ known \in [Node -> SUBSET Nft] /\ unknown \in [Node -> SUBSET Nft]
        /\ \A n \in Node : known[n] \intersect unknown[n] = {}
        /\ last_fetch \in [Node -> Batch \union {0}]
    BY <1>1 DEF Init
  <2> QED BY <2>1, <2>2, <2>3, <2>4, Zenon DEF RoundTypeOK
<1>4. InputTyped
  BY <1>2 DEF Init, NoInput, InputTyped
<1>5. /\ \A n \in Node : ToSet(committed[n]) = {} /\ ToSet(input[n].orders) = {}
      /\ \A n \in Node, b \in Batch : ToSet(inbound_reveals[n][b]) = {}
  BY EmptyStore DEF Init, NoInput
<1>6. NetInv
  <2>1. ValidatorBehind
    <3> SUFFICES ASSUME NEW n \in Node PROVE vbatch[n] <= BatchAt(block[n])
      BY DEF ValidatorBehind
    <3>1. vbatch[n] = BatchAt(StartBlock) /\ block[n] = StartBlock
      BY DEF Init
    <3>2. BatchAt(StartBlock) \in Nat
      BY <1>1
    <3> QED BY <3>1, <3>2
  <2>2. OwnCommitted /\ StoreHonest /\ InputAuthentic
    BY <1>5 DEF OwnCommitted, StoreHonest, InputAuthentic
  <2>3. NetHonest
    BY DEF Init, NetHonest
  <2> QED BY <2>1, <2>2, <2>3 DEF NetInv
<1>7. SeenIsStored
  BY DEF Init, SeenIsStored
<1>8. CountsMatchStore
  BY FromEmpty DEF Init, CountsMatchStore
<1>9. KeyInv
  <2>1. \A n \in Node : last_fetch[n] = 0 /\ vbatch[n] \in Nat /\ unknown[n] = {}
    BY <1>1 DEF Init
  <2> QED BY <2>1 DEF KeyInv, QueuedSince, KeyFetchedInTime
<1> QED BY <1>3, <1>4, <1>6, <1>7, <1>8, <1>9 DEF RoundInv, TypeInv, StoreInv

-----------------------------------------------------------------------------
(* A message is delivered.                                                 *)

\* A message of the network is of its kind and of known parts.
LEMMA MessageType ==
    ASSUME RoundTypeOK, NEW m \in net
    PROVE  /\ m.batch \in Batch /\ m.order \in Order /\ m.order.nft \in Nft /\ m.pool \in Pool
           /\ m.kind \in {"commit", "reveal"}
BY DEF RoundTypeOK, CommitMessage, RevealMessage, Order

\* The limiter's count of one sender and batch goes up by one.
LEMMA CountType ==
    ASSUME RoundTypeOK, NEW n \in Node, NEW m \in net, UnderRateLimit(n, m), Count(n, m)
    PROVE  /\ msg_counts' \in [Node -> [Nft -> [Batch -> 0..MAX_MSGS_PER_NFT_PER_BATCH]]]
           /\ \A q \in Node, p \in Nft, b \in Batch :
                msg_counts'[q][p][b] =
                  msg_counts[q][p][b]
                    + (IF q = n /\ p = m.order.nft /\ b = m.batch THEN 1 ELSE 0)
<1> DEFINE r == m.order.nft
           c == m.batch
           x == msg_counts[n][r][c]
<1>0. r \in Nft /\ c \in Batch
  BY MessageType
<1>1. /\ msg_counts \in [Node -> [Nft -> [Batch -> 0..MAX_MSGS_PER_NFT_PER_BATCH]]]
      /\ MAX_MSGS_PER_NFT_PER_BATCH \in Nat
  BY RoundAssumption DEF RoundTypeOK
<1>2. x \in 0..MAX_MSGS_PER_NFT_PER_BATCH /\ x < MAX_MSGS_PER_NFT_PER_BATCH
  BY <1>0, <1>1 DEF UnderRateLimit
<1>3. x + 1 \in 0..MAX_MSGS_PER_NFT_PER_BATCH
  BY <1>1, <1>2
<1>4. msg_counts' = [msg_counts EXCEPT ![n] = [msg_counts[n] EXCEPT ![r] =
                        [msg_counts[n][r] EXCEPT ![c] = x + 1]]]
  BY DEF Count
<1> HIDE DEF r, c, x
<1>5. msg_counts' \in [Node -> [Nft -> [Batch -> 0..MAX_MSGS_PER_NFT_PER_BATCH]]]
  BY <1>0, <1>1, <1>3, <1>4
<1>6. ASSUME NEW q \in Node, NEW p \in Nft, NEW b \in Batch
      PROVE  msg_counts'[q][p][b] =
               msg_counts[q][p][b] + (IF q = n /\ p = r /\ b = c THEN 1 ELSE 0)
  <2>1. CASE q = n /\ p = r /\ b = c
    BY <1>0, <1>1, <1>4, <2>1 DEF x
  <2>2. CASE ~(q = n /\ p = r /\ b = c)
    <3>1. msg_counts'[q][p][b] = msg_counts[q][p][b]
      BY <1>0, <1>1, <1>4, <2>2
    <3>2. msg_counts[q][p][b] \in Nat
      BY <1>1
    <3> QED BY <2>2, <3>1, <3>2
  <2> QED BY <2>1, <2>2
<1> QED BY <1>5, <1>6 DEF r, c

\* An order is appended to one batch of one node's store.
Stashed(st, n, c, o) == [st EXCEPT ![n][c] = Append(st[n][c], o)]

Stores == [Node -> [Batch -> Seq(Order)]]

StashedIn(t, st, n, c, o) ==
  /\ t \in Stores
  /\ t[n][c] = Append(st[n][c], o)
  /\ \A q \in Node, b \in Batch : q # n \/ b # c => t[q][b] = st[q][b]
  /\ \A q \in Node, b \in Batch : ToSet(st[q][b]) \subseteq ToSet(t[q][b])
  /\ \A q \in Node, p \in Nft, b \in Batch :
       From(p, t[q][b]) = From(p, st[q][b])
         + (IF q = n /\ p = o.nft /\ b = c THEN 1 ELSE 0)

\* Storing an inbound message gives a store with that message added.
LEMMA StoreType ==
    ASSUME NEW st \in Stores, NEW n \in Node, NEW c \in Batch, NEW o \in Order
    PROVE  StashedIn(Stashed(st, n, c, o), st, n, c, o)
<1>0. st \in [Node -> [Batch -> Seq(Order)]]
  BY DEF Stores
<1> DEFINE st2 == Stashed(st, n, c, o)
<1>1. st[n][c] \in Seq(Order)
  BY <1>0
<1>2. Append(st[n][c], o) \in Seq(Order)
      /\ ToSet(Append(st[n][c], o)) = ToSet(st[n][c]) \union {o}
  BY <1>1, AppendSet
<1>3. st2 = [st EXCEPT ![n] = [st[n] EXCEPT ![c] = Append(st[n][c], o)]]
  BY DEF Stashed
<1> DEFINE a == Append(st[n][c], o)
           SO == Seq(Order)
<1>4. st \in [Node -> [Batch -> SO]] /\ a \in SO /\ st2 = [st EXCEPT ![n] = [st[n] EXCEPT ![c] = a]]
  BY <1>0, <1>2, <1>3
<1> HIDE DEF a, SO, st2
<1>5. st2 \in [Node -> [Batch -> SO]] /\ st2[n][c] = a
      /\ \A q \in Node, b \in Batch : q # n \/ b # c => st2[q][b] = st[q][b]
  <2> DEFINE f == [st[n] EXCEPT ![c] = a]
  <2>1. st[n] \in [Batch -> SO]
    BY <1>4
  <2>2. f \in [Batch -> SO] /\ f[c] = a /\ \A b \in Batch : b # c => f[b] = st[n][b]
    BY <1>4, <2>1
  <2>3. st2 = [st EXCEPT ![n] = f]
    BY <1>4
  <2> HIDE DEF f
  <2>4. st2 \in [Node -> [Batch -> SO]] /\ st2[n] = f /\ \A q \in Node : q # n => st2[q] = st[q]
    BY <1>4, <2>2, <2>3
  <2> QED BY <2>2, <2>4
<1>6. \A q \in Node, b \in Batch : ToSet(st[q][b]) \subseteq ToSet(st2[q][b])
  <2> SUFFICES ASSUME NEW q \in Node, NEW b \in Batch
               PROVE  ToSet(st[q][b]) \subseteq ToSet(st2[q][b])
    OBVIOUS
  <2>1. CASE q = n /\ b = c
    BY <1>2, <1>5, <2>1 DEF a
  <2>2. CASE q # n \/ b # c
    BY <1>5, <2>2
  <2> QED BY <2>1, <2>2
<1>7. ASSUME NEW q \in Node, NEW p \in Nft, NEW b \in Batch
      PROVE  From(p, st2[q][b]) = From(p, st[q][b])
                  + (IF q = n /\ p = o.nft /\ b = c THEN 1 ELSE 0)
  <2>0. st[q][b] \in Seq(Order)
    BY <1>0
  <2>1. From(p, st[q][b]) \in Nat
    BY <2>0, FromAppend
  <2>2. CASE q = n /\ b = c
    <3>1. From(p, a) = From(p, st[n][c]) + (IF o.nft = p THEN 1 ELSE 0)
      BY <1>1, FromAppend DEF a
    <3> QED BY <1>5, <2>2, <3>1
  <2>3. CASE q # n \/ b # c
    BY <1>5, <2>1, <2>3
  <2> QED BY <2>2, <2>3
<1> QED BY <1>5, <1>6, <1>7 DEF a, SO, st2, Stores, StashedIn

\* Parts of the invariant that a step leaves alone.
LEMMA NetFrame ==
    ASSUME NetInv, UNCHANGED <<vbatch, block, committed, net, inbound_reveals, input>>
    PROVE  NetInv'
BY DEF NetInv, ValidatorBehind, OwnCommitted, NetHonest, StoreHonest, InputAuthentic,
       Committed, Revealed

\* The pubkey bookkeeping survives a step that touches none of its fields.
LEMMA KeyFrame ==
    ASSUME KeyInv, UNCHANGED <<vbatch, unknown, last_fetch, heard_at>>
    PROVE  KeyInv'
BY DEF KeyInv, QueuedSince, KeyFetchedInTime

\* The stores and their limiter agree after a step that touches neither.
LEMMA StoreFrame ==
    ASSUME StoreInv, net \subseteq net',
           UNCHANGED <<seen_reveals, inbound_reveals, vbatch, msg_counts, inbound_commits>>
    PROVE  StoreInv'
<1>1. CountsMatchStore'
  BY DEF StoreInv, CountsMatchStore
<1>2. SeenIsStored'
  BY DEF StoreInv, SeenIsStored, Stored, Revealed
<1> QED BY <1>1, <1>2 DEF StoreInv

\* The matching input keeps its type in a step that does not match.
LEMMA InputFrame == ASSUME InputTyped, UNCHANGED input PROVE InputTyped'
BY DEF InputTyped

\* What Deliver leaves alone.
LEMMA DeliverFrame ==
    ASSUME NEW n \in Node, NEW m \in net, Deliver(n, m)
    PROVE  /\ UNCHANGED <<net, block, stage, my_pool, topics, committed, input, vbatch>>
           /\ accept_commit(n, m) \/ accept_reveal(n, m)
BY DEF Deliver, loopVars, orcVars

\* The validator accepts a commit: dedup set, limiter and store move together.
LEMMA CommitDelivered ==
    ASSUME RoundInv, NEW n \in Node, NEW m \in net, Deliver(n, m), accept_commit(n, m)
    PROVE  RoundInv'
<1>0. /\ UNCHANGED <<net, block, stage, my_pool, topics, committed, input, vbatch>>
      /\ UNCHANGED <<seen_reveals, inbound_reveals, known, unknown, last_fetch, heard_at>>
      /\ seen_commits' = [seen_commits EXCEPT ![n] = @ \union {m.order}]
      /\ RoundTypeOK /\ InputTyped /\ NetInv /\ StoreInv /\ KeyInv
      /\ m.order \in Order /\ m.order.nft \in Nft /\ m.batch \in Batch
  BY DeliverFrame, MessageType DEF accept_commit, keyVars, RoundInv, TypeInv
<1>1. NetInv' /\ KeyInv' /\ InputTyped'
  BY <1>0, NetFrame, KeyFrame, InputFrame
<1>2. seen_commits' \in [Node -> SUBSET Order]
  BY <1>0 DEF RoundTypeOK
<1>3. CASE msg_counts' = msg_counts /\ inbound_commits' = inbound_commits
  <2>1. RoundTypeOK'
    BY <1>0, <1>2, <1>3 DEF RoundTypeOK
  <2>2. StoreInv'
    BY <1>0, <1>3, StoreFrame
  <2> QED BY <1>1, <2>1, <2>2 DEF RoundInv, TypeInv
<1>4. CASE /\ UnderRateLimit(n, m) /\ Count(n, m)
           /\ inbound_commits' = [inbound_commits EXCEPT ![n][m.batch] = Append(@, m.order)]
  <2>0. inbound_commits \in [Node -> [Batch -> Seq(Order)]]
    BY <1>0 DEF RoundTypeOK
  <2>1. /\ inbound_commits' \in [Node -> [Batch -> Seq(Order)]]
        /\ \A q \in Node, p \in Nft, b \in Batch :
             From(p, inbound_commits'[q][b]) = From(p, inbound_commits[q][b])
                + (IF q = n /\ p = m.order.nft /\ b = m.batch THEN 1 ELSE 0)
    <3>1. inbound_commits' = Stashed(inbound_commits, n, m.batch, m.order)
      BY <1>4 DEF Stashed
    <3>2. m.batch \in Batch /\ m.order \in Order
      BY <1>0
    <3>3. inbound_commits \in Stores
      BY <2>0 DEF Stores
    <3>4. StashedIn(inbound_commits', inbound_commits, n, m.batch, m.order)
      BY <3>1, <3>2, <3>3, StoreType
    <3> QED BY <3>4 DEF StashedIn, Stores
  <2>2. /\ msg_counts' \in [Node -> [Nft -> [Batch -> 0..MAX_MSGS_PER_NFT_PER_BATCH]]]
        /\ \A q \in Node, p \in Nft, b \in Batch :
             msg_counts'[q][p][b] = msg_counts[q][p][b]
                + (IF q = n /\ p = m.order.nft /\ b = m.batch THEN 1 ELSE 0)
    BY <1>0, <1>4, CountType
  <2>3. RoundTypeOK'
    BY <1>0, <1>2, <2>1, <2>2 DEF RoundTypeOK
  <2>4. CountsMatchStore'
    <3> SUFFICES ASSUME NEW q \in Node, NEW p \in Nft, NEW b \in Batch
                 PROVE  msg_counts'[q][p][b] = From(p, inbound_commits'[q][b])
                                                 + From(p, inbound_reveals'[q][b])
      BY DEF CountsMatchStore
    <3>1. inbound_commits[q][b] \in Seq(Order) /\ inbound_reveals[q][b] \in Seq(Order)
      BY <1>0 DEF RoundTypeOK
    <3>2. From(p, inbound_commits[q][b]) \in Nat /\ From(p, inbound_reveals[q][b]) \in Nat
      BY <1>0, <3>1, FromAppend
    <3>3. msg_counts[q][p][b] = From(p, inbound_commits[q][b]) + From(p, inbound_reveals[q][b])
      BY <1>0 DEF StoreInv, CountsMatchStore
    <3> DEFINE d == IF q = n /\ p = m.order.nft /\ b = m.batch THEN 1 ELSE 0
    <3>4. From(p, inbound_reveals'[q][b]) = From(p, inbound_reveals[q][b])
      BY <1>0
    <3>5. /\ From(p, inbound_commits'[q][b]) = From(p, inbound_commits[q][b]) + d
          /\ msg_counts'[q][p][b] = msg_counts[q][p][b] + d
      BY <2>1, <2>2
    <3>6. d \in Nat
      OBVIOUS
    <3> HIDE DEF d
    <3> QED BY <3>2, <3>3, <3>4, <3>5, <3>6
  <2>5. SeenIsStored'
    BY <1>0 DEF StoreInv, SeenIsStored, Stored, Revealed
  <2> QED BY <1>1, <2>3, <2>4, <2>5 DEF RoundInv, TypeInv, StoreInv
<1> QED BY <1>3, <1>4 DEF accept_commit

\* A signed reveal of a known sender is stored, counted and remembered.
LEMMA RevealStored ==
    ASSUME RoundInv, NEW n \in Node, NEW m \in net, Deliver(n, m), m.kind = "reveal",
           m.signed, UnderRateLimit(n, m), StoreReveal(n, m),
           UNCHANGED <<seen_commits, inbound_commits>>
    PROVE  RoundInv'
<1>0. /\ UNCHANGED <<net, block, stage, my_pool, topics, committed, input, vbatch>>
      /\ UNCHANGED <<seen_commits, inbound_commits, known, unknown, last_fetch, heard_at>>
      /\ seen_reveals' = [seen_reveals EXCEPT ![n] = @ \union {m.order}]
      /\ inbound_reveals' = [inbound_reveals EXCEPT ![n][m.batch] = Append(@, m.order)]
      /\ Count(n, m)
      /\ RoundTypeOK /\ InputTyped /\ NetInv /\ StoreInv /\ KeyInv
      /\ m.order \in Order /\ m.order.nft \in Nft /\ m.batch \in Batch
  BY DeliverFrame, MessageType DEF StoreReveal, keyVars, RoundInv, TypeInv
<1>1. KeyInv' /\ InputTyped'
  BY <1>0, KeyFrame, InputFrame
<1>2. seen_reveals' \in [Node -> SUBSET Order]
  BY <1>0 DEF RoundTypeOK
<1>3. inbound_reveals \in [Node -> [Batch -> Seq(Order)]]
  BY <1>0 DEF RoundTypeOK
<1>4. /\ inbound_reveals' \in [Node -> [Batch -> Seq(Order)]]
      /\ inbound_reveals'[n][m.batch] = Append(inbound_reveals[n][m.batch], m.order)
      /\ \A q \in Node, b \in Batch :
           q # n \/ b # m.batch => inbound_reveals'[q][b] = inbound_reveals[q][b]
      /\ \A q \in Node, b \in Batch : ToSet(inbound_reveals[q][b]) \subseteq ToSet(inbound_reveals'[q][b])
      /\ \A q \in Node, p \in Nft, b \in Batch :
           From(p, inbound_reveals'[q][b]) = From(p, inbound_reveals[q][b])
              + (IF q = n /\ p = m.order.nft /\ b = m.batch THEN 1 ELSE 0)
  <2>1. inbound_reveals' = Stashed(inbound_reveals, n, m.batch, m.order)
    BY <1>0 DEF Stashed
  <2>2. m.batch \in Batch /\ m.order \in Order
    BY <1>0
  <2>3. inbound_reveals \in Stores
    BY <1>3 DEF Stores
  <2>4. StashedIn(inbound_reveals', inbound_reveals, n, m.batch, m.order)
    BY <2>1, <2>2, <2>3, StoreType
  <2> QED BY <2>4 DEF StashedIn, Stores
<1>5. /\ msg_counts' \in [Node -> [Nft -> [Batch -> 0..MAX_MSGS_PER_NFT_PER_BATCH]]]
      /\ \A q \in Node, p \in Nft, b \in Batch :
           msg_counts'[q][p][b] = msg_counts[q][p][b]
              + (IF q = n /\ p = m.order.nft /\ b = m.batch THEN 1 ELSE 0)
  BY <1>0, CountType
<1>6. ToSet(inbound_reveals'[n][m.batch]) = ToSet(inbound_reveals[n][m.batch]) \union {m.order}
  <2>1. inbound_reveals[n][m.batch] \in Seq(Order)
    BY <1>0, <1>3
  <2> QED BY <1>0, <1>4, <2>1, AppendSet
<1>7. RoundTypeOK'
  BY <1>0, <1>2, <1>4, <1>5 DEF RoundTypeOK
<1>8. CountsMatchStore'
  <2> SUFFICES ASSUME NEW q \in Node, NEW p \in Nft, NEW b \in Batch
               PROVE  msg_counts'[q][p][b] = From(p, inbound_commits'[q][b])
                                               + From(p, inbound_reveals'[q][b])
    BY DEF CountsMatchStore
  <2>1. inbound_commits[q][b] \in Seq(Order) /\ inbound_reveals[q][b] \in Seq(Order)
    BY <1>0 DEF RoundTypeOK
  <2>2. From(p, inbound_commits[q][b]) \in Nat /\ From(p, inbound_reveals[q][b]) \in Nat
    BY <1>0, <2>1, FromAppend
  <2>3. msg_counts[q][p][b] = From(p, inbound_commits[q][b]) + From(p, inbound_reveals[q][b])
    BY <1>0 DEF StoreInv, CountsMatchStore
  <2> DEFINE d == IF q = n /\ p = m.order.nft /\ b = m.batch THEN 1 ELSE 0
  <2>4. From(p, inbound_commits'[q][b]) = From(p, inbound_commits[q][b])
    BY <1>0
  <2>5. /\ From(p, inbound_reveals'[q][b]) = From(p, inbound_reveals[q][b]) + d
        /\ msg_counts'[q][p][b] = msg_counts[q][p][b] + d
    BY <1>4, <1>5
  <2>6. d \in Nat
    OBVIOUS
  <2> HIDE DEF d
  <2> QED BY <2>2, <2>3, <2>4, <2>5, <2>6
<1>9. SeenIsStored'
  <2> SUFFICES ASSUME NEW q \in Node, NEW o \in seen_reveals'[q]
               PROVE  \/ Stored(q, o)'
                      \/ \E b \in Batch : b < vbatch'[q] - BATCH_WINDOW /\ Revealed(o, b)'
    BY DEF SeenIsStored
  <2>1. CASE o \in seen_reveals[q]
    <3>1. Stored(q, o) => Stored(q, o)'
      BY <1>4 DEF Stored
    <3>2. \A b : Revealed(o, b) => Revealed(o, b)'
      BY <1>0 DEF Revealed
    <3>3. \/ Stored(q, o)
          \/ \E b \in Batch : b < vbatch[q] - BATCH_WINDOW /\ Revealed(o, b)
      BY <1>0, <2>1 DEF StoreInv, SeenIsStored
    <3> QED BY <1>0, <3>1, <3>2, <3>3
  <2>2. CASE o \notin seen_reveals[q]
    <3>1. q = n /\ o = m.order
      BY <1>0, <2>2 DEF RoundTypeOK
    <3> QED BY <1>0, <1>6, <3>1 DEF Stored
  <2> QED BY <2>1, <2>2
<1>10. StoreHonest'
  <2> SUFFICES ASSUME NEW q \in Node, NEW b \in Batch, NEW o \in ToSet(inbound_reveals'[q][b])
               PROVE  Revealed(o, b)'
    BY DEF StoreHonest
  <2>1. CASE o \in ToSet(inbound_reveals[q][b])
    BY <1>0, <2>1 DEF NetInv, StoreHonest, Revealed
  <2>2. CASE o \notin ToSet(inbound_reveals[q][b])
    <3>1. b = m.batch /\ o = m.order
      BY <1>4, <1>6, <2>2
    <3> QED BY <1>0, <3>1 DEF Revealed, SignedReveal
  <2> QED BY <2>1, <2>2
<1>11. NetInv'
  BY <1>0, <1>10 DEF NetInv, ValidatorBehind, OwnCommitted, NetHonest, InputAuthentic, Committed,
                     Revealed
<1> QED BY <1>1, <1>7, <1>8, <1>9, <1>11 DEF RoundInv, TypeInv, StoreInv

\* A reveal of an unknown sender queues the sender's key and leaves no other trace.
LEMMA RevealRejected ==
    ASSUME RoundInv, NEW n \in Node, NEW m \in net, Deliver(n, m),
           m.order.nft \notin known[n], RejectUnknown(n, m),
           UNCHANGED <<seen_commits, inbound_commits>>
    PROVE  RoundInv'
<1>0. /\ UNCHANGED <<net, block, stage, my_pool, topics, committed, input, vbatch>>
      /\ UNCHANGED <<seen_commits, inbound_commits, known, last_fetch, seen_reveals,
                     msg_counts, inbound_reveals>>
      /\ unknown' = [unknown EXCEPT ![n] = @ \union {m.order.nft}]
      /\ heard_at' = IF m.order.nft \in unknown[n]
                       THEN heard_at
                       ELSE [heard_at EXCEPT ![n][m.order.nft] = vbatch[n]]
      /\ RoundTypeOK /\ InputTyped /\ NetInv /\ StoreInv /\ KeyInv
      /\ m.order.nft \in Nft
  BY DeliverFrame, MessageType DEF RejectUnknown, RoundInv, TypeInv
<1>1. NetInv' /\ StoreInv' /\ InputTyped'
  BY <1>0, NetFrame, StoreFrame, InputFrame
<1>2. /\ vbatch \in [Node -> Batch] /\ unknown \in [Node -> SUBSET Nft]
      /\ heard_at \in [Node -> [Nft -> Batch]] /\ Batch \subseteq Nat
      /\ last_fetch \in [Node -> Batch \union {0}]
      /\ PUBKEY_FETCH_INTERVAL \in Nat \ {0}
  BY <1>0, BatchMono, RoundAssumption DEF RoundTypeOK
<1>3. heard_at' \in [Node -> [Nft -> Batch]]
  BY <1>0, <1>2
<1>4. RoundTypeOK'
  <2>1. unknown' \in [Node -> SUBSET Nft]
    BY <1>0, <1>2
  <2>2. \A q \in Node : known'[q] \intersect unknown'[q] = {}
    BY <1>0, <1>2 DEF RoundTypeOK
  <2>3. RoundTypeOK /\ UNCHANGED <<net, block, stage, my_pool, topics, committed, input, vbatch,
          seen_commits, inbound_commits, known, last_fetch, seen_reveals, msg_counts, inbound_reveals>>
    BY <1>0
  <2> QED BY <1>3, <2>1, <2>2, <2>3 DEF RoundTypeOK
<1>5. KeyInv'
  <2> SUFFICES ASSUME NEW q \in Node
               PROVE  /\ last_fetch'[q] <= vbatch'[q]
                      /\ \A p \in unknown'[q] : /\ last_fetch'[q] <= heard_at'[q][p]
                                                /\ vbatch'[q] < heard_at'[q][p] + PUBKEY_FETCH_INTERVAL
    BY DEF KeyInv, QueuedSince, KeyFetchedInTime
  <2>1. last_fetch'[q] <= vbatch'[q]
    BY <1>0 DEF KeyInv, QueuedSince
  <2>2. ASSUME NEW p \in unknown'[q]
        PROVE  /\ last_fetch'[q] <= heard_at'[q][p]
               /\ vbatch'[q] < heard_at'[q][p] + PUBKEY_FETCH_INTERVAL
    <3>1. CASE p \in unknown[q]
      <4>1. heard_at'[q][p] = heard_at[q][p]
        BY <1>0, <1>2, <3>1
      <4> QED BY <1>0, <3>1, <4>1 DEF KeyInv, QueuedSince, KeyFetchedInTime
    <3>2. CASE p \notin unknown[q]
      <4>1. q = n /\ p = m.order.nft
        BY <1>0, <1>2, <2>2, <3>2
      <4>2. heard_at'[q][p] = vbatch[q]
        BY <1>0, <1>2, <3>2, <4>1
      <4>3. vbatch[q] \in Nat /\ last_fetch[q] <= vbatch[q]
        BY <1>0, <1>2 DEF KeyInv, QueuedSince
      <4> QED BY <1>0, <1>2, <4>2, <4>3
    <3> QED BY <3>1, <3>2
  <2> QED BY <2>1, <2>2
<1> QED BY <1>1, <1>4, <1>5 DEF RoundInv, TypeInv

\* Delivery of one gossip message, accepted or not.
LEMMA DeliverInv ==
    ASSUME RoundInv, NEW n \in Node, NEW m \in net, Deliver(n, m)
    PROVE  RoundInv'
<1>1. CASE accept_commit(n, m)
  BY <1>1, CommitDelivered
<1>2. CASE m.kind = "reveal" /\ accept_reveal(n, m)
  BY <1>2, RevealStored, RevealRejected DEF accept_reveal
<1> QED BY <1>1, <1>2 DEF Deliver

-----------------------------------------------------------------------------
(* A block.                                                                *)

\* A node that reads a higher block is not in an earlier batch.
LEMMA BlockUp ==
    ASSUME RoundTypeOK, NEW n \in Node, NEW h \in Block, h > block[n],
           block' = [block EXCEPT ![n] = h]
    PROVE  /\ block' \in [Node -> Block]
           /\ BatchAt(block[n]) <= BatchAt(h)
           /\ \A q \in Node : /\ BatchAt(block[q]) \in Nat /\ BatchAt(block'[q]) \in Nat
                              /\ BatchAt(block[q]) <= BatchAt(block'[q])
<1>1. block \in [Node -> Block] /\ \A k \in Block : k \in Nat
  BY RoundAssumption DEF RoundTypeOK, Block
<1>2. block' \in [Node -> Block]
  BY <1>1
<1>3. BatchAt(block[n]) <= BatchAt(h)
  <2>1. block[n] <= h
    BY <1>1
  <2> QED BY <1>1, <2>1, BatchMono
<1>4. ASSUME NEW q \in Node
      PROVE  /\ BatchAt(block[q]) \in Nat /\ BatchAt(block'[q]) \in Nat
             /\ BatchAt(block[q]) <= BatchAt(block'[q])
  <2>1. BatchAt(block[q]) \in Nat /\ BatchAt(block'[q]) \in Nat
    BY <1>1, <1>2, BatchMono
  <2>2. CASE q = n
    BY <1>1, <1>3, <2>1, <2>2
  <2>3. CASE q # n
    BY <1>1, <2>1, <2>3
  <2> QED BY <2>1, <2>2, <2>3
<1> QED BY <1>2, <1>3, <1>4

\* A block the node does not act on only moves its clock.
LEMMA PassBlockInv ==
    ASSUME RoundInv, NEW n \in Node, NEW h \in Block, PassBlock(n, h)
    PROVE  RoundInv'
<1>0. /\ UNCHANGED <<net, stage, my_pool, topics, committed, input, vbatch, known, unknown,
                     last_fetch, heard_at, inbound_commits, inbound_reveals,
                     seen_commits, seen_reveals, msg_counts>>
      /\ h > block[n] /\ block' = [block EXCEPT ![n] = h]
      /\ RoundTypeOK /\ InputTyped /\ NetInv /\ StoreInv /\ KeyInv
  BY DEF PassBlock, RoundInv, TypeInv, orcVars, storeVars, dedupVars, keyVars
<1>1. StoreInv' /\ KeyInv' /\ InputTyped'
  BY <1>0, StoreFrame, KeyFrame, InputFrame
<1>2. /\ block' \in [Node -> Block]
      /\ \A q \in Node : /\ BatchAt(block[q]) \in Nat /\ BatchAt(block'[q]) \in Nat
                         /\ BatchAt(block[q]) <= BatchAt(block'[q])
  BY <1>0, BlockUp
<1>3. RoundTypeOK'
  BY <1>0, <1>2 DEF RoundTypeOK
<1>4. OwnCommitted'
  BY <1>0 DEF NetInv, OwnCommitted, Committed
<1>5. ValidatorBehind'
  <2> SUFFICES ASSUME NEW q \in Node PROVE vbatch'[q] <= BatchAt(block'[q])
    BY DEF ValidatorBehind
  <2>1. vbatch[q] \in Nat /\ vbatch[q] <= BatchAt(block[q])
    BY <1>0, BatchMono DEF RoundTypeOK, NetInv, ValidatorBehind
  <2> QED BY <1>0, <1>2, <2>1
<1>6. NetHonest' /\ StoreHonest' /\ InputAuthentic'
  BY <1>0 DEF NetInv, NetHonest, StoreHonest, InputAuthentic, Committed, Revealed
<1> QED BY <1>1, <1>3, <1>4, <1>5, <1>6 DEF RoundInv, TypeInv, NetInv

\* Within a batch the loop only moves on to the phase handler.
LEMMA EnterSameBatch ==
    ASSUME RoundInv, NEW n \in Node, NEW h \in Block, EnterPhase(n, h),
           BatchAt(h) = BatchAt(block[n])
    PROVE  RoundInv'
<1>0. /\ UNCHANGED <<net, my_pool, topics, committed, input, vbatch, known, unknown,
                     last_fetch, heard_at, inbound_commits, inbound_reveals,
                     seen_commits, seen_reveals, msg_counts>>
      /\ h > block[n] /\ block' = [block EXCEPT ![n] = h]
      /\ stage' = [stage EXCEPT ![n] = "phase"]
      /\ RoundTypeOK /\ InputTyped /\ NetInv /\ StoreInv /\ KeyInv
  BY DEF EnterPhase, RoundInv, TypeInv, orcVars, storeVars, dedupVars, keyVars
<1>1. StoreInv' /\ KeyInv' /\ InputTyped'
  BY <1>0, StoreFrame, KeyFrame, InputFrame
<1>2. /\ block' \in [Node -> Block]
      /\ \A q \in Node : /\ BatchAt(block[q]) \in Nat /\ BatchAt(block'[q]) \in Nat
                         /\ BatchAt(block[q]) <= BatchAt(block'[q])
  BY <1>0, BlockUp
<1>3. RoundTypeOK'
  BY <1>0, <1>2 DEF RoundTypeOK
<1>4. OwnCommitted'
  BY <1>0 DEF NetInv, OwnCommitted, Committed
<1>5. ValidatorBehind'
  <2> SUFFICES ASSUME NEW q \in Node PROVE vbatch'[q] <= BatchAt(block'[q])
    BY DEF ValidatorBehind
  <2>1. vbatch[q] \in Nat /\ vbatch[q] <= BatchAt(block[q])
    BY <1>0, BatchMono DEF RoundTypeOK, NetInv, ValidatorBehind
  <2> QED BY <1>0, <1>2, <2>1
<1>6. NetHonest' /\ StoreHonest' /\ InputAuthentic'
  BY <1>0 DEF NetInv, NetHonest, StoreHonest, InputAuthentic, Committed, Revealed
<1> QED BY <1>1, <1>3, <1>4, <1>5, <1>6 DEF RoundInv, TypeInv, NetInv

\* expire_old_batches and the bridge's retain drop the same batches.
LEMMA ExpiredCounts ==
    ASSUME RoundTypeOK, NEW n \in Node, NEW b \in Batch, expire_old_batches(n, b)
    PROVE  /\ msg_counts' \in [Node -> [Nft -> [Batch -> 0..MAX_MSGS_PER_NFT_PER_BATCH]]]
           /\ \A p \in Nft, c \in Batch :
                msg_counts'[n][p][c] = IF c >= b - BATCH_WINDOW THEN msg_counts[n][p][c] ELSE 0
           /\ \A q \in Node : q # n => msg_counts'[q] = msg_counts[q]
           /\ seen_commits' \in [Node -> SUBSET Order] /\ seen_reveals' \in [Node -> SUBSET Order]
           /\ \A q \in Node : seen_reveals'[q] \subseteq seen_reveals[q]
<1>1. /\ msg_counts \in [Node -> [Nft -> [Batch -> 0..MAX_MSGS_PER_NFT_PER_BATCH]]]
      /\ seen_commits \in [Node -> SUBSET Order] /\ seen_reveals \in [Node -> SUBSET Order]
      /\ MAX_MSGS_PER_NFT_PER_BATCH \in Nat
  BY RoundAssumption DEF RoundTypeOK
<1> DEFINE f == [p \in Nft |-> [c \in Batch |->
                   IF c >= b - BATCH_WINDOW THEN msg_counts[n][p][c] ELSE 0]]
<1>2. f \in [Nft -> [Batch -> 0..MAX_MSGS_PER_NFT_PER_BATCH]]
  BY <1>1
<1>3. \A p \in Nft, c \in Batch :
        f[p][c] = IF c >= b - BATCH_WINDOW THEN msg_counts[n][p][c] ELSE 0
  OBVIOUS
<1>4. msg_counts' = [msg_counts EXCEPT ![n] = f]
  BY DEF expire_old_batches
<1> HIDE DEF f
<1>5. /\ msg_counts' \in [Node -> [Nft -> [Batch -> 0..MAX_MSGS_PER_NFT_PER_BATCH]]]
      /\ msg_counts'[n] = f
      /\ \A q \in Node : q # n => msg_counts'[q] = msg_counts[q]
  BY <1>1, <1>2, <1>4
<1>6. /\ seen_commits' \in [Node -> SUBSET Order] /\ seen_reveals' \in [Node -> SUBSET Order]
      /\ \A q \in Node : seen_reveals'[q] \subseteq seen_reveals[q]
  BY <1>1 DEF expire_old_batches
<1> QED BY <1>3, <1>5, <1>6

RetainedIn(t, st, n, b) ==
  /\ t \in Stores
  /\ \A c \in Batch : t[n][c] = IF c >= b - BATCH_WINDOW THEN st[n][c] ELSE <<>>
  /\ \A q \in Node : q # n => t[q] = st[q]

\* The retain at a new batch keeps the recent batches and empties the others.
LEMMA RetainedStore ==
    ASSUME NEW st \in Stores, NEW n \in Node, NEW b \in Batch
    PROVE  RetainedIn([st EXCEPT ![n] = Retained(st[n], b)], st, n, b)
<1>1. st \in [Node -> [Batch -> Seq(Order)]] /\ <<>> \in Seq(Order)
  BY EmptyStore DEF Stores
<1> DEFINE f == Retained(st[n], b)
           SO == Seq(Order)
           t == [st EXCEPT ![n] = f]
<1>2. st \in [Node -> [Batch -> SO]] /\ <<>> \in SO
  BY <1>1
<1> HIDE DEF SO
<1>3. f \in [Batch -> SO] /\ \A c \in Batch : f[c] = IF c >= b - BATCH_WINDOW THEN st[n][c] ELSE <<>>
  <2>1. \A c \in Batch : st[n][c] \in SO
    BY <1>2
  <2> QED BY <1>2, <2>1 DEF Retained
<1> HIDE DEF f
<1>4. t \in [Node -> [Batch -> SO]] /\ t[n] = f /\ \A q \in Node : q # n => t[q] = st[q]
  BY <1>2, <1>3
<1>5. RetainedIn(t, st, n, b)
  BY <1>3, <1>4 DEF RetainedIn, Stores, SO
<1> QED BY <1>5 DEF f

\* The counts still agree with what is stored.
LEMMA BoundaryCounts ==
    ASSUME RoundTypeOK, CountsMatchStore, NEW n \in Node, NEW b \in Batch, expire_old_batches(n, b),
           RetainedIn(inbound_commits', inbound_commits, n, b),
           RetainedIn(inbound_reveals', inbound_reveals, n, b)
    PROVE  CountsMatchStore'
<1> SUFFICES ASSUME NEW q \in Node, NEW p \in Nft, NEW c \in Batch
             PROVE  msg_counts'[q][p][c] = From(p, inbound_commits'[q][c])
                                             + From(p, inbound_reveals'[q][c])
  BY DEF CountsMatchStore
<1>1. msg_counts[q][p][c] = From(p, inbound_commits[q][c]) + From(p, inbound_reveals[q][c])
  BY DEF CountsMatchStore
<1>2. CASE q # n
  BY <1>1, <1>2, ExpiredCounts DEF RetainedIn
<1>3. CASE q = n /\ c >= b - BATCH_WINDOW
  <2>1. msg_counts'[q][p][c] = msg_counts[q][p][c]
    BY <1>3, ExpiredCounts
  <2>2. inbound_commits'[q][c] = inbound_commits[q][c] /\ inbound_reveals'[q][c] = inbound_reveals[q][c]
    BY <1>3 DEF RetainedIn
  <2> QED BY <1>1, <2>1, <2>2
<1>4. CASE q = n /\ ~(c >= b - BATCH_WINDOW)
  <2>1. msg_counts'[q][p][c] = 0
    BY <1>4, ExpiredCounts
  <2>2. inbound_commits'[q][c] = <<>> /\ inbound_reveals'[q][c] = <<>>
    BY <1>4 DEF RetainedIn
  <2>3. From(p, inbound_commits'[q][c]) = 0 /\ From(p, inbound_reveals'[q][c]) = 0
    BY <2>2, FromEmpty
  <2> QED BY <2>1, <2>3
<1> QED BY <1>2, <1>3, <1>4

\* A reveal that is dropped from the store was revealed for a batch outside the
\* window.
LEMMA BoundarySeen ==
    ASSUME RoundTypeOK, SeenIsStored, StoreHonest, UNCHANGED net,
           NEW n \in Node, NEW b \in Batch, expire_old_batches(n, b),
           vbatch' = [vbatch EXCEPT ![n] = b], vbatch[n] <= b,
           RetainedIn(inbound_reveals', inbound_reveals, n, b)
    PROVE  SeenIsStored'
<1> SUFFICES ASSUME NEW q \in Node, NEW o \in seen_reveals'[q]
             PROVE  \/ Stored(q, o)'
                    \/ \E c \in Batch : c < vbatch'[q] - BATCH_WINDOW /\ Revealed(o, c)'
  BY DEF SeenIsStored
<1>1. o \in seen_reveals[q]
  BY ExpiredCounts
<1>2. Batch \subseteq Nat /\ vbatch \in [Node -> Batch] /\ BATCH_WINDOW \in Nat
  BY BatchMono, RoundAssumption DEF RoundTypeOK
<1>3. \A c : Revealed(o, c) => Revealed(o, c)'
  BY DEF Revealed
<1>4. CASE q # n
  <2>1. inbound_reveals'[q] = inbound_reveals[q] /\ vbatch'[q] = vbatch[q]
    BY <1>2, <1>4 DEF RetainedIn
  <2> QED BY <1>1, <1>3, <2>1 DEF SeenIsStored, Stored
<1>5. CASE q = n
  <2>1. vbatch'[q] = b /\ b \in Nat /\ vbatch[q] \in Nat /\ vbatch[q] <= b
    BY <1>2, <1>5
  <2>2. CASE Stored(q, o)
    <3>1. PICK c \in Batch : o \in ToSet(inbound_reveals[q][c])
      BY <2>2 DEF Stored
    <3>2. CASE c >= b - BATCH_WINDOW
      <4>1. inbound_reveals'[q][c] = inbound_reveals[q][c]
        BY <1>5, <3>2 DEF RetainedIn
      <4> QED BY <3>1, <4>1 DEF Stored
    <3>3. CASE ~(c >= b - BATCH_WINDOW)
      <4>1. Revealed(o, c)'
        BY <1>3, <3>1 DEF StoreHonest
      <4>2. c < b - BATCH_WINDOW
        <5>1. c \in Nat
          BY <1>2
        <5> QED BY <1>2, <2>1, <3>3, <5>1
      <4> QED BY <2>1, <4>1, <4>2
    <3> QED BY <3>2, <3>3
  <2>3. CASE \E c \in Batch : c < vbatch[q] - BATCH_WINDOW /\ Revealed(o, c)
    <3>1. PICK c \in Batch : c < vbatch[q] - BATCH_WINDOW /\ Revealed(o, c)
      BY <2>3
    <3>2. c < b - BATCH_WINDOW
      <4>1. c \in Nat
        BY <1>2
      <4> QED BY <1>2, <2>1, <3>1, <4>1
    <3> QED BY <1>3, <2>1, <3>1, <3>2
  <2> QED BY <1>1, <2>2, <2>3 DEF SeenIsStored
<1> QED BY <1>4, <1>5

\* The key fetch: no NFT waits for longer than the interval.
LEMMA BoundaryKeys ==
    ASSUME RoundTypeOK, KeyInv, NEW n \in Node, NEW b \in Batch, FetchPubkeys(n, b),
           vbatch' = [vbatch EXCEPT ![n] = b], vbatch[n] <= b
    PROVE  /\ KeyInv'
           /\ known' \in [Node -> SUBSET Nft] /\ unknown' \in [Node -> SUBSET Nft]
           /\ \A q \in Node : known'[q] \intersect unknown'[q] = {}
           /\ last_fetch' \in [Node -> Batch \union {0}] /\ heard_at' \in [Node -> [Nft -> Batch]]
<1>0. /\ vbatch \in [Node -> Batch] /\ unknown \in [Node -> SUBSET Nft]
      /\ known \in [Node -> SUBSET Nft]
      /\ heard_at \in [Node -> [Nft -> Batch]] /\ Batch \subseteq Nat
      /\ last_fetch \in [Node -> Batch \union {0}]
      /\ PUBKEY_FETCH_INTERVAL \in Nat \ {0}
      /\ \A q \in Node : known[q] \intersect unknown[q] = {}
  BY BatchMono, RoundAssumption DEF RoundTypeOK
<1>1. /\ b \in Nat /\ vbatch[n] \in Nat /\ last_fetch[n] \in Nat
      /\ \A q \in Node : vbatch'[q] = IF q = n THEN b ELSE vbatch[q]
  <2>1. b \in Nat /\ vbatch[n] \in Nat
    BY <1>0
  <2>2. last_fetch[n] \in Batch \union {0}
    BY <1>0
  <2>3. last_fetch[n] \in Nat
    <3>1. Batch \union {0} \subseteq Nat
      BY BatchMono
    <3> QED BY <2>2, <3>1, Zenon
  <2>4. \A q \in Node : vbatch'[q] = IF q = n THEN b ELSE vbatch[q]
    BY <1>0
  <2> QED BY <2>1, <2>3, <2>4
<1>2. \A q \in Node : /\ last_fetch[q] <= vbatch[q]
                      /\ \A p \in unknown[q] : /\ last_fetch[q] <= heard_at[q][p]
                                               /\ vbatch[q] < heard_at[q][p] + PUBKEY_FETCH_INTERVAL
  BY DEF KeyInv, QueuedSince, KeyFetchedInTime
<1>3. CASE ~should_fetch_pubkeys(n, b) /\ UNCHANGED keyVars
  <2>0. UNCHANGED <<known, unknown, last_fetch, heard_at>>
    BY <1>3 DEF keyVars
  <2>1. ASSUME NEW q \in Node
        PROVE  /\ last_fetch'[q] <= vbatch'[q]
               /\ \A p \in unknown'[q] : /\ last_fetch'[q] <= heard_at'[q][p]
                                         /\ vbatch'[q] < heard_at'[q][p] + PUBKEY_FETCH_INTERVAL
    <3>1. CASE q # n
      BY <1>1, <1>2, <2>0, <3>1
    <3>2. CASE q = n
      <4>1. last_fetch'[q] <= vbatch'[q]
        BY <1>1, <1>2, <2>0, <3>2
      <4>2. ASSUME NEW p \in unknown[q] PROVE b < heard_at[q][p] + PUBKEY_FETCH_INTERVAL
        <5>1. b < last_fetch[n] + PUBKEY_FETCH_INTERVAL
          BY <1>0, <1>1, <1>3, <3>2 DEF should_fetch_pubkeys
        <5>2. heard_at[q][p] \in Nat /\ last_fetch[n] <= heard_at[q][p]
          BY <1>0, <1>2, <3>2
        <5> QED BY <1>0, <1>1, <5>1, <5>2
      <4> QED BY <1>1, <1>2, <2>0, <3>2, <4>1, <4>2
    <3> QED BY <3>1, <3>2
  <2>2. KeyInv'
    BY <2>1 DEF KeyInv, QueuedSince, KeyFetchedInTime
  <2> QED BY <1>0, <2>0, <2>2
<1>4. CASE should_fetch_pubkeys(n, b)
  <2>0. PICK failed \in SUBSET unknown[n] : \E got \in SUBSET (unknown[n] \ failed) :
          /\ known' = [known EXCEPT ![n] = @ \union got]
          /\ unknown' = [unknown EXCEPT ![n] = failed]
          /\ heard_at' = [heard_at EXCEPT ![n] =
               [p \in Nft |-> IF p \in failed THEN b ELSE heard_at[n][p]]]
    BY <1>4 DEF FetchPubkeys
  <2>1. PICK got \in SUBSET (unknown[n] \ failed) :
          /\ known' = [known EXCEPT ![n] = @ \union got]
          /\ unknown' = [unknown EXCEPT ![n] = failed]
          /\ heard_at' = [heard_at EXCEPT ![n] =
               [p \in Nft |-> IF p \in failed THEN b ELSE heard_at[n][p]]]
    BY <2>0
  <2>2. last_fetch' = [last_fetch EXCEPT ![n] = b]
    BY <1>4 DEF FetchPubkeys
  <2>3. /\ known' \in [Node -> SUBSET Nft] /\ unknown' \in [Node -> SUBSET Nft]
        /\ \A q \in Node : known'[q] \intersect unknown'[q] = {}
    BY <1>0, <2>1
  <2>4. last_fetch' \in [Node -> Batch \union {0}]
    BY <1>0, <2>2
  <2> DEFINE g == [p \in Nft |-> IF p \in failed THEN b ELSE heard_at[n][p]]
  <2>5. g \in [Nft -> Batch] /\ \A p \in failed : g[p] = b
    BY <1>0
  <2>6. heard_at' = [heard_at EXCEPT ![n] = g]
    BY <2>1
  <2> HIDE DEF g
  <2>7. heard_at' \in [Node -> [Nft -> Batch]]
        /\ heard_at'[n] = g /\ \A q \in Node : q # n => heard_at'[q] = heard_at[q]
    BY <1>0, <2>5, <2>6
  <2>8. ASSUME NEW q \in Node
        PROVE  /\ last_fetch'[q] <= vbatch'[q]
               /\ \A p \in unknown'[q] : /\ last_fetch'[q] <= heard_at'[q][p]
                                         /\ vbatch'[q] < heard_at'[q][p] + PUBKEY_FETCH_INTERVAL
    <3>1. CASE q # n
      <4>1. last_fetch'[q] = last_fetch[q] /\ unknown'[q] = unknown[q] /\ vbatch'[q] = vbatch[q]
        BY <1>0, <1>1, <2>1, <2>2, <3>1
      <4> QED BY <1>2, <2>7, <3>1, <4>1
    <3>2. CASE q = n
      <4>1. last_fetch'[q] = b /\ unknown'[q] = failed /\ vbatch'[q] = b
        BY <1>0, <1>1, <2>1, <2>2, <3>2
      <4>2. \A p \in failed : heard_at'[q][p] = b
        BY <2>5, <2>7, <3>2
      <4> QED BY <1>0, <1>1, <4>1, <4>2
    <3> QED BY <3>1, <3>2
  <2>9. KeyInv'
    BY <2>8 DEF KeyInv, QueuedSince, KeyFetchedInTime
  <2> QED BY <2>3, <2>4, <2>7, <2>9
<1> QED BY <1>3, <1>4 DEF FetchPubkeys

\* The first block of a new batch.
LEMMA EnterNewBatch ==
    ASSUME RoundInv, NEW n \in Node, NEW h \in Block, EnterPhase(n, h),
           BatchAt(h) # BatchAt(block[n])
    PROVE  RoundInv'
<1> DEFINE b == BatchAt(h)
<1>0. /\ UNCHANGED <<net, committed, input>>
      /\ h > block[n] /\ block' = [block EXCEPT ![n] = h]
      /\ stage' = [stage EXCEPT ![n] = "phase"]
      /\ vbatch' = [vbatch EXCEPT ![n] = b]
      /\ expire_old_batches(n, b)
      /\ inbound_commits' = [inbound_commits EXCEPT ![n] = Retained(inbound_commits[n], b)]
      /\ inbound_reveals' = [inbound_reveals EXCEPT ![n] = Retained(inbound_reveals[n], b)]
      /\ FetchPubkeys(n, b) /\ ReassignPool(n, b)
  BY DEF EnterPhase, orcVars
<1>1. RoundTypeOK /\ InputTyped /\ NetInv /\ StoreInv /\ KeyInv
  BY DEF RoundInv, TypeInv
<1>2. b \in Batch /\ b \in Nat
  BY BatchMono
<1>3. /\ block' \in [Node -> Block] /\ BatchAt(block[n]) <= b
      /\ \A q \in Node : /\ BatchAt(block[q]) \in Nat /\ BatchAt(block'[q]) \in Nat
                         /\ BatchAt(block[q]) <= BatchAt(block'[q])
  BY <1>0, <1>1, BlockUp
<1>4. BatchAt(block'[n]) = b
  BY <1>0, <1>1 DEF RoundTypeOK
<1> HIDE DEF b
<1>5. vbatch \in [Node -> Batch] /\ \A q \in Node : vbatch[q] \in Nat /\ vbatch[q] <= BatchAt(block[q])
  BY <1>1, BatchMono DEF RoundTypeOK, NetInv, ValidatorBehind
<1>6. vbatch[n] <= b
  BY <1>2, <1>3, <1>5
<1>7. RetainedIn(inbound_commits', inbound_commits, n, b) /\ RetainedIn(inbound_reveals', inbound_reveals, n, b)
  <2>1. inbound_commits \in Stores /\ inbound_reveals \in Stores
    BY <1>1 DEF RoundTypeOK, Stores
  <2> QED BY <1>0, <1>2, <2>1, RetainedStore
<1>8. StoreInv'
  BY <1>0, <1>1, <1>2, <1>6, <1>7, BoundaryCounts, BoundarySeen DEF StoreInv, NetInv
<1>9. /\ KeyInv'
      /\ known' \in [Node -> SUBSET Nft] /\ unknown' \in [Node -> SUBSET Nft]
      /\ \A q \in Node : known'[q] \intersect unknown'[q] = {}
      /\ last_fetch' \in [Node -> Batch \union {0}] /\ heard_at' \in [Node -> [Nft -> Batch]]
  BY <1>0, <1>1, <1>2, <1>6, BoundaryKeys
<1>10. my_pool' \in [Node -> Pool] /\ topics' \in [Node -> SUBSET Pool]
  <2>1. PoolOf[n][b] \in Pool /\ my_pool \in [Node -> Pool] /\ topics \in [Node -> SUBSET Pool]
    BY <1>1, <1>2, PoolType DEF RoundTypeOK
  <2>2. my_pool' \in [Node -> Pool]
    BY <1>0, <2>1 DEF ReassignPool
  <2>3. topics' \in [Node -> SUBSET Pool]
    BY <1>0, <2>1 DEF ReassignPool
  <2> QED BY <2>2, <2>3
<1>11. RoundTypeOK'
  <2>1. /\ msg_counts' \in [Node -> [Nft -> [Batch -> 0..MAX_MSGS_PER_NFT_PER_BATCH]]]
        /\ seen_commits' \in [Node -> SUBSET Order] /\ seen_reveals' \in [Node -> SUBSET Order]
    BY <1>0, <1>1, <1>2, ExpiredCounts
  <2>2. /\ inbound_commits' \in [Node -> [Batch -> Seq(Order)]]
        /\ inbound_reveals' \in [Node -> [Batch -> Seq(Order)]]
    BY <1>7 DEF RetainedIn, Stores
  <2>3. vbatch' \in [Node -> Batch] /\ stage' \in [Node -> {"wait", "phase"}]
    BY <1>0, <1>1, <1>2 DEF RoundTypeOK
  <2>4. UNCHANGED <<net, committed, input>>
    BY <1>0
  <2> QED BY <1>1, <1>3, <1>9, <1>10, <2>1, <2>2, <2>3, <2>4 DEF RoundTypeOK
<1>12. OwnCommitted'
  BY <1>0, <1>1 DEF NetInv, OwnCommitted, Committed
<1>13. ValidatorBehind'
  <2> SUFFICES ASSUME NEW q \in Node PROVE vbatch'[q] <= BatchAt(block'[q])
    BY DEF ValidatorBehind
  <2>1. CASE q = n
    BY <1>0, <1>2, <1>4, <1>5, <2>1
  <2>2. CASE q # n
    BY <1>0, <1>3, <1>5, <2>2
  <2> QED BY <2>1, <2>2
<1>14. StoreHonest'
  <2> SUFFICES ASSUME NEW q \in Node, NEW c \in Batch, NEW o \in ToSet(inbound_reveals'[q][c])
               PROVE  Revealed(o, c)'
    BY DEF StoreHonest
  <2>1. o \in ToSet(inbound_reveals[q][c])
    BY <1>7, EmptyStore DEF RetainedIn
  <2> QED BY <1>0, <1>1, <2>1 DEF NetInv, StoreHonest, Revealed
<1>15. NetHonest' /\ InputAuthentic' /\ InputTyped'
  BY <1>0, <1>1, InputFrame DEF NetInv, NetHonest, InputAuthentic, Committed, Revealed
<1> QED BY <1>8, <1>9, <1>11, <1>12, <1>13, <1>14, <1>15 DEF RoundInv, TypeInv, NetInv

-----------------------------------------------------------------------------
(* The phase handlers.                                                     *)

\* What every phase handler leaves alone, and where it ends.
LEMMA PhaseFrame ==
    ASSUME RoundInv, NEW n \in Node, NEW phase, InPhase(n, phase), net \subseteq net'
    PROVE  /\ RoundTypeOK /\ InputTyped /\ NetInv
           /\ UNCHANGED <<block, my_pool, topics, vbatch, known, unknown, last_fetch, heard_at,
                          inbound_commits, inbound_reveals, seen_commits, seen_reveals, msg_counts>>
           /\ stage' \in [Node -> {"wait", "phase"}]
           /\ StoreInv' /\ KeyInv' /\ ValidatorBehind'
<1>1. /\ UNCHANGED <<block, my_pool, topics, vbatch, known, unknown, last_fetch, heard_at,
                     inbound_commits, inbound_reveals, seen_commits, seen_reveals, msg_counts>>
      /\ stage' = [stage EXCEPT ![n] = "wait"]
  BY DEF InPhase, storeVars, dedupVars, keyVars
<1>2. RoundTypeOK /\ InputTyped /\ NetInv /\ StoreInv /\ KeyInv
  BY DEF RoundInv, TypeInv
<1>3. stage' \in [Node -> {"wait", "phase"}]
  BY <1>1, <1>2 DEF RoundTypeOK
<1>4. StoreInv' /\ KeyInv' /\ ValidatorBehind'
  BY <1>1, <1>2, StoreFrame, KeyFrame DEF NetInv, ValidatorBehind
<1> QED BY <1>1, <1>2, <1>3, <1>4

\* A message more on the network takes nothing back.
LEMMA NetGrows ==
    ASSUME net \subseteq net'
    PROVE  /\ \A o : Committed(o) => Committed(o)'
           /\ \A o, c : Revealed(o, c) => Revealed(o, c)'
BY DEF Committed, Revealed

\* Publishing more messages takes no evidence away from a matching input.
LEMMA InputGrows ==
    ASSUME net \subseteq net', UNCHANGED input, InputAuthentic
    PROVE  InputAuthentic'
BY NetGrows DEF InputAuthentic

\* on_commit_phase publishes what it commits.
LEMMA CommitPhaseInv == ASSUME RoundInv, NEW n \in Node, CommitPhase(n) PROVE RoundInv'
<1> DEFINE b == BatchAt(block[n])
           ord(i) == [nft |-> n, batch |-> b, idx |-> i]
           msg(i) == [kind |-> "commit", by |-> n, batch |-> b, pool |-> PoolOf[n][b],
                      order |-> ord(i)]
<1>0. InPhase(n, "Commit") /\ input' = input /\ net \subseteq net'
  BY DEF CommitPhase
<1>1. /\ RoundTypeOK /\ InputTyped /\ NetInv
      /\ UNCHANGED <<block, my_pool, topics, vbatch, known, unknown, last_fetch, heard_at,
                     inbound_commits, inbound_reveals, seen_commits, seen_reveals, msg_counts>>
      /\ stage' \in [Node -> {"wait", "phase"}]
      /\ StoreInv' /\ KeyInv' /\ ValidatorBehind'
  BY <1>0, PhaseFrame
<1>2. PICK k \in 0..CommitsPerBatch :
        /\ committed' = [committed EXCEPT ![n] = [i \in 1..k |-> ord(i)]]
        /\ net' = net \union {[kind |-> "commit", by |-> n, batch |-> b, pool |-> PoolOf[n][b],
                               order |-> [j \in 1..k |-> ord(j)][i]] : i \in 1..k}
  <2>1. 0 \in 0..CommitsPerBatch
    BY RoundAssumption
  <2> QED BY <2>1 DEF CommitPhase
<1>3. net' = net \union {msg(i) : i \in 1..k}
  BY <1>2
<1>4. b \in Batch /\ b \in Nat /\ PoolOf[n][b] \in Pool
  BY <1>1, BatchMono, PoolType DEF RoundTypeOK
<1>5. k \in Nat /\ \A i \in 1..k : i \in 1..MaxIndex
  BY RoundAssumption
<1>6. \A i \in 1..k : ord(i) \in Order /\ msg(i) \in CommitMessage
  BY <1>4, <1>5 DEF Order, CommitMessage, Nft
<1> DEFINE new == [i \in 1..k |-> ord(i)]
<1>7. new \in Seq(Order) /\ \A o \in ToSet(new) : \E i \in 1..k : o = ord(i)
  <2>1. new \in [1..k -> Order] /\ DOMAIN new = 1..k /\ \A i \in 1..k : new[i] = ord(i)
    BY <1>6
  <2> HIDE DEF new
  <2>2. new \in Seq(Order)
    BY <1>5, <2>1, SeqDef
  <2> QED BY <2>1, <2>2 DEF ToSet
<1>8. committed' = [committed EXCEPT ![n] = new]
  BY <1>2
<1> HIDE DEF new
<1>9. committed' \in [Node -> Seq(Order)] /\ committed'[n] = new
      /\ \A q \in Node : q # n => committed'[q] = committed[q]
  BY <1>1, <1>7, <1>8 DEF RoundTypeOK
<1>10. net' \subseteq CommitMessage \union RevealMessage
  BY <1>1, <1>3, <1>6 DEF RoundTypeOK
<1>11. RoundTypeOK'
  <2>1. RoundTypeOK /\ stage' \in [Node -> {"wait", "phase"}] /\ input' = input
        /\ UNCHANGED <<block, my_pool, topics, vbatch, known, unknown, last_fetch, heard_at,
                     inbound_commits, inbound_reveals, seen_commits, seen_reveals, msg_counts>>
    BY <1>0, <1>1
  <2>2. committed' \in [Node -> Seq(Order)]
    BY <1>9
  <2> QED BY <1>10, <2>1, <2>2 DEF RoundTypeOK
<1>12. net \subseteq net'
  BY <1>0
<1>13. OwnCommitted'
  <2> SUFFICES ASSUME NEW q \in Node, NEW o \in ToSet(committed'[q])
               PROVE  o.nft = q /\ Committed(o)'
    BY DEF OwnCommitted
  <2>1. CASE q # n
    BY <1>1, <1>9, <1>12, <2>1, NetGrows DEF NetInv, OwnCommitted
  <2>2. CASE q = n
    <3>1. PICK i \in 1..k : o = ord(i)
      BY <1>7, <1>9, <2>2
    <3>2. o.nft = n
      BY <3>1
    <3>3. msg(i) \in net' /\ msg(i).kind = "commit" /\ msg(i).order = o /\ msg(i).by = n
      BY <1>3, <3>1
    <3>4. Committed(o)'
      BY <3>2, <3>3 DEF Committed
    <3> QED BY <2>2, <3>2, <3>4
  <2> QED BY <2>1, <2>2
<1>14. NetHonest'
  <2> SUFFICES ASSUME NEW r \in net', SignedReveal(r), r.order.nft \in Node
               PROVE  Committed(r.order)'
    BY DEF NetHonest, Committed
  <2>1. r \in net
    BY <1>3 DEF SignedReveal
  <2> QED BY <1>1, <1>12, <2>1, NetGrows DEF NetInv, NetHonest
<1>15. StoreHonest'
  BY <1>1, <1>12, NetGrows DEF NetInv, StoreHonest
<1>16. InputAuthentic' /\ InputTyped'
  BY <1>0, <1>1, <1>12, InputGrows, InputFrame DEF NetInv
<1> QED BY <1>1, <1>11, <1>13, <1>14, <1>15, <1>16 DEF RoundInv, TypeInv, NetInv

\* on_reveal_phase signs only what was committed.
LEMMA RevealPhaseInv == ASSUME RoundInv, NEW n \in Node, RevealPhase(n) PROVE RoundInv'
<1> DEFINE b == BatchAt(block[n])
<1>0. InPhase(n, "Reveal") /\ UNCHANGED <<input, committed>> /\ net \subseteq net'
  BY DEF RevealPhase, orcVars
<1>1. /\ RoundTypeOK /\ InputTyped /\ NetInv
      /\ UNCHANGED <<block, my_pool, topics, vbatch, known, unknown, last_fetch, heard_at,
                     inbound_commits, inbound_reveals, seen_commits, seen_reveals, msg_counts>>
      /\ stage' \in [Node -> {"wait", "phase"}]
      /\ StoreInv' /\ KeyInv' /\ ValidatorBehind'
  BY <1>0, PhaseFrame
<1>2. PICK indices \in SUBSET (1..MaxIndex) : net' = net \union {RevealOf(n, b, i) : i \in indices}
  BY DEF RevealPhase
<1>3. b \in Batch /\ b \in Nat /\ PoolOf[n][b] \in Pool
  BY <1>1, BatchMono, PoolType DEF RoundTypeOK
<1>4. committed[n] \in Seq(Order) /\ Len(committed[n]) \in Nat /\ DOMAIN committed[n] = 1 .. Len(committed[n])
  BY <1>1, LenProperties DEF RoundTypeOK
<1>5. ASSUME NEW i \in 1..MaxIndex
      PROVE  /\ RevealOf(n, b, i) \in RevealMessage
             /\ RevealOf(n, b, i).signed => Committed(RevealOf(n, b, i).order)
  <2>0. MaxIndex \in Nat
    BY RoundAssumption
  <2>1. CASE i <= Len(committed[n])
    <3>1. i \in DOMAIN committed[n]
      BY <1>4, <2>0, <2>1
    <3>2. committed[n][i] \in Order /\ committed[n][i] \in ToSet(committed[n])
      BY <1>4, <3>1 DEF ToSet
    <3>3. RevealOf(n, b, i) = [kind |-> "reveal", by |-> n, batch |-> b, pool |-> PoolOf[n][b],
                               signed |-> TRUE, order |-> committed[n][i]]
      BY <2>1 DEF RevealOf
    <3>4. Committed(committed[n][i])
      BY <1>1, <3>2 DEF NetInv, OwnCommitted
    <3> HIDE DEF b
    <3> QED BY <1>3, <3>2, <3>3, <3>4 DEF RevealMessage, Nft
  <2>2. CASE ~(i <= Len(committed[n]))
    <3> DEFINE o == [nft |-> n, batch |-> b, idx |-> i]
    <3>1. RevealOf(n, b, i) = [kind |-> "reveal", by |-> n, batch |-> b, pool |-> PoolOf[n][b],
                               signed |-> FALSE, order |-> o]
      <4>1. (i <= Len(committed[n])) = FALSE
        BY <2>2
      <4> QED BY <4>1 DEF RevealOf
    <3> HIDE DEF b
    <3>2. o \in Order
      BY <1>3 DEF Order, Nft
    <3> HIDE DEF o
    <3> QED BY <1>3, <3>1, <3>2 DEF RevealMessage, Nft
  <2> QED BY <2>1, <2>2
<1> HIDE DEF b
<1>6. net \subseteq net' /\ net' \subseteq CommitMessage \union RevealMessage
  BY <1>1, <1>2, <1>5 DEF RoundTypeOK
<1>7. RoundTypeOK'
  BY <1>0, <1>1, <1>6 DEF RoundTypeOK
<1>8. NetHonest'
  <2> SUFFICES ASSUME NEW r \in net', SignedReveal(r), r.order.nft \in Node
               PROVE  Committed(r.order)'
    BY DEF NetHonest, Committed
  <2>1. CASE r \in net
    BY <1>1, <1>6, <2>1, NetGrows DEF NetInv, NetHonest
  <2>2. CASE r \notin net
    <3>1. PICK i \in indices : r = RevealOf(n, b, i)
      BY <1>2, <2>2
    <3>2. Committed(r.order)
      BY <1>5, <3>1 DEF SignedReveal
    <3> QED BY <1>6, <3>2, NetGrows
  <2> QED BY <2>1, <2>2
<1>9. OwnCommitted'
  BY <1>0, <1>1, <1>6, NetGrows DEF NetInv, OwnCommitted
<1>10. StoreHonest'
  BY <1>1, <1>6, NetGrows DEF NetInv, StoreHonest
<1>11. InputAuthentic' /\ InputTyped'
  BY <1>0, <1>1, <1>6, InputGrows, InputFrame DEF NetInv
<1> QED BY <1>1, <1>7, <1>8, <1>9, <1>10, <1>11 DEF RoundInv, TypeInv, NetInv

\* on_match_phase takes what was committed and what is stored; on_swap_phase
\* takes the matches away.
LEMMA MatchPhaseInv ==
    ASSUME RoundInv, NEW n \in Node, MatchPhase(n) \/ SwapPhase(n)
    PROVE  RoundInv'
<1> DEFINE b == BatchAt(block[n])
<1>0. /\ InPhase(n, "Match") \/ InPhase(n, "Swap")
      /\ UNCHANGED <<net, committed>> /\ net \subseteq net'
  BY DEF MatchPhase, SwapPhase
<1>1. /\ RoundTypeOK /\ InputTyped /\ NetInv
      /\ UNCHANGED <<block, my_pool, topics, vbatch, known, unknown, last_fetch, heard_at,
                     inbound_commits, inbound_reveals, seen_commits, seen_reveals, msg_counts>>
      /\ stage' \in [Node -> {"wait", "phase"}]
      /\ StoreInv' /\ KeyInv' /\ ValidatorBehind'
  BY <1>0, PhaseFrame
<1>2. b \in Batch
  BY <1>1, BatchMono DEF RoundTypeOK
<1> DEFINE both == committed[n] \o inbound_reveals[n][b]
<1>3. committed[n] \in Seq(Order) /\ inbound_reveals[n][b] \in Seq(Order)
  BY <1>1, <1>2 DEF RoundTypeOK
<1>4. both \in Seq(Order) /\ ToSet(both) \subseteq ToSet(committed[n]) \union ToSet(inbound_reveals[n][b])
  BY <1>3, ConcatSet
<1>5. \/ input' = [input EXCEPT ![n] = [batch |-> b, orders |-> both]]
      \/ input' = [input EXCEPT ![n] = [batch |-> 0, orders |-> <<>>]]
  BY DEF MatchPhase, SwapPhase, NoInput
<1>6. <<>> \in Seq(Order)
  BY EmptyStore
<1> HIDE DEF both, b
<1>7. PICK c \in Batch \union {0}, s \in Seq(Order) :
        /\ input' = [input EXCEPT ![n] = [batch |-> c, orders |-> s]]
        /\ (c = b /\ s = both) \/ s = <<>>
  BY <1>2, <1>4, <1>5, <1>6
<1>8. /\ \A q \in Node : q # n => input'[q] = input[q]
      /\ input'[n] = [batch |-> c, orders |-> s]
      /\ input'[n].batch = c /\ input'[n].orders = s
  BY <1>1, <1>7 DEF InputTyped
<1>9. InputTyped'
  BY <1>1, <1>7 DEF InputTyped
<1>10. \A q \in Node : input'[q].batch \in Batch \union {0} /\ input'[q].orders \in Seq(Order)
  <2> SUFFICES ASSUME NEW q \in Node
               PROVE  input'[q].batch \in Batch \union {0} /\ input'[q].orders \in Seq(Order)
    OBVIOUS
  <2>1. CASE q = n
    BY <1>7, <1>8, <2>1
  <2>2. CASE q # n
    BY <1>1, <1>8, <2>2 DEF RoundTypeOK
  <2> QED BY <2>1, <2>2
<1>11. RoundTypeOK'
  BY <1>0, <1>1, <1>10 DEF RoundTypeOK
<1>12. InputAuthentic'
  <2> SUFFICES ASSUME NEW q \in Node, NEW o \in ToSet(input'[q].orders)
               PROVE  /\ o.nft = q \/ Revealed(o, input'[q].batch)
                      /\ o.nft \in Node => Committed(o)
    BY <1>0 DEF InputAuthentic, Committed, Revealed
  <2>1. CASE q # n
    <3>1. o \in ToSet(input[q].orders) /\ input'[q].batch = input[q].batch
      BY <1>8, <2>1
    <3>2. /\ o.nft = q \/ Revealed(o, input[q].batch)
          /\ o.nft \in Node => Committed(o)
      BY <1>1, <3>1 DEF NetInv, InputAuthentic
    <3> QED BY <3>1, <3>2
  <2>2. CASE q = n
    <3>0. c = b /\ (o \in ToSet(committed[n]) \/ o \in ToSet(inbound_reveals[n][b]))
      BY <1>4, <1>7, <1>8, <2>2, EmptyStore
    <3>1. CASE o \in ToSet(committed[n])
      BY <1>1, <2>2, <3>1 DEF NetInv, OwnCommitted
    <3>2. CASE o \in ToSet(inbound_reveals[n][b])
      <4>1. Revealed(o, b)
        BY <1>1, <1>2, <3>2 DEF NetInv, StoreHonest
      <4>2. o.nft \in Node => Committed(o)
        BY <1>1, <4>1 DEF NetInv, NetHonest, Revealed
      <4> QED BY <1>8, <2>2, <3>0, <4>1, <4>2
    <3> QED BY <3>0, <3>1, <3>2
  <2> QED BY <2>1, <2>2
<1>13. OwnCommitted' /\ NetHonest' /\ StoreHonest'
  BY <1>0, <1>1 DEF NetInv, OwnCommitted, NetHonest, StoreHonest, Committed, Revealed
<1> QED BY <1>1, <1>9, <1>11, <1>12, <1>13 DEF RoundInv, TypeInv, NetInv

-----------------------------------------------------------------------------
(* The strays.                                                             *)

\* A message of a stray is one more on the network; a node's signature on it was
\* there before.
LEMMA PublishStrayInv ==
    ASSUME RoundInv, NEW m \in StrayMessages, PublishStray(m)
    PROVE  RoundInv'
<1>0. /\ UNCHANGED <<block, stage, my_pool, topics, committed, input, vbatch, known, unknown,
                     last_fetch, heard_at, inbound_commits, inbound_reveals,
                     seen_commits, seen_reveals, msg_counts>>
      /\ net' = net \union {m} /\ net \subseteq net'
      /\ RoundTypeOK /\ InputTyped /\ NetInv /\ StoreInv /\ KeyInv
  BY DEF PublishStray, RoundInv, TypeInv, loopVars, orcVars, storeVars, dedupVars, keyVars
<1>1. StoreInv' /\ KeyInv' /\ InputTyped'
  BY <1>0, StoreFrame, KeyFrame, InputFrame
<1>2. RoundTypeOK'
  <2>1. net' \subseteq CommitMessage \union RevealMessage
    BY <1>0, StrayAssumption DEF RoundTypeOK
  <2> QED BY <1>0, <2>1 DEF RoundTypeOK
<1>3. NetHonest'
  <2> SUFFICES ASSUME NEW r \in net', SignedReveal(r), r.order.nft \in Node
               PROVE  Committed(r.order)'
    BY DEF NetHonest, Committed
  <2>1. PICK s \in net : SignedReveal(s) /\ s.order = r.order
    <3>1. CASE r \in net
      BY <3>1
    <3>2. CASE r = m
      <4>1. m.order.nft \notin Stray
        BY <3>2, StrayAssumption
      <4> QED BY <3>2, <4>1 DEF PublishStray
    <3> QED BY <1>0, <3>1, <3>2
  <2>2. Committed(r.order)
    BY <1>0, <2>1 DEF NetInv, NetHonest
  <2> QED BY <1>0, <2>2, NetGrows
<1>4. OwnCommitted' /\ StoreHonest' /\ ValidatorBehind'
  BY <1>0, NetGrows DEF NetInv, OwnCommitted, StoreHonest, ValidatorBehind
<1>5. InputAuthentic'
  BY <1>0, InputGrows DEF NetInv
<1> QED BY <1>1, <1>2, <1>3, <1>4, <1>5 DEF RoundInv, TypeInv, NetInv

-----------------------------------------------------------------------------
\* Every step of every node, and of every stray, keeps the invariant.
LEMMA RoundInductive == RoundInv /\ [Next]_vars => RoundInv'
<1> SUFFICES ASSUME RoundInv, [Next]_vars PROVE RoundInv'
  OBVIOUS
<1>1. CASE UNCHANGED vars
  <2>1. UNCHANGED <<net, block, stage, my_pool, topics, committed, input, vbatch, known, unknown,
                    last_fetch, heard_at, inbound_commits, inbound_reveals, seen_commits,
                    seen_reveals, msg_counts>>
    BY <1>1 DEF vars, loopVars, orcVars, storeVars, dedupVars, keyVars
  <2>2. RoundTypeOK'
    BY <2>1 DEF RoundInv, TypeInv, RoundTypeOK
  <2> QED BY <2>1, <2>2, NetFrame, StoreFrame, KeyFrame, InputFrame DEF RoundInv, TypeInv
<1>2. CASE \E m \in StrayMessages : PublishStray(m)
  BY <1>2, PublishStrayInv
<1>3. CASE \E n \in Node :
        \/ \E m \in net : Deliver(n, m)
        \/ \E h \in Block : PassBlock(n, h) \/ EnterPhase(n, h)
        \/ StaleBlock(n)
        \/ CommitPhase(n) \/ RevealPhase(n) \/ MatchPhase(n) \/ SwapPhase(n)
  <2>1. PICK n \in Node :
          \/ \E m \in net : Deliver(n, m)
          \/ \E h \in Block : PassBlock(n, h) \/ EnterPhase(n, h)
          \/ StaleBlock(n)
          \/ CommitPhase(n) \/ RevealPhase(n) \/ MatchPhase(n) \/ SwapPhase(n)
    BY <1>3
  <2>2. CASE \E m \in net : Deliver(n, m)
    BY <2>2, DeliverInv
  <2>3. CASE \E h \in Block : PassBlock(n, h) \/ EnterPhase(n, h)
    BY <2>3, PassBlockInv, EnterSameBatch, EnterNewBatch
  <2>4. CASE StaleBlock(n)
    BY <1>1, <2>4 DEF StaleBlock
  <2> QED BY <2>1, <2>2, <2>3, <2>4, CommitPhaseInv, RevealPhaseInv, MatchPhaseInv
<1> QED BY <1>1, <1>2, <1>3 DEF Next

\* The inductive invariant holds in every reachable state of the network.
THEOREM RoundInvariant == Spec => []RoundInv
BY InitInv, RoundInductive, PTL DEF Spec

\* The loop, the orchestrator, the bridge and the validator keep their types; a
\* sender is never counted past MAX_MSGS_PER_NFT_PER_BATCH, and no NFT with a
\* cached key is queued for a fetch (RoundTypeOK).
THEOREM RoundTypeCorrect == Spec => []RoundTypeOK
<1>1. RoundInv => RoundTypeOK
  BY DEF RoundInv, TypeInv
<1> QED BY <1>1, RoundInvariant, PTL

\* A reveal the validator remembers as seen is one it stores, or stored until its
\* message's batch left the window (SeenIsStored): the reveal of a sender whose key is
\* missing is undone in accept_reveal and is no duplicate when it comes again.
THEOREM SeenRevealsAreStored == Spec => []SeenIsStored
<1>1. RoundInv => SeenIsStored
  BY DEF RoundInv, StoreInv
<1> QED BY <1>1, RoundInvariant, PTL

\* check_rate_limit counts exactly what the bridge stores, through rejections and
\* the expiry of old batches (CountsMatchStore).
THEOREM LimiterCountsTheStore == Spec => []CountsMatchStore
<1>1. RoundInv => CountsMatchStore
  BY DEF RoundInv, StoreInv
<1> QED BY <1>1, RoundInvariant, PTL

\* Whatever other participants publish, on_match_phase matches only the node's own
\* orders and orders revealed, under their owner's signature, in messages of that
\* batch; and it matches in the name of a node that runs this program only what
\* that node committed (InputAuthentic).
THEOREM MatchInputIsAuthentic == Spec => []InputAuthentic
<1>1. RoundInv => InputAuthentic
  BY DEF RoundInv, NetInv
<1> QED BY <1>1, RoundInvariant, PTL

\* should_fetch_pubkeys lets no NFT wait for its key past the interval, whatever
\* other NFTs are fetched and batches skipped (KeyFetchedInTime).
THEOREM KeysAreFetchedInTime == Spec => []KeyFetchedInTime
<1>1. RoundInv => KeyFetchedInTime
  BY DEF RoundInv, KeyInv
<1> QED BY <1>1, RoundInvariant, PTL
==============================================================================
