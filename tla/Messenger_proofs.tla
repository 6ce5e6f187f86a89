-------------------------- MODULE Messenger_proofs --------------------------
(***************************************************************************)
(* Messenger for all numbers of messages, polls, keys and faults: its      *)
(* types, ReceivedOnce, GoneOnlyWhenStored and ConsumedOpkGone, from one   *)
(* inductive invariant.  What ratchetDecrypt and ratchetEncrypt do to a    *)
(* state is taken from RatchetState_proofs.                                *)
(***************************************************************************)
EXTENDS Messenger, RatchetState_proofs, SequenceTheorems, FiniteSetTheorems

---------------------------------------------------------------------------
(* The invariant.                                                          *)

(* A message to u: its author is the other user, and a first message names *)
(* that user's keys.                                                       *)
MessageTo(u) ==
  [text : {t \in Text : t.from = Peer(u)},
   x3dh : [eph : {Peer(u)} \X Nat, ikDh : {<<Peer(u), 0>>},
           opkId : OpkId \cup {Null}] \cup {Null},
   ratchetPublic : Key, Ns : Nat, PN : Nat, messageKey : ChainKey]

Distinct(box) ==
  \A i, j \in DOMAIN box : box[i].text = box[j].text => i = j

(* The rows in u's mailbox are different messages, all written before now. *)
MailOK(u) ==
  /\ mailbox[u] \in Seq(MessageTo(u))
  /\ \A i \in DOMAIN mailbox[u] : mailbox[u][i].text.n < written[Peer(u)]
  /\ Distinct(mailbox[u])

StateFine(st) == StateOK(st, {}) /\ st.rootKey # <<>>

(* The one-time keys of u that the session st began with.                  *)
Begun(u, st) ==
  {id \in OpkId : \E secret \in ToSet(st.rootKey[1]) : OpkOf(u, id) \in secret}

IsHeap(objects) ==
  /\ IsFiniteSet(DOMAIN objects) /\ DOMAIN objects \subseteq Nat
  /\ \A ref \in DOMAIN objects : StateFine(objects[ref])

(* A session that is filed began with none of the one-time keys in keys.   *)
IsMap(u, map, objects, keys) ==
  /\ DOMAIN map \subseteq {"name", "uuid"}
  /\ \A k \in DOMAIN map :
       /\ map[k] \in DOMAIN objects
       /\ Begun(u, objects[map[k]]) \cap keys = {}

IsSaved(u, file, keys) ==
  /\ DOMAIN file \subseteq {"name", "uuid"}
  /\ \A k \in DOMAIN file :
       StateFine(file[k]) /\ Begun(u, file[k]) \cap keys = {}

StoreOK(u) ==
  /\ IsHeap(heap[u])
  /\ IsMap(u, sessions[u], heap[u], opkDisk[u])
  /\ IsSaved(u, disk[u], opkDisk[u])

(* The numbers of the keys that are made on the way are not those of       *)
(* one-time keys.                                                          *)
KeysOK(u) ==
  /\ opkMemory[u] \subseteq OpkId /\ opkDisk[u] \subseteq OpkId
  /\ generated[u] \in Nat /\ generated[u] >= FirstFresh

(* A msg:fetch has taken each text once: what it has opened is not in what *)
(* is left to read.                                                        *)
IsCall(u, call) ==
  /\ call \in [pc : {"idle", "loop", "opk", "log", "delete"},
               queue : Seq(MessageTo(u)), ref : Nat, done : Seq(Text)]
  /\ Distinct(call.queue)
  /\ IsInjective(call.done)
  /\ ToSet(call.done) \cap TextsOf(call.queue) = {}

(* While deleteConsumedOpk is awaited for a first message, the session it  *)
(* begins is in the heap and filed nowhere, and that key is the only one   *)
(* it began with.                                                          *)
AtOpk(u, call, objects) ==
  /\ call.queue # <<>>
  /\ Head(call.queue).x3dh # Null
  /\ call.ref \in DOMAIN objects
  /\ Begun(u, objects[call.ref]) \subseteq {Head(call.queue).x3dh.opkId}

CallsOK(u) ==
  /\ DOMAIN fetch[u] = Polls
  /\ \A f \in Polls :
       /\ IsCall(u, fetch[u][f])
       /\ fetch[u][f].pc = "opk" => AtOpk(u, fetch[u][f], heap[u])
  /\ thread[u] \in Polls \cup {Null}
  /\ thread[u] # Null => fetch[u][thread[u]].pc \in {"loop", "log"}

LogsOK(u) ==
  /\ received[u] \in Seq(Text) /\ IsInjective(received[u])
  /\ sentLog[u] \subseteq Text /\ opened[u] \subseteq Text
  /\ dropped[u] \in Seq(Text)
  /\ sending[u] \in BOOLEAN
  /\ written[u] \in Nat
  /\ sending[u] => written[u] < Writes[u]

(* What msg:fetch goes on to delete is in the received log, unless it was  *)
(* withdrawn since.                                                        *)
StoredOK(u) ==
  \A f \in Polls : fetch[u][f].pc = "delete" =>
    ToSet(fetch[u][f].done) \subseteq ToSet(received[u]) \cup withdrawn

ClientOK(u) ==
  StoreOK(u) /\ KeysOK(u) /\ CallsOK(u) /\ LogsOK(u) /\ StoredOK(u)

DomainsOK ==
  /\ DOMAIN mailbox = User /\ DOMAIN opkPool = User
  /\ DOMAIN heap = User /\ DOMAIN sessions = User /\ DOMAIN opkMemory = User
  /\ DOMAIN thread = User /\ DOMAIN fetch = User /\ DOMAIN sending = User
  /\ DOMAIN disk = User /\ DOMAIN opkDisk = User
  /\ DOMAIN received = User /\ DOMAIN sentLog = User
  /\ DOMAIN generated = User /\ DOMAIN written = User
  /\ DOMAIN opened = User /\ DOMAIN dropped = User

MessengerInv ==
  /\ DomainsOK
  /\ \A u \in User :
       MailOK(u) /\ opkPool[u] \in Seq(OpkId) /\ ClientOK(u)

---------------------------------------------------------------------------
(* What Kept, the filter of sequences, returns.                            *)

(* Among natural numbers up to n there is a least one.                    *)
LEMMA Least ==
  ASSUME NEW n \in Nat, NEW T \in SUBSET (0..n), T # {}
  PROVE  \E i \in T : \A j \in T : i <= j
<1> DEFINE below(i) == {k \in 0..n : k < i}
           B == {below(i) : i \in T}
           R == StrictSubsetOrdering(0..n)
<1>1. IsFiniteSet(0..n)
  BY FS_Interval
<1>2. IsWellFoundedOn(R, SUBSET (0..n))
  BY <1>1, FS_FiniteSubsetsOfFinite, FS_StrictSubsetOrderingWellFounded
<1>3. B \subseteq SUBSET (0..n) /\ B # {}
  OBVIOUS
<1> HIDE DEF B
<1>4. PICK b \in B : \A c \in B : <<c, b>> \notin R
  BY <1>2, <1>3, WFMin
<1>5. PICK i \in T : b = below(i)
  BY DEF B
<1>6. ASSUME NEW j \in T, j < i PROVE FALSE
  <2>1. below(j) \in B /\ below(j) \in SUBSET (0..n)
    BY DEF B
  <2>2. below(j) \subseteq below(i) /\ below(i) \in SUBSET (0..n)
    BY <1>6
  <2>3. j \in below(i) /\ j \notin below(j)
    BY <1>6
  <2> HIDE DEF below
  <2>4. <<below(j), below(i)>> \in R
    BY <2>1, <2>2, <2>3 DEF StrictSubsetOrdering
  <2> QED
    BY <1>4, <1>5, <2>1, <2>4
<1> QED
  BY <1>6

(* Induction over 0..n, for a set instead of a predicate.                  *)
LEMMA Upwards ==
  ASSUME NEW n \in Nat, NEW T \in SUBSET (0..n), 0 \in T,
         \A i \in 0..(n - 1) : i \in T => i + 1 \in T
  PROVE  T = 0..n
<1> SUFFICES ASSUME T # 0..n PROVE FALSE
  OBVIOUS
<1> DEFINE rest == (0..n) \ T
<1>1. rest \in SUBSET (0..n) /\ rest # {}
  OBVIOUS
<1> HIDE DEF rest
<1>2. PICK i \in rest : \A j \in rest : i <= j
  BY <1>1, Least
<1>3. i \in 0..n /\ i # 0 /\ i - 1 \in 0..(n - 1) /\ i - 1 \notin rest
  BY <1>1, <1>2 DEF rest
<1>4. i - 1 \in T /\ (i - 1) + 1 = i
  BY <1>3 DEF rest
<1> QED
  BY <1>3, <1>4, <1>2 DEF rest

Filters(g, s, S) ==
  /\ g[0] = <<>>
  /\ \A i \in 1..Len(s) :
       g[i] = IF s[i] \in S THEN Append(g[i - 1], s[i]) ELSE g[i - 1]

(* The recursive function in Kept exists, and goes on one element a step.  *)
LEMMA KeptDef ==
  ASSUME NEW V, NEW s \in Seq(V), NEW S
  PROVE  \E g \in [0..Len(s) -> Seq(V)] :
           Filters(g, s, S) /\ Kept(s, S) = g[Len(s)]
<1> DEFINE n == Len(s)
           step(g, i) == IF s[i] \in S THEN Append(g[i - 1], s[i]) ELSE g[i - 1]
           F(g) == [i \in 0..Len(s) |->
                      IF i = 0 THEN <<>>
                      ELSE IF s[i] \in S THEN Append(g[i - 1], s[i])
                      ELSE g[i - 1]]
           Upto(k) == \E g \in [0..k -> Seq(V)] :
                        g[0] = <<>> /\ \A i \in 1..k : g[i] = step(g, i)
           T == {k \in 0..n : Upto(k)}
<1>1. n \in Nat /\ \A i \in 1..n : s[i] \in V
  OBVIOUS
<1>2. Upto(0)
  <2> DEFINE g == [i \in 0..0 |-> <<>>]
  <2>1. g \in [0..0 -> Seq(V)]
    OBVIOUS
  <2> WITNESS g \in [0..0 -> Seq(V)]
  <2> QED
    OBVIOUS
<1>3. ASSUME NEW k \in 0..(n - 1), Upto(k) PROVE Upto(k + 1)
  <2>1. PICK g \in [0..k -> Seq(V)] :
          g[0] = <<>> /\ \A i \in 1..k : g[i] = step(g, i)
    BY <1>3
  <2> DEFINE last == IF s[k + 1] \in S THEN Append(g[k], s[k + 1]) ELSE g[k]
             h == [i \in 0..(k + 1) |-> IF i = k + 1 THEN last ELSE g[i]]
  <2>2. last \in Seq(V)
    BY <1>1, <2>1
  <2>3. h \in [0..(k + 1) -> Seq(V)]
    BY <2>2
  <2>4. h[0] = <<>>
    BY <2>1
  <2>5. ASSUME NEW i \in 1..(k + 1) PROVE h[i] = step(h, i)
    <3>1. CASE i = k + 1
      <4>1. h[i] = last /\ i - 1 = k /\ k \in 0..(k + 1) /\ k # k + 1
        BY <3>1
      <4>2. h[k] = g[k]
        BY <4>1
      <4> QED
        BY <3>1, <4>1, <4>2
    <3>2. CASE i # k + 1
      <4>1. i \in 1..k /\ i \in 0..(k + 1) /\ i - 1 \in 0..(k + 1) /\ i - 1 # k + 1
        BY <3>2
      <4>2. h[i] = g[i] /\ h[i - 1] = g[i - 1]
        BY <3>2, <4>1
      <4> HIDE DEF h
      <4>3. g[i] = step(g, i)
        BY <2>1, <4>1
      <4> QED
        BY <4>2, <4>3
    <3> QED
      BY <3>1, <3>2
  <2> HIDE DEF h
  <2> QED
    BY <2>3, <2>4, <2>5
<1>4. Upto(n)
  <2> HIDE DEF Upto, n
  <2>1. T \in SUBSET (0..n) /\ 0 \in T
    BY <1>1, <1>2
  <2>2. \A i \in 0..(n - 1) : i \in T => i + 1 \in T
    BY <1>1, <1>3
  <2> HIDE DEF T
  <2>3. T = 0..n
    BY <1>1, <2>1, <2>2, Upwards
  <2> QED
    BY <1>1, <2>3 DEF T
<1>5. PICK g \in [0..n -> Seq(V)] :
        g[0] = <<>> /\ \A i \in 1..n : g[i] = step(g, i)
  BY <1>4
<1>6. g = F(g)
  <2>1. ASSUME NEW i \in 0..n
        PROVE  g[i] = IF i = 0 THEN <<>> ELSE step(g, i)
    <3>1. i = 0 \/ i \in 1..n
      BY <1>1
    <3> HIDE DEF step, n
    <3> QED
      BY <1>5, <3>1
  <2>2. g = [i \in 0..n |-> g[i]]
    BY <1>5
  <2> QED
    BY <2>1, <2>2
<1> DEFINE c == CHOOSE G : G = F(G)
<1>7. c = F(c)
  <2> HIDE DEF F
  <2> QED
    BY <1>6, Zenon
<1>7a. ASSUME NEW j \in 0..n
       PROVE  c[j] = IF j = 0 THEN <<>> ELSE step(c, j)
  <2>1. c[j] = F(c)[j]
    <3> HIDE DEF F, c
    <3> QED
      BY <1>7
  <2> HIDE DEF c
  <2>2. F(c)[j] = IF j = 0 THEN <<>> ELSE step(c, j)
    OBVIOUS
  <2> QED
    BY <2>1, <2>2
<1>8. Kept(s, S) = c[n]
  BY DEF Kept
<1> HIDE DEF c
<1>9. \A i \in 0..n : c[i] = g[i]
  <2> DEFINE U == {k \in 0..n : c[k] = g[k]}
  <2>1. U \in SUBSET (0..n) /\ 0 \in U
    BY <1>1, <1>5, <1>7a
  <2>2. \A i \in 0..(n - 1) : i \in U => i + 1 \in U
    <3> SUFFICES ASSUME NEW i \in 0..(n - 1), c[i] = g[i]
                 PROVE  c[i + 1] = g[i + 1]
      BY <1>1
    <3>1. i + 1 \in 1..n /\ i + 1 # 0 /\ (i + 1) - 1 = i
      BY <1>1
    <3>2. c[i + 1] = step(c, i + 1)
      BY <1>1, <1>7a, <3>1
    <3>3. g[i + 1] = step(g, i + 1)
      BY <1>5, <3>1
    <3> QED
      BY <3>1, <3>2, <3>3
  <2> HIDE DEF U
  <2>3. U = 0..n
    BY <1>1, <2>1, <2>2, Upwards
  <2> QED
    BY <2>3 DEF U
<1>10. Filters(g, s, S)
  BY <1>5 DEF Filters
<1>11. Kept(s, S) = g[n]
  BY <1>1, <1>8, <1>9
<1> QED
  BY <1>5, <1>10, <1>11

(* Kept picks the elements of s that are in S, each place of s once.       *)
LEMMA KeptPicks ==
  ASSUME NEW V, NEW s \in Seq(V), NEW S
  PROVE  /\ Kept(s, S) \in Seq(V)
         /\ \E h \in [DOMAIN Kept(s, S) -> DOMAIN s] :
              /\ \A i, j \in DOMAIN Kept(s, S) : h[i] = h[j] => i = j
              /\ \A i, j \in DOMAIN Kept(s, S) : i < j => h[i] < h[j]
              /\ \A i \in DOMAIN Kept(s, S) :
                   Kept(s, S)[i] = s[h[i]] /\ s[h[i]] \in S
              /\ \A j \in DOMAIN s :
                   s[j] \in S => \E i \in DOMAIN Kept(s, S) : h[i] = j
<1> DEFINE n == Len(s)
<1>1. n \in Nat /\ DOMAIN s = 1..n /\ \A i \in 1..n : s[i] \in V
  OBVIOUS
<1>2. PICK g \in [0..n -> Seq(V)] :
        /\ g[0] = <<>>
        /\ \A i \in 1..n :
             g[i] = IF s[i] \in S THEN Append(g[i - 1], s[i]) ELSE g[i - 1]
        /\ Kept(s, S) = g[n]
  <2>1. PICK g \in [0..Len(s) -> Seq(V)] :
          Filters(g, s, S) /\ Kept(s, S) = g[Len(s)]
    BY KeptDef, Zenon
  <2> QED
    BY <2>1 DEF Filters
<1> DEFINE Picks(h, k) ==
             /\ \A i, j \in 1..Len(g[k]) : h[i] = h[j] => i = j
             /\ \A i, j \in 1..Len(g[k]) : i < j => h[i] < h[j]
             /\ \A i \in 1..Len(g[k]) : g[k][i] = s[h[i]] /\ s[h[i]] \in S
             /\ \A j \in 1..k : s[j] \in S => \E i \in 1..Len(g[k]) : h[i] = j
           T == {k \in 0..n : \E h \in [1..Len(g[k]) -> 1..k] : Picks(h, k)}
<1> HIDE DEF n
<1>3. 0 \in T
  <2>1. Len(g[0]) = 0
    BY <1>2
  <2> DEFINE h == [i \in 1..0 |-> 0]
  <2>2. h \in [1..Len(g[0]) -> 1..0]
    BY <2>1
  <2>3. Picks(h, 0)
    BY <2>1
  <2> HIDE DEF Picks, h
  <2> QED
    BY <1>1, <2>2, <2>3
<1>4. ASSUME NEW k \in 0..(n - 1), k \in T PROVE k + 1 \in T
  <2>1. PICK h \in [1..Len(g[k]) -> 1..k] : Picks(h, k)
    BY <1>4
  <2>2. /\ k + 1 \in 1..n /\ k + 1 \in 0..n /\ k \in Nat /\ (k + 1) - 1 = k
        /\ k \in 0..n
    BY <1>1
  <2> DEFINE l == Len(g[k])
  <2>3. g[k] \in Seq(V) /\ l \in Nat /\ DOMAIN g[k] = 1..l
    BY <1>2, <2>2
  <2>4. CASE s[k + 1] \notin S
    <3>1. g[k + 1] = g[k]
      BY <1>2, <2>2, <2>4
    <3>2. h \in [1..l -> 1..(k + 1)]
      BY <2>1, <2>2, <2>3
    <3>3. Picks(h, k + 1)
      BY <2>1, <2>2, <2>4, <3>1
    <3> HIDE DEF Picks
    <3> QED
      BY <2>2, <3>1, <3>2, <3>3
  <2>5. CASE s[k + 1] \in S
    <3>1. g[k + 1] = Append(g[k], s[k + 1])
      BY <1>2, <2>2, <2>5
    <3>2. s[k + 1] \in V
      BY <1>1, <2>2
    <3>3. /\ Len(g[k + 1]) = l + 1
          /\ \A i \in 1..(l + 1) :
               g[k + 1][i] = IF i = l + 1 THEN s[k + 1] ELSE g[k][i]
      BY <2>3, <3>1, <3>2
    <3> DEFINE h2 == [i \in 1..(l + 1) |-> IF i = l + 1 THEN k + 1 ELSE h[i]]
    <3> HIDE DEF l
    <3>4. \A i \in 1..l : i \in 1..(l + 1) /\ i # l + 1
      BY <2>3
    <3>5. \A i \in 1..(l + 1) : i # l + 1 => i \in 1..l
      BY <2>3
    <3>6. h \in [1..l -> 1..k]
      BY <2>1 DEF l
    <3>7. ASSUME NEW i \in 1..l
          PROVE  h[i] \in 1..k /\ h[i] # k + 1 /\ h2[i] = h[i]
      <4>1. h[i] \in 1..k
        BY <3>6
      <4>2. h[i] # k + 1
        BY <2>2, <4>1
      <4>3. h2[i] = h[i]
        BY <3>4
      <4> QED
        BY <4>1, <4>2, <4>3
    <3>8. h2[l + 1] = k + 1 /\ l + 1 \in 1..(l + 1)
      BY <2>3
    <3>9. h2 \in [1..(l + 1) -> 1..(k + 1)]
      <4>1. ASSUME NEW i \in 1..(l + 1)
            PROVE  (IF i = l + 1 THEN k + 1 ELSE h[i]) \in 1..(k + 1)
        <5>1. k + 1 \in 1..(k + 1)
          BY <2>2
        <5>2. ASSUME i # l + 1 PROVE h[i] \in 1..(k + 1)
          <6>1. h[i] \in 1..k
            BY <3>5, <3>7, <5>2
          <6> QED
            BY <2>2, <6>1
        <5> QED
          BY <5>1, <5>2
      <4> QED
        BY <4>1
    <3> HIDE DEF h2
    <3>10. \A i, j \in 1..(l + 1) : h2[i] = h2[j] => i = j
      BY <2>1, <3>5, <3>7, <3>8 DEF l
    <3>14. ASSUME NEW i \in 1..(l + 1), NEW j \in 1..(l + 1), i < j
           PROVE  h2[i] < h2[j]
      <4>1. i \in 1..l /\ h2[i] = h[i] /\ h[i] \in 1..k
        BY <2>3, <3>7, <3>14
      <4>2. CASE j = l + 1
        BY <2>2, <3>8, <4>1, <4>2
      <4>3. CASE j # l + 1
        <5>1. j \in 1..l /\ h2[j] = h[j]
          BY <3>5, <3>7, <4>3
        <5> QED
          BY <2>1, <3>14, <4>1, <5>1 DEF l
      <4> QED
        BY <4>2, <4>3
    <3>11. \A i \in 1..(l + 1) :
             g[k + 1][i] = s[h2[i]] /\ s[h2[i]] \in S
      BY <2>1, <2>5, <3>3, <3>5, <3>7, <3>8 DEF l
    <3>12. \A j \in 1..(k + 1) :
             s[j] \in S => \E i \in 1..(l + 1) : h2[i] = j
      <4> SUFFICES ASSUME NEW j \in 1..(k + 1), s[j] \in S
                   PROVE  \E i \in 1..(l + 1) : h2[i] = j
        OBVIOUS
      <4>1. CASE j = k + 1
        BY <3>8, <4>1
      <4>2. CASE j # k + 1
        <5>1. j \in 1..k
          BY <2>2, <4>2
        <5>2. PICK i \in 1..l : h[i] = j
          BY <2>1, <5>1 DEF l
        <5> QED
          BY <3>4, <3>7, <5>2
      <4> QED
        BY <4>1, <4>2
    <3>13. Picks(h2, k + 1)
      BY <3>3, <3>10, <3>11, <3>12, <3>14
    <3> HIDE DEF Picks
    <3> QED
      BY <2>2, <3>3, <3>9, <3>13
  <2> QED
    BY <2>4, <2>5
<1>5. T = 0..n
  <2>1. T \in SUBSET (0..n)
    OBVIOUS
  <2> HIDE DEF T
  <2> QED
    BY <1>1, <1>3, <1>4, <2>1, Upwards
<1>6. n \in T
  <2> HIDE DEF T
  <2> QED
    BY <1>1, <1>5
<1>7. PICK h \in [1..Len(g[n]) -> 1..n] : Picks(h, n)
  <2> HIDE DEF Picks
  <2> QED
    BY <1>6
<1>8. g[n] \in Seq(V) /\ DOMAIN g[n] = 1..Len(g[n])
  BY <1>1, <1>2
<1> DEFINE kept == Kept(s, S)
<1>9. /\ kept \in Seq(V) /\ DOMAIN kept = 1..Len(g[n]) /\ DOMAIN s = 1..n
      /\ kept = g[n]
  BY <1>1, <1>2, <1>8
<1> HIDE DEF kept
<1>10. h \in [DOMAIN kept -> DOMAIN s]
  BY <1>7, <1>9
<1>11. /\ \A i, j \in DOMAIN kept : h[i] = h[j] => i = j
       /\ \A i, j \in DOMAIN kept : i < j => h[i] < h[j]
       /\ \A i \in DOMAIN kept : kept[i] = s[h[i]] /\ s[h[i]] \in S
       /\ \A j \in DOMAIN s : s[j] \in S => \E i \in DOMAIN kept : h[i] = j
  BY <1>7, <1>9
<1>12. \E x \in [DOMAIN kept -> DOMAIN s] :
         /\ \A i, j \in DOMAIN kept : x[i] = x[j] => i = j
         /\ \A i, j \in DOMAIN kept : i < j => x[i] < x[j]
         /\ \A i \in DOMAIN kept : kept[i] = s[x[i]] /\ s[x[i]] \in S
         /\ \A j \in DOMAIN s : s[j] \in S => \E i \in DOMAIN kept : x[i] = j
  BY <1>10, <1>11, Zenon
<1> QED
  BY <1>9, <1>12, Zenon DEF kept

(* Its set of elements.                                                    *)
LEMMA KeptSet ==
  ASSUME NEW V, NEW s \in Seq(V), NEW S
  PROVE  ToSet(Kept(s, S)) = ToSet(s) \cap S
<1>1. PICK h \in [DOMAIN Kept(s, S) -> DOMAIN s] :
        /\ \A i \in DOMAIN Kept(s, S) :
             Kept(s, S)[i] = s[h[i]] /\ s[h[i]] \in S
        /\ \A j \in DOMAIN s :
             s[j] \in S => \E i \in DOMAIN Kept(s, S) : h[i] = j
  BY KeptPicks
<1>2. ASSUME NEW x \in ToSet(Kept(s, S)) PROVE x \in ToSet(s) /\ x \in S
  BY <1>1, <1>2 DEF ToSet
<1>3. ASSUME NEW x \in ToSet(s), x \in S PROVE x \in ToSet(Kept(s, S))
  BY <1>1, <1>3 DEF ToSet
<1> QED
  BY <1>2, <1>3

(* What is different in s is different in it.                              *)
LEMMA KeptInjective ==
  ASSUME NEW V, NEW s \in Seq(V), NEW S, IsInjective(s)
  PROVE  IsInjective(Kept(s, S))
BY KeptPicks DEF IsInjective

LEMMA KeptDistinct ==
  ASSUME NEW V, NEW s \in Seq(V), NEW S, Distinct(s)
  PROVE  Distinct(Kept(s, S))
<1>1. PICK h \in [DOMAIN Kept(s, S) -> DOMAIN s] :
        /\ \A i, j \in DOMAIN Kept(s, S) : h[i] = h[j] => i = j
        /\ \A i \in DOMAIN Kept(s, S) : Kept(s, S)[i] = s[h[i]]
  BY KeptPicks
<1> QED
  BY <1>1 DEF Distinct

---------------------------------------------------------------------------
(* Queues and lists without repetition.                                    *)

(* The head of a queue and what is left behind it.                         *)
LEMMA QueueTail ==
  ASSUME NEW V, NEW s \in Seq(V), s # <<>>, Distinct(s)
  PROVE  /\ Head(s) \in V /\ Tail(s) \in Seq(V)
         /\ Distinct(Tail(s))
         /\ Head(s).text \in TextsOf(s)
         /\ TextsOf(Tail(s)) \subseteq TextsOf(s)
         /\ Head(s).text \notin TextsOf(Tail(s))
<1> DEFINE t == Tail(s)
<1>1. /\ Head(s) \in V /\ t \in Seq(V) /\ Len(t) = Len(s) - 1
      /\ \A i \in 1..Len(t) : t[i] = s[i + 1]
  BY HeadTailProperties
<1>2. Head(s) = s[1] /\ 1 \in DOMAIN s /\ Len(s) \in Nat
  OBVIOUS
<1> HIDE DEF t
<1>3. DOMAIN t = 1..Len(t) /\ DOMAIN s = 1..Len(s)
  BY <1>1
<1>4. ASSUME NEW i \in DOMAIN t
      PROVE  i + 1 \in DOMAIN s /\ i + 1 # 1 /\ t[i] = s[i + 1]
  BY <1>1, <1>2, <1>3
<1>5. Distinct(t)
  <2> SUFFICES ASSUME NEW i \in DOMAIN t, NEW j \in DOMAIN t,
                      t[i].text = t[j].text
               PROVE  i = j
    BY DEF Distinct
  <2>1. i + 1 = j + 1
    BY <1>4 DEF Distinct
  <2> QED
    BY <1>3, <2>1
<1>6. TextsOf(t) \subseteq TextsOf(s) /\ Head(s).text \notin TextsOf(t)
  BY <1>2, <1>4 DEF TextsOf, Distinct
<1>7. Head(s).text \in TextsOf(s)
  BY <1>2 DEF TextsOf
<1> QED
  BY <1>1, <1>5, <1>6, <1>7 DEF t

(* One new element at the end.                                             *)
LEMMA AppendNew ==
  ASSUME NEW V, NEW s \in Seq(V), IsInjective(s), NEW x \in V, x \notin ToSet(s)
  PROVE  /\ Append(s, x) \in Seq(V) /\ IsInjective(Append(s, x))
         /\ ToSet(Append(s, x)) = ToSet(s) \cup {x}
<1> DEFINE t == Append(s, x)
<1>1. /\ t \in Seq(V) /\ Len(t) = Len(s) + 1
      /\ \A i \in 1..Len(s) : t[i] = s[i]
      /\ t[Len(s) + 1] = x
  BY AppendProperties
<1>2. Len(s) \in Nat /\ DOMAIN s = 1..Len(s)
  OBVIOUS
<1> HIDE DEF t
<1>3. DOMAIN t = 1..(Len(s) + 1)
  BY <1>1
<1>4. \A i \in DOMAIN t : i \in DOMAIN s \/ i = Len(s) + 1
  BY <1>2, <1>3
<1>5. \A i \in DOMAIN s : i \in DOMAIN t /\ t[i] = s[i] /\ t[i] # x
  BY <1>1, <1>2, <1>3 DEF ToSet
<1>6. Len(s) + 1 \in DOMAIN t
  BY <1>2, <1>3
<1>7. IsInjective(t)
  BY <1>1, <1>4, <1>5 DEF IsInjective
<1>8. ToSet(t) = ToSet(s) \cup {x}
  BY <1>1, <1>4, <1>5, <1>6 DEF ToSet
<1> QED
  BY <1>1, <1>7, <1>8 DEF t

(* Two lists with nothing in common, one after the other.                  *)
LEMMA ConcatInjective ==
  ASSUME NEW V, NEW s \in Seq(V), NEW t \in Seq(V),
         IsInjective(s), IsInjective(t), ToSet(s) \cap ToSet(t) = {}
  PROVE  /\ s \o t \in Seq(V) /\ IsInjective(s \o t)
         /\ ToSet(s \o t) = ToSet(s) \cup ToSet(t)
<1> DEFINE c == s \o t
           m == Len(s)
           n == Len(t)
<1>1. /\ c \in Seq(V) /\ Len(c) = m + n
      /\ \A i \in 1..(m + n) : c[i] = IF i <= m THEN s[i] ELSE t[i - m]
  BY ConcatProperties
<1>2. m \in Nat /\ n \in Nat /\ DOMAIN s = 1..m /\ DOMAIN t = 1..n
  OBVIOUS
<1> HIDE DEF c, m, n
<1>3. DOMAIN c = 1..(m + n)
  BY <1>1
<1>4. ASSUME NEW i \in DOMAIN c
      PROVE  \/ i \in DOMAIN s /\ c[i] = s[i] /\ c[i] \in ToSet(s)
             \/ i - m \in DOMAIN t /\ c[i] = t[i - m] /\ c[i] \in ToSet(t)
                /\ i \in Nat
  <2>1. CASE i <= m
    BY <1>1, <1>2, <1>3, <2>1 DEF ToSet
  <2>2. CASE i > m
    <3>1. i - m \in DOMAIN t /\ c[i] = t[i - m] /\ i \in Nat
      BY <1>1, <1>2, <1>3, <2>2
    <3> QED
      BY <3>1 DEF ToSet
  <2> QED
    BY <1>2, <1>3, <2>1, <2>2
<1>5. \A i \in DOMAIN s : i \in DOMAIN c /\ c[i] = s[i]
  BY <1>1, <1>2, <1>3
<1>6. ASSUME NEW i \in DOMAIN t PROVE i + m \in DOMAIN c /\ c[i + m] = t[i]
  BY <1>1, <1>2, <1>3
<1>7. IsInjective(c)
  <2> SUFFICES ASSUME NEW i \in DOMAIN c, NEW j \in DOMAIN c, c[i] = c[j]
               PROVE  i = j
    BY DEF IsInjective
  <2>1. CASE i \in DOMAIN s /\ c[i] = s[i] /\ c[i] \in ToSet(s)
    BY <1>4, <2>1 DEF IsInjective
  <2>2. CASE i - m \in DOMAIN t /\ c[i] = t[i - m] /\ c[i] \in ToSet(t)
             /\ i \in Nat
    <3>1. /\ j - m \in DOMAIN t /\ c[j] = t[j - m] /\ j \in Nat
      BY <1>4, <2>2
    <3>2. i - m = j - m
      BY <2>2, <3>1 DEF IsInjective
    <3> QED
      BY <1>2, <2>2, <3>1, <3>2
  <2> QED
    BY <1>4, <2>1, <2>2
<1>8. ToSet(c) = ToSet(s) \cup ToSet(t)
  BY <1>4, <1>5, <1>6 DEF ToSet
<1> QED
  BY <1>1, <1>7, <1>8 DEF c

(* A list without one of its elements.                                     *)
LEMMA RemoveAtInjective ==
  ASSUME NEW V, NEW s \in Seq(V), IsInjective(s), NEW i \in DOMAIN s
  PROVE  /\ RemoveAt(s, i) \in Seq(V) /\ IsInjective(RemoveAt(s, i))
         /\ ToSet(RemoveAt(s, i)) \subseteq ToSet(s)
<1> DEFINE n == Len(s)
           a == SubSeq(s, 1, i - 1)
           b == SubSeq(s, i + 1, n)
<1>1. n \in Nat /\ DOMAIN s = 1..n /\ i \in 1..n /\ \A j \in 1..n : s[j] \in V
  OBVIOUS
<1> HIDE DEF n
<1>2. /\ a \in Seq(V) /\ Len(a) = i - 1
      /\ \A j \in 1..(i - 1) : a[j] = s[j]
  <2>1. \A j \in 1..(i - 1) : s[j] \in V
    BY <1>1
  <2>2. /\ a \in Seq(V) /\ Len(a) = (IF 1 <= i - 1 THEN i - 1 - 1 + 1 ELSE 0)
        /\ \A j \in 1..(i - 1 - 1 + 1) : a[j] = s[1 + j - 1]
    <3> HIDE DEF a
    <3>1. 1 \in Int /\ i - 1 \in Int
      BY <1>1
    <3> QED
      BY <2>1, <3>1, SubSeqProperties DEF a
  <2> HIDE DEF a
  <2> QED
    BY <1>1, <2>2
<1>3. /\ b \in Seq(V) /\ Len(b) = n - i
      /\ \A j \in 1..(n - i) : b[j] = s[i + j]
  <2>1. \A j \in (i + 1)..n : s[j] \in V
    BY <1>1
  <2>2. /\ b \in Seq(V) /\ Len(b) = (IF i + 1 <= n THEN n - (i + 1) + 1 ELSE 0)
        /\ \A j \in 1..(n - (i + 1) + 1) : b[j] = s[i + 1 + j - 1]
    <3> HIDE DEF b
    <3>1. i + 1 \in Int /\ n \in Int
      BY <1>1
    <3> QED
      BY <2>1, <3>1, SubSeqProperties DEF b
  <2> HIDE DEF b
  <2>3. Len(b) = n - i /\ n - (i + 1) + 1 = n - i
    BY <1>1, <2>2
  <2>4. ASSUME NEW j \in 1..(n - i) PROVE b[j] = s[i + j]
    <3>1. i + 1 + j - 1 = i + j
      BY <1>1
    <3> QED
      BY <2>2, <2>3, <3>1
  <2> QED
    BY <2>2, <2>3, <2>4
<1>4. RemoveAt(s, i) = a \o b
  BY DEF RemoveAt, n
<1> HIDE DEF a, b
<1>5. ASSUME NEW j \in DOMAIN a PROVE j \in DOMAIN s /\ j < i /\ a[j] = s[j]
  BY <1>1, <1>2
<1>6. ASSUME NEW j \in DOMAIN b
      PROVE  i + j \in DOMAIN s /\ i + j > i /\ j \in Nat /\ b[j] = s[i + j]
  BY <1>1, <1>3
<1>7. IsInjective(a)
  BY <1>5 DEF IsInjective
<1>8. IsInjective(b)
  <2> SUFFICES ASSUME NEW j \in DOMAIN b, NEW k \in DOMAIN b, b[j] = b[k]
               PROVE  j = k
    BY DEF IsInjective
  <2>1. i + j = i + k
    BY <1>6 DEF IsInjective
  <2> QED
    BY <1>1, <1>6, <2>1
<1>9. ToSet(a) \cap ToSet(b) = {}
  <2> SUFFICES ASSUME NEW j \in DOMAIN a, NEW k \in DOMAIN b, a[j] = b[k]
               PROVE  FALSE
    BY DEF ToSet
  <2>1. j = i + k
    BY <1>5, <1>6 DEF IsInjective
  <2> QED
    BY <1>1, <1>5, <1>6, <2>1
<1>10. ToSet(a) \subseteq ToSet(s) /\ ToSet(b) \subseteq ToSet(s)
  BY <1>5, <1>6 DEF ToSet
<1> QED
  BY <1>2, <1>3, <1>4, <1>7, <1>8, <1>9, <1>10, ConcatInjective

---------------------------------------------------------------------------
(* What a state remembers of how its session began.                        *)

(* One state after another of the same session: the first element of the   *)
(* root key, the secrets of X3DH, stays what it was.                       *)
SameSession(st, new) == StateFine(new) /\ new.rootKey[1] = st.rootKey[1]

(* kdfRk adds to a root key and leaves its beginning.                      *)
LEMMA RootKeyBegins ==
  ASSUME NEW rk \in RootKey, rk # <<>>, NEW a \in Key, NEW b \in Key
  PROVE  LET d == kdfRk(rk, agree(a, b))
         IN  d.rootKey \in RootKey /\ d.rootKey # <<>> /\ d.rootKey[1] = rk[1]
<1> DEFINE d == kdfRk(rk, agree(a, b))
           new == d.rootKey
<1>1. new = Append(rk, <<agree(a, b)>>)
  BY DEF kdfRk
<1>2. new \in RootKey
  BY RootKeyGrows
<1> HIDE DEF new
<1>3. <<agree(a, b)>> \in Seq(SUBSET Key)
  BY DEF agree
<1>4. rk \in Seq(Seq(SUBSET Key)) /\ 1 \in 1..Len(rk)
  BY DEF RootKey
<1>5. new # <<>> /\ new[1] = rk[1]
  BY <1>1, <1>3, <1>4, AppendProperties
<1> QED
  BY <1>2, <1>5 DEF new

(* A first message starts from the secrets its sender computed.            *)
LEMMA InitRatchetFine ==
  ASSUME NEW rk \in RootKey, rk # <<>>, NEW spk \in Key, NEW new \in Key
  PROVE  LET st == initRatchet(rk, spk, new)
         IN  /\ StateFine(st) /\ st.rootKey[1] = rk[1]
             /\ st.sendingChainKey # Null
<1>1. initRatchet(rk, spk, new).rootKey = kdfRk(rk, agree(new, spk)).rootKey
  BY DEF initRatchet
<1> QED
  BY <1>1, RootKeyBegins, InitRatchetOK DEF StateFine

(* And its reader's state from those that the header gives.                *)
LEMMA InitReceiverFine ==
  ASSUME NEW rk \in RootKey, rk # <<>>, NEW m, m.ratchetPublic \in Key,
         NEW spk \in Key
  PROVE  LET st == initRatchetReceiver(rk, m, spk)
         IN  StateFine(st) /\ st.rootKey[1] = rk[1]
<1>1. initRatchetReceiver(rk, m, spk).rootKey
        = kdfRk(rk, agree(spk, m.ratchetPublic)).rootKey
  BY DEF initRatchetReceiver
<1> QED
  BY <1>1, RootKeyBegins, InitRatchetReceiverOK DEF StateFine

(* The DH step before a first reply.                                       *)
LEMMA StepFollows ==
  ASSUME NEW st, StateFine(st), NEW key \in Key
  PROVE  /\ SameSession(st, dhRatchetStep(st, key))
         /\ dhRatchetStep(st, key).sendingChainKey # Null
<1>1. st.rootKey \in RootKey /\ st.remoteRatchetPublic \in Key
  BY DEF StateFine, StateOK, IsRatchetState
<1>2. dhRatchetStep(st, key).rootKey
        = kdfRk(st.rootKey, agree(key, st.remoteRatchetPublic)).rootKey
  BY DEF dhRatchetStep, StateFine, StateOK, IsRatchetState
<1> QED
  BY <1>1, <1>2, RootKeyBegins, DhRatchetStepOK DEF StateFine, SameSession

(* ratchetEncrypt, and the message it makes.                               *)
LEMMA EncryptFollows ==
  ASSUME NEW st, StateFine(st), st.sendingChainKey # Null
  PROVE  LET enc == ratchetEncrypt(st)
         IN  /\ SameSession(st, enc.st)
             /\ enc.messageKey \in ChainKey
             /\ enc.header \in [ratchetPublic : Key, Ns : Nat, PN : Nat]
<1> DEFINE enc == ratchetEncrypt(st)
<1>1. /\ StateOK(enc.st, {} \cup {enc.messageKey})
      /\ enc.messageKey \in ChainKey
      /\ enc.header \in [ratchetPublic : Key, Ns : Nat, PN : Nat]
  BY EncryptOK DEF StateFine
<1>2. enc.st.rootKey = st.rootKey
  BY DEF ratchetEncrypt, StateFine, StateOK, IsRatchetState
<1> HIDE DEF enc
<1>3. StateOK(enc.st, {})
  BY <1>1 DEF StateOK, KeysGone
<1> QED
  BY <1>1, <1>2, <1>3 DEF SameSession, StateFine, enc

(* Whatever message ratchetDecrypt is given.                               *)
LEMMA DecryptFollows ==
  ASSUME NEW st, StateFine(st), NEW key \in Key,
         NEW msg, msg.Ns \in Nat, msg.PN \in Nat, msg.ratchetPublic \in Key
  PROVE  SameSession(st, ratchetDecrypt(st, msg, key).st)
<1> DEFINE new == ratchetDecrypt(st, msg, key).st
<1>1. StateOK(st, {}) /\ IsRatchetState(st) /\ st.rootKey # <<>>
  BY DEF StateFine, StateOK
<1>2. StateOK(new, {})
  <2>1. DecryptOK(ratchetDecrypt(st, msg, key), msg, {})
    BY <1>1, RatchetDecryptOK
  <2> HIDE DEF new
  <2> QED
    BY <2>1 DEF DecryptOK, StateOK, KeysGone, new
<1>3. new.rootKey # <<>> /\ new.rootKey[1] = st.rootKey[1]
  <2>1. CASE cacheKey(msg) \in DOMAIN st.MKSKIPPED
    BY <1>1, <2>1 DEF ratchetDecrypt, decryptCached, IsRatchetState
  <2>2. CASE /\ cacheKey(msg) \notin DOMAIN st.MKSKIPPED
             /\ msg.ratchetPublic = st.remoteRatchetPublic
    <3>1. SameRatchet(st, new)
      BY <1>1, <2>2, OnChainSameRatchet DEF ratchetDecrypt
    <3> QED
      BY <1>1, <3>1 DEF SameRatchet
  <2>3. CASE /\ cacheKey(msg) \notin DOMAIN st.MKSKIPPED
             /\ msg.ratchetPublic # st.remoteRatchetPublic
    <3> DEFINE skipped == skipMessageKeys(st, st.remoteRatchetPublic, msg.PN)
               advanced == advanceRatchet(skipped, msg.ratchetPublic, key)
    <3>1. ratchetDecrypt(st, msg, key) = decryptNewChain(st, msg, key)
      BY <2>3 DEF ratchetDecrypt
    <3>2. CASE skipRefused(st, msg.PN)
      BY <1>1, <3>1, <3>2 DEF decryptNewChain
    <3>3. CASE ~skipRefused(st, msg.PN)
      <4>1. StateOK(skipped, {}) /\ SameRatchet(st, skipped)
        BY <1>1, <3>3, SkipOK, SkipSameRatchet
      <4> HIDE DEF skipped
      <4>2. IsRatchetState(skipped) /\ IsRatchetState(advanced)
        BY <4>1, AdvanceRatchetOK DEF StateOK
      <4> DEFINE r == kdfRk(skipped.rootKey,
                            agree(skipped.localRatchet, msg.ratchetPublic))
                 s == kdfRk(r.rootKey, agree(key, msg.ratchetPublic))
      <4>3. /\ skipped.rootKey \in RootKey /\ skipped.localRatchet \in Key
            /\ skipped.rootKey # <<>> /\ skipped.rootKey[1] = st.rootKey[1]
        BY <1>1, <4>1, <4>2 DEF IsRatchetState, SameRatchet
      <4>4. advanced.rootKey = s.rootKey
        BY <4>2 DEF advanceRatchet, IsRatchetState
      <4>5. /\ r.rootKey \in RootKey /\ r.rootKey # <<>>
            /\ r.rootKey[1] = st.rootKey[1]
        BY <4>3, RootKeyBegins
      <4> HIDE DEF r
      <4>6. s.rootKey # <<>> /\ s.rootKey[1] = st.rootKey[1]
        BY <4>5, RootKeyBegins
      <4> HIDE DEF s
      <4>7. decryptNewChain(st, msg, key) = decryptOnChain(advanced, msg)
        BY <3>3 DEF decryptNewChain, skipped
      <4> HIDE DEF advanced
      <4>8. SameRatchet(advanced, decryptOnChain(advanced, msg).st)
        BY <4>2, OnChainSameRatchet
      <4> QED
        BY <3>1, <4>4, <4>6, <4>7, <4>8 DEF SameRatchet
    <3> QED
      BY <3>2, <3>3
  <2> QED
    BY <2>1, <2>2, <2>3
<1> QED
  BY <1>2, <1>3 DEF SameSession, StateFine

(* The secrets of a session that u begins involve none of its own one-time *)
(* keys.                                                                   *)
LEMMA BegunSend ==
  ASSUME NEW u \in User, NEW n \in Nat, n >= FirstFresh,
         NEW opk \in {OpkOf(Peer(u), id) : id \in OpkId} \cup {Null}
  PROVE  LET bundle == [ikDh |-> KeysOf(Peer(u)).ikDh,
                        spk |-> KeysOf(Peer(u)).spk, opk |-> opk]
             rk == x3dhSend(KeysOf(u), <<u, n>>, bundle)
         IN  /\ rk \in RootKey /\ rk # <<>>
             /\ \A st : st.rootKey[1] = rk[1] => Begun(u, st) = {}
<1> DEFINE p == Peer(u)
           dh1 == {<<u, 0>>, <<p, 1>>}
           dh2 == {<<u, n>>, <<p, 0>>}
           dh3 == {<<u, n>>, <<p, 1>>}
           dh4 == {<<u, n>>, opk}
           secrets == IF opk = Null THEN <<dh1, dh2, dh3>>
                      ELSE <<dh1, dh2, dh3, dh4>>
           rk == x3dhSend(KeysOf(u), <<u, n>>,
                          [ikDh |-> KeysOf(p).ikDh, spk |-> KeysOf(p).spk,
                           opk |-> opk])
<1>1. p \in Parties /\ u \in Parties /\ p # u
  BY PartiesAssumption DEF Peer, User, Parties
<1>2. rk = <<secrets>>
  BY DEF x3dhSend, agree, KeysOf
<1> HIDE DEF p, rk
<1>3. opk # Null => opk \in Key /\ \E id \in OpkId : opk = <<p, 2 + id>>
  BY <1>1, BoundsAssumption DEF OpkOf, OpkId, Key, p
<1>4. /\ dh1 \in SUBSET Key /\ dh2 \in SUBSET Key /\ dh3 \in SUBSET Key
      /\ opk # Null => dh4 \in SUBSET Key
  BY <1>1, <1>3 DEF Key
<1>5. secrets \in Seq(SUBSET Key)
  <2> HIDE DEF dh1, dh2, dh3, dh4
  <2>1. CASE opk = Null
    BY <1>4, <2>1
  <2>2. CASE opk # Null
    BY <1>4, <2>2
  <2> QED
    BY <2>1, <2>2
<1>6. ToSet(secrets) \subseteq {dh1, dh2, dh3}
        \cup (IF opk = Null THEN {} ELSE {dh4})
  <2> HIDE DEF dh1, dh2, dh3, dh4
  <2>1. CASE opk = Null
    <3>1. secrets = <<dh1, dh2, dh3>>
      BY <2>1
    <3> QED
      BY <2>1, <3>1 DEF ToSet
  <2>2. CASE opk # Null
    <3>1. secrets = <<dh1, dh2, dh3, dh4>>
      BY <2>2
    <3> QED
      BY <2>2, <3>1 DEF ToSet
  <2> QED
    BY <2>1, <2>2
<1>7. ASSUME NEW id \in OpkId
      PROVE  /\ OpkOf(u, id) \notin dh1 /\ OpkOf(u, id) \notin dh2
             /\ OpkOf(u, id) \notin dh3
             /\ opk # Null => OpkOf(u, id) \notin dh4
  <2>1. /\ OpkOf(u, id) = <<u, 2 + id>> /\ id \in Nat
        /\ 2 + id # n /\ 2 + id # 0
    BY BoundsAssumption DEF OpkOf, OpkId, FirstFresh
  <2> QED
    BY <1>1, <1>3, <2>1
<1> HIDE DEF dh1, dh2, dh3, dh4
<1>8. \A id \in OpkId : \A secret \in ToSet(secrets) : OpkOf(u, id) \notin secret
  BY <1>6, <1>7
<1> HIDE DEF secrets
<1>9. rk \in RootKey /\ rk # <<>> /\ rk[1] = secrets
  BY <1>2, <1>5 DEF RootKey
<1>10. \A st : st.rootKey[1] = rk[1] => Begun(u, st) = {}
  BY <1>8, <1>9 DEF Begun
<1> QED
  BY <1>9, <1>10 DEF rk, p

(* Those of a session that u is written to involve the one-time key in the *)
(* header, if there is one, and no other.                                  *)
LEMMA BegunReceive ==
  ASSUME NEW u \in User, NEW keys \in SUBSET OpkId,
         NEW x3dh \in [eph : {Peer(u)} \X Nat, ikDh : {<<Peer(u), 0>>},
                       opkId : OpkId \cup {Null}],
         x3dh.opkId \in keys \cup {Null}
  PROVE  LET rk == x3dhReceive(KeysOf(u), [id \in keys |-> OpkOf(u, id)], x3dh)
         IN  /\ rk \in RootKey /\ rk # <<>>
             /\ \A st : st.rootKey[1] = rk[1] =>
                  Begun(u, st) \subseteq {x3dh.opkId} \ {Null}
<1> DEFINE p == Peer(u)
           eph == x3dh.eph
           id0 == x3dh.opkId
           dh1 == {<<u, 1>>, <<p, 0>>}
           dh2 == {<<u, 0>>, eph}
           dh3 == {<<u, 1>>, eph}
           dh4 == {<<u, 2 + id0>>, eph}
           secrets == IF id0 = Null THEN <<dh1, dh2, dh3>>
                      ELSE <<dh1, dh2, dh3, dh4>>
           rk == x3dhReceive(KeysOf(u), [id \in keys |-> OpkOf(u, id)], x3dh)
<1>1. p \in Parties /\ u \in Parties /\ p # u
  BY PartiesAssumption DEF Peer, User, Parties
<1>2. x3dh.ikDh = <<p, 0>> /\ eph \in {p} \X Nat /\ id0 \in keys \cup {Null}
  OBVIOUS
<1>3. rk = <<secrets>>
  BY <1>2 DEF x3dhReceive, agree, KeysOf, OpkOf
<1> HIDE DEF p, rk, eph, id0
<1>4. id0 # Null => id0 \in OpkId /\ id0 \in Nat
  BY <1>2, BoundsAssumption DEF OpkId
<1>5. eph \in Key /\ \A i : eph # <<u, i>>
  BY <1>1, <1>2 DEF Key
<1>6. /\ dh1 \in SUBSET Key /\ dh2 \in SUBSET Key /\ dh3 \in SUBSET Key
      /\ id0 # Null => dh4 \in SUBSET Key
  BY <1>1, <1>4, <1>5 DEF Key
<1>7. secrets \in Seq(SUBSET Key)
  <2> HIDE DEF dh1, dh2, dh3, dh4
  <2>1. CASE id0 = Null
    BY <1>6, <2>1
  <2>2. CASE id0 # Null
    BY <1>6, <2>2
  <2> QED
    BY <2>1, <2>2
<1>8. ToSet(secrets) \subseteq {dh1, dh2, dh3}
        \cup (IF id0 = Null THEN {} ELSE {dh4})
  <2> HIDE DEF dh1, dh2, dh3, dh4
  <2>1. CASE id0 = Null
    <3>1. secrets = <<dh1, dh2, dh3>>
      BY <2>1
    <3> QED
      BY <2>1, <3>1 DEF ToSet
  <2>2. CASE id0 # Null
    <3>1. secrets = <<dh1, dh2, dh3, dh4>>
      BY <2>2
    <3> QED
      BY <2>2, <3>1 DEF ToSet
  <2> QED
    BY <2>1, <2>2
<1>9. ASSUME NEW id \in OpkId
      PROVE  /\ OpkOf(u, id) \notin dh1 /\ OpkOf(u, id) \notin dh2
             /\ OpkOf(u, id) \notin dh3
             /\ id0 # Null /\ id # id0 => OpkOf(u, id) \notin dh4
  <2>1. /\ OpkOf(u, id) = <<u, 2 + id>> /\ id \in Nat
        /\ 2 + id # 1 /\ 2 + id # 0
    BY BoundsAssumption DEF OpkOf, OpkId
  <2> QED
    BY <1>1, <1>4, <1>5, <2>1
<1> HIDE DEF dh1, dh2, dh3, dh4
<1>10. \A id \in OpkId : \A secret \in ToSet(secrets) :
         OpkOf(u, id) \in secret => id = id0 /\ id0 # Null
  BY <1>8, <1>9
<1> HIDE DEF secrets
<1>11. rk \in RootKey /\ rk # <<>> /\ rk[1] = secrets
  BY <1>3, <1>7 DEF RootKey
<1>12. \A st : st.rootKey[1] = rk[1] => Begun(u, st) \subseteq {id0} \ {Null}
  BY <1>10, <1>11 DEF Begun
<1> QED
  BY <1>11, <1>12 DEF rk, p, id0

---------------------------------------------------------------------------
(* The heap, the map into it and the file.                                 *)

(* NewRef finds a reference that is free.                                  *)
LEMMA NewRefFree ==
  ASSUME NEW objects, IsHeap(objects)
  PROVE  NewRef(objects) \in Nat /\ NewRef(objects) \notin DOMAIN objects
<1> DEFINE used == DOMAIN objects
           n == Cardinality(used)
           candidates == 1..(n + 1)
<1>1. IsFiniteSet(used)
  BY DEF IsHeap
<1> HIDE DEF used
<1>2. n \in Nat
  BY <1>1, FS_CardinalityType
<1>3. IsFiniteSet(candidates) /\ Cardinality(candidates) = n + 1
  <2> HIDE DEF n
  <2>1. /\ IsFiniteSet(1..(n + 1))
        /\ Cardinality(1..(n + 1)) = IF 1 > n + 1 THEN 0 ELSE (n + 1) - 1 + 1
    <3>1. 1 \in Int /\ n + 1 \in Int
      BY <1>2
    <3> QED
      BY <3>1, FS_Interval
  <2> QED
    BY <1>2, <2>1
<1>4. \E ref \in candidates : ref \notin used
  <2> SUFFICES ASSUME candidates \subseteq used PROVE FALSE
    OBVIOUS
  <2>1. Cardinality(candidates) <= Cardinality(used)
    <3> HIDE DEF candidates
    <3> QED
      BY <1>1, FS_Subset
  <2> QED
    BY <1>2, <1>3, <2>1
<1>5. NewRef(objects) = CHOOSE ref \in candidates : ref \notin used
  BY DEF NewRef, used
<1>6. NewRef(objects) \in candidates /\ NewRef(objects) \notin used
  BY <1>4, <1>5
<1> QED
  BY <1>2, <1>6 DEF used

(* The one-time keys stay the same in a later state.                       *)
LEMMA BegunFollows ==
  ASSUME NEW u, NEW st, NEW new, SameSession(st, new)
  PROVE  Begun(u, new) = Begun(u, st)
BY DEF SameSession, Begun

(* An object that changes, or comes, and everything that refers to the     *)
(* heap.                                                                   *)
LEMMA PutFine ==
  ASSUME NEW objects, IsHeap(objects), NEW ref \in Nat, NEW st, StateFine(st),
         ref \in DOMAIN objects => SameSession(objects[ref], st)
  PROVE  LET after == put(objects, ref, st)
         IN  /\ IsHeap(after)
             /\ DOMAIN after = DOMAIN objects \cup {ref}
             /\ after[ref] = st
             /\ \A r \in DOMAIN objects : \A u : Begun(u, after[r]) = Begun(u, objects[r])
             /\ \A u, map, keys :
                  IsMap(u, map, objects, keys) => IsMap(u, map, after, keys)
<1> DEFINE after == put(objects, ref, st)
<1>1. /\ DOMAIN after = DOMAIN objects \cup {ref}
      /\ \A r \in DOMAIN after : after[r] = IF r = ref THEN st ELSE objects[r]
  BY DEF put
<1> HIDE DEF after
<1>2. IsFiniteSet(DOMAIN after)
  BY <1>1, FS_AddElement DEF IsHeap
<1>3. IsHeap(after)
  BY <1>1, <1>2 DEF IsHeap
<1>4. after[ref] = st
  BY <1>1
<1>5. ASSUME NEW r \in DOMAIN objects, NEW u
      PROVE  Begun(u, after[r]) = Begun(u, objects[r])
  <2>1. CASE r = ref
    BY <1>4, <2>1, BegunFollows
  <2>2. CASE r # ref
    BY <1>1, <2>2
  <2> QED
    BY <2>1, <2>2
<1>6. ASSUME NEW u, NEW map, NEW keys, IsMap(u, map, objects, keys)
      PROVE  IsMap(u, map, after, keys)
  BY <1>1, <1>5, <1>6 DEF IsMap
<1> QED
  BY <1>1, <1>3, <1>4, <1>5, <1>6 DEF after

(* Collecting what is not referred to.                                     *)
LEMMA RestrictFine ==
  ASSUME NEW objects, IsHeap(objects), NEW S
  PROVE  LET after == Restrict(objects, DOMAIN objects \cap S)
         IN  /\ IsHeap(after)
             /\ DOMAIN after = DOMAIN objects \cap S
             /\ \A r \in DOMAIN after : after[r] = objects[r]
<1> DEFINE after == Restrict(objects, DOMAIN objects \cap S)
<1>1. /\ DOMAIN after = DOMAIN objects \cap S
      /\ \A r \in DOMAIN after : after[r] = objects[r]
  BY DEF Restrict
<1>2. IsFiniteSet(DOMAIN objects \cap S)
  BY FS_Intersection DEF IsHeap
<1> HIDE DEF after
<1> QED
  BY <1>1, <1>2 DEF IsHeap, after

(* What saveSessions writes.                                               *)
LEMMA SnapshotFine ==
  ASSUME NEW u, NEW map, NEW objects, NEW keys,
         IsHeap(objects), IsMap(u, map, objects, keys)
  PROVE  IsSaved(u, Snapshot(map, objects), keys)
BY DEF IsHeap, IsMap, IsSaved, Snapshot

(* Fewer keys are easier to avoid.                                         *)
LEMMA FewerKeysFine ==
  ASSUME NEW u, NEW keys, NEW fewer \in SUBSET keys, NEW map, NEW objects,
         NEW file
  PROVE  /\ IsMap(u, map, objects, keys) => IsMap(u, map, objects, fewer)
         /\ IsSaved(u, file, keys) => IsSaved(u, file, fewer)
<1>1. ASSUME IsMap(u, map, objects, keys) PROVE IsMap(u, map, objects, fewer)
  BY <1>1 DEF IsMap
<1>2. ASSUME IsSaved(u, file, keys) PROVE IsSaved(u, file, fewer)
  BY <1>2 DEF IsSaved
<1> QED
  BY <1>1, <1>2

(* No session at all.                                                      *)
LEMMA NoSessionsFine ==
  ASSUME NEW u, NEW keys
  PROVE  IsSaved(u, NoSessions, keys) /\ DOMAIN NoSessions = {}
BY DEF IsSaved, NoSessions

(* SetToSeq lists every member of a finite set.                            *)
LEMMA Listed ==
  ASSUME NEW S, IsFiniteSet(S)
  PROVE  LET names == SetToSeq(S)
         IN  /\ DOMAIN names \subseteq Nat /\ IsFiniteSet(DOMAIN names)
             /\ \A i \in DOMAIN names : names[i] \in S
             /\ \A x \in S : \E i \in DOMAIN names : names[i] = x
<1> DEFINE n == Cardinality(S)
           names == SetToSeq(S)
<1>1. n \in Nat /\ ExistsBijection(1..n, S)
  BY FS_CardinalityType
<1>2. /\ IsFiniteSet(1..n) /\ Cardinality(1..n) = n
  <2> HIDE DEF n
  <2>1. /\ IsFiniteSet(1..n)
        /\ Cardinality(1..n) = IF 1 > n THEN 0 ELSE n - 1 + 1
    <3>1. 1 \in Int /\ n \in Int
      BY <1>1
    <3> QED
      BY <3>1, FS_Interval
  <2> QED
    BY <1>1, <2>1
<1>3. \E f \in [1..n -> S] : IsInjective(f)
  BY <1>1 DEF ExistsBijection, Bijection, Injection
<1>4. names = CHOOSE f \in [1..n -> S] : IsInjective(f)
  BY DEF SetToSeq
<1> HIDE DEF n, names
<1>5. names \in [1..n -> S] /\ IsInjective(names)
  BY <1>3, <1>4
<1>6. names \in Injection(1..n, S)
  BY <1>5 DEF Injection
<1>7. names \in Surjection(1..n, S)
  BY <1>2, <1>6, FS_Injection DEF n
<1>8. \A x \in S : \E i \in 1..n : names[i] = x
  BY <1>7 DEF Surjection
<1> QED
  BY <1>1, <1>2, <1>5, <1>8 DEF names

(* auth:login after a start: the sessions are those of the file, each with *)
(* an object of its own.                                                   *)
LEMMA RestartFine ==
  ASSUME DomainsOK, NEW u \in User, NEW file, NEW keys, NEW disked,
         IsSaved(u, file, disked), Restart(u, file, keys)
  PROVE  /\ IsHeap(heap'[u])
         /\ IsMap(u, sessions'[u], heap'[u], disked)
<1> DEFINE names == SetToSeq(DOMAIN file)
           objects == [i \in DOMAIN names |-> file[names[i]]]
           map == [k \in DOMAIN file |-> CHOOSE i \in DOMAIN names : names[i] = k]
<1>1. heap'[u] = objects /\ sessions'[u] = map
  BY DEF Restart, DomainsOK
<1>2. IsFiniteSet({"name", "uuid"})
  <2>1. IsFiniteSet({"name"} \cup {"uuid"})
    BY FS_Singleton, FS_AddElement
  <2>2. {"name"} \cup {"uuid"} = {"name", "uuid"}
    OBVIOUS
  <2> QED
    BY <2>1, <2>2
<1>3. IsFiniteSet(DOMAIN file)
  BY <1>2, FS_Subset DEF IsSaved
<1>4. /\ DOMAIN names \subseteq Nat /\ IsFiniteSet(DOMAIN names)
      /\ \A i \in DOMAIN names : names[i] \in DOMAIN file
      /\ \A x \in DOMAIN file : \E i \in DOMAIN names : names[i] = x
  BY <1>3, Listed
<1> HIDE DEF names
<1>5. DOMAIN objects = DOMAIN names
      /\ \A i \in DOMAIN names : objects[i] = file[names[i]]
  OBVIOUS
<1>6. ASSUME NEW k \in DOMAIN file
      PROVE  map[k] \in DOMAIN names /\ names[map[k]] = k
  BY <1>4
<1>7. DOMAIN map = DOMAIN file
  OBVIOUS
<1> HIDE DEF objects, map
<1>8. IsHeap(objects)
  BY <1>4, <1>5 DEF IsHeap, IsSaved
<1>9. IsMap(u, map, objects, disked)
  BY <1>4, <1>5, <1>6, <1>7 DEF IsMap, IsSaved
<1> QED
  BY <1>1, <1>8, <1>9

---------------------------------------------------------------------------
(* Steps of one user, and what they leave alone.                           *)

(* g is f but for u.                                                       *)
Only(u, f, g) ==
  DOMAIN g = DOMAIN f /\ \A v \in DOMAIN f \ {u} : g[v] = f[v]

(* Memory, files and counters change for u alone.                          *)
StepOf(u) ==
  /\ Only(u, heap, heap') /\ Only(u, sessions, sessions')
  /\ Only(u, opkMemory, opkMemory') /\ Only(u, thread, thread')
  /\ Only(u, fetch, fetch') /\ Only(u, sending, sending')
  /\ Only(u, disk, disk') /\ Only(u, opkDisk, opkDisk')
  /\ Only(u, received, received') /\ Only(u, sentLog, sentLog')
  /\ Only(u, generated, generated') /\ Only(u, written, written')
  /\ Only(u, opened, opened') /\ Only(u, dropped, dropped')
  /\ withdrawn \subseteq withdrawn'

(* An assignment to one entry.                                             *)
LEMMA OnlyExcept ==
  ASSUME NEW u, NEW f, NEW e
  PROVE  Only(u, f, [f EXCEPT ![u] = e]) /\ Only(u, f, f)
BY DEF Only

(* The other user's part of the invariant is not touched.                  *)
LEMMA OtherUser ==
  ASSUME DomainsOK, NEW u \in User, StepOf(u), NEW v \in User, v # u,
         ClientOK(v)
  PROVE  ClientOK(v)'
<1>1. /\ heap'[v] = heap[v] /\ sessions'[v] = sessions[v]
      /\ opkMemory'[v] = opkMemory[v] /\ thread'[v] = thread[v]
      /\ fetch'[v] = fetch[v] /\ sending'[v] = sending[v]
      /\ disk'[v] = disk[v] /\ opkDisk'[v] = opkDisk[v]
      /\ received'[v] = received[v] /\ sentLog'[v] = sentLog[v]
      /\ generated'[v] = generated[v] /\ written'[v] = written[v]
      /\ opened'[v] = opened[v] /\ dropped'[v] = dropped[v]
  BY DEF DomainsOK, StepOf, Only
<1>2. StoreOK(v)' /\ KeysOK(v)'
  BY <1>1 DEF ClientOK, StoreOK, KeysOK
<1>3. CallsOK(v)'
  BY <1>1 DEF ClientOK, CallsOK
<1>4. LogsOK(v)'
  BY <1>1 DEF ClientOK, LogsOK
<1>5. StoredOK(v)'
  BY <1>1 DEF ClientOK, StoredOK, StepOf
<1> QED
  BY <1>2, <1>3, <1>4, <1>5 DEF ClientOK

(* The mailboxes and the pools stay well formed.                           *)
ServerOK ==
  /\ DOMAIN mailbox = User /\ DOMAIN opkPool = User
  /\ \A v \in User : MailOK(v) /\ opkPool[v] \in Seq(OpkId)

(* So a step of u preserves the invariant if it does so for u and for the  *)
(* server.                                                                 *)
LEMMA StepClosed ==
  ASSUME MessengerInv, NEW u \in User, StepOf(u), ClientOK(u)', ServerOK'
  PROVE  MessengerInv'
<1>1. DomainsOK'
  BY DEF MessengerInv, DomainsOK, StepOf, Only, ServerOK
<1>2. \A v \in User : ClientOK(v)'
  BY OtherUser DEF MessengerInv
<1> QED
  BY <1>1, <1>2 DEF MessengerInv, ServerOK

(* What leaves a mailbox is in its reader's received log, or withdrawn.    *)
NothingLost ==
  \A v \in User :
    TextsOf(mailbox[v]) \ TextsOf(mailbox'[v])
      \subseteq ToSet(received[v]) \cup withdrawn'

(* A step that leaves the mailboxes alone.                                 *)
LEMMA ServerUntouched ==
  ASSUME MessengerInv, UNCHANGED <<server, written>>
  PROVE  ServerOK' /\ NothingLost
<1>1. ServerOK
  BY DEF MessengerInv, DomainsOK, ServerOK
<1>2. ServerOK'
  BY <1>1 DEF ServerOK, MailOK, server
<1>3. NothingLost
  BY DEF NothingLost, server
<1> QED
  BY <1>2, <1>3

(* Rows leave the mailbox of v.                                            *)
LEMMA ServerDeletes ==
  ASSUME MessengerInv, NEW v \in User, NEW text,
         mailbox' = [mailbox EXCEPT ![v] = delete_message(@, text)],
         UNCHANGED <<opkPool, written>>
  PROVE  /\ ServerOK'
         /\ \A w \in User : w # v => mailbox'[w] = mailbox[w]
         /\ TextsOf(mailbox[v]) \ TextsOf(mailbox'[v]) \subseteq {text}
<1> DEFINE box == mailbox[v]
           S == {m \in ToSet(box) : m.text # text}
           left == Kept(box, S)
<1>1. DomainsOK /\ \A w \in User : MailOK(w) /\ opkPool[w] \in Seq(OpkId)
  BY DEF MessengerInv
<1>2. /\ DOMAIN mailbox' = User /\ mailbox'[v] = left
      /\ \A w \in User : w # v => mailbox'[w] = mailbox[w]
  BY <1>1 DEF DomainsOK, delete_message
<1>3. box \in Seq(MessageTo(v)) /\ Distinct(box)
  BY <1>1 DEF MailOK
<1>4. /\ left \in Seq(MessageTo(v)) /\ Distinct(left)
      /\ ToSet(left) = ToSet(box) \cap S
  BY <1>3, KeptPicks, KeptDistinct, KeptSet
<1> HIDE DEF left
<1>5. \A i \in DOMAIN left : left[i].text.n < written[Peer(v)]
  <2> SUFFICES ASSUME NEW i \in DOMAIN left
               PROVE  left[i].text.n < written[Peer(v)]
    OBVIOUS
  <2>1. left[i] \in ToSet(box)
    BY <1>4 DEF ToSet
  <2>2. PICK j \in DOMAIN box : box[j] = left[i]
    BY <2>1 DEF ToSet
  <2> QED
    BY <1>1, <2>2 DEF MailOK
<1>6. MailOK(v)'
  BY <1>2, <1>4, <1>5 DEF MailOK
<1>7. \A w \in User : w # v => MailOK(w)'
  BY <1>1, <1>2 DEF MailOK
<1>8. ServerOK'
  BY <1>1, <1>2, <1>6, <1>7 DEF ServerOK, DomainsOK
<1>9. TextsOf(box) \ TextsOf(left) \subseteq {text}
  <2> SUFFICES ASSUME NEW i \in DOMAIN box, box[i].text # text
               PROVE  box[i].text \in TextsOf(left)
    BY DEF TextsOf
  <2>1. box[i] \in ToSet(left)
    BY <1>4 DEF ToSet
  <2>2. PICK j \in DOMAIN left : left[j] = box[i]
    BY <2>1 DEF ToSet
  <2> QED
    BY <2>2 DEF TextsOf
<1> QED
  BY <1>2, <1>8, <1>9

(* A new heap in which everything is found that was in the old one, with   *)
(* the past it had.                                                        *)
HeapKept(u, old, new) ==
  \A ref \in DOMAIN old :
    ref \in DOMAIN new /\ Begun(u, new[ref]) = Begun(u, old[ref])

(* The calls under way do not notice what else becomes of the heap.        *)
LEMMA CallsKept ==
  ASSUME NEW u \in User, CallsOK(u), fetch'[u] = fetch[u],
         thread'[u] = thread[u], HeapKept(u, heap[u], heap'[u])
  PROVE  CallsOK(u)'
<1>1. \A f \in Polls :
        fetch[u][f].pc = "opk" => AtOpk(u, fetch[u][f], heap'[u])
  BY DEF CallsOK, AtOpk, HeapKept
<1> QED
  BY <1>1 DEF CallsOK

(* A call that is not under way.                                           *)
LEMMA IdleFine ==
  ASSUME NEW u \in User
  PROVE  IsCall(u, Idle) /\ Idle.pc = "idle"
<1>1. Idle \in [pc : {"idle", "loop", "opk", "log", "delete"},
                queue : Seq(MessageTo(u)), ref : Nat, done : Seq(Text)]
  BY DEF Idle
<1>2. Idle.queue = <<>> /\ Idle.done = <<>> /\ Idle.pc = "idle"
  BY DEF Idle
<1>3. DOMAIN <<>> = {}
  OBVIOUS
<1> QED
  BY <1>1, <1>2, <1>3 DEF IsCall, Distinct, IsInjective, ToSet, TextsOf

(* After a start no msg:fetch is under way.                                *)
LEMMA RestartCalls ==
  ASSUME DomainsOK, NEW u \in User, NEW file, NEW keys, Restart(u, file, keys)
  PROVE  CallsOK(u)' /\ StoredOK(u)'
<1>1. /\ fetch'[u] = [f \in Polls |-> Idle] /\ thread'[u] = Null
  BY DEF Restart, DomainsOK
<1>2. \A f \in Polls : IsCall(u, fetch'[u][f]) /\ fetch'[u][f].pc = "idle"
  BY <1>1, IdleFine
<1>3. CallsOK(u)'
  BY <1>1, <1>2 DEF CallsOK
<1>4. StoredOK(u)'
  BY <1>2 DEF StoredOK
<1> QED
  BY <1>3, <1>4

(* What a start does to memory.                                            *)
LEMMA RestartStep ==
  ASSUME DomainsOK, NEW u \in User, NEW file, NEW keys, Restart(u, file, keys)
  PROVE  /\ Only(u, heap, heap') /\ Only(u, sessions, sessions')
         /\ Only(u, opkMemory, opkMemory') /\ Only(u, thread, thread')
         /\ Only(u, fetch, fetch') /\ Only(u, sending, sending')
         /\ opkMemory'[u] = keys /\ sending'[u] = FALSE
<1>1. /\ Only(u, opkMemory, opkMemory') /\ Only(u, thread, thread')
      /\ Only(u, fetch, fetch') /\ Only(u, sending, sending')
  BY OnlyExcept DEF Restart
<1>2. Only(u, heap, heap') /\ Only(u, sessions, sessions')
  BY OnlyExcept DEF Restart
<1>3. opkMemory'[u] = keys /\ sending'[u] = FALSE
  BY DEF Restart, DomainsOK
<1> QED
  BY <1>1, <1>2, <1>3

(* Each user is the other's peer.                                          *)
LEMMA Peers ==
  ASSUME NEW u \in User
  PROVE  Peer(u) \in User /\ Peer(u) # u /\ Peer(Peer(u)) = u
         /\ \A v \in User : v # u => v = Peer(u)
BY PartiesAssumption DEF Peer, User, Parties

---------------------------------------------------------------------------
(* msg:send.                                                               *)

(* The message that is posted.                                             *)
LEMMA PostedMessage ==
  ASSUME NEW u \in User, written[u] \in Nat, written[u] < Writes[u],
         NEW st, StateFine(st), st.sendingChainKey # Null,
         NEW x3dh \in [eph : {u} \X Nat, ikDh : {<<u, 0>>},
                       opkId : OpkId \cup {Null}] \cup {Null}
  PROVE  LET enc == ratchetEncrypt(st)
             m == [text |-> [from |-> u, n |-> written[u]], x3dh |-> x3dh,
                   ratchetPublic |-> enc.header.ratchetPublic,
                   Ns |-> enc.header.Ns, PN |-> enc.header.PN,
                   messageKey |-> enc.messageKey]
         IN  m \in MessageTo(Peer(u)) /\ m.text.n = written[u] /\ m.text \in Text
<1> DEFINE enc == ratchetEncrypt(st)
           text == [from |-> u, n |-> written[u]]
<1>1. /\ enc.messageKey \in ChainKey
      /\ enc.header \in [ratchetPublic : Key, Ns : Nat, PN : Nat]
  BY EncryptFollows
<1>2. text \in Text /\ text.from = Peer(Peer(u)) /\ text.n = written[u]
  <2>1. Writes[u] \in Nat
    BY BoundsAssumption DEF User
  <2>2. text \in [from : {u}, n : 0..(Writes[u] - 1)]
    BY <2>1
  <2> QED
    BY <2>2, Peers DEF Text
<1> HIDE DEF enc, text
<1>3. Peer(Peer(u)) = u
  BY Peers
<1> QED
  BY <1>1, <1>2, <1>3 DEF MessageTo, enc, text

(* It is appended to the peer's mailbox.                                   *)
LEMMA ServerStores ==
  ASSUME MessengerInv, NEW u \in User,
         NEW m \in MessageTo(Peer(u)), m.text.n = written[u],
         \/ mailbox' = [mailbox EXCEPT ![Peer(u)] = Append(@, m)]
         \/ mailbox' = mailbox,
         written' = [written EXCEPT ![u] = @ + 1],
         DOMAIN opkPool' = User, \A v \in User : opkPool'[v] \in Seq(OpkId)
  PROVE  ServerOK' /\ NothingLost
<1> DEFINE p == Peer(u)
           box == mailbox[p]
           longer == Append(box, m)
<1>1. /\ p \in User /\ p # u /\ Peer(p) = u
      /\ \A v \in User : v # u => v = p
  BY Peers
<1>2. /\ DOMAIN mailbox = User /\ DOMAIN written = User
      /\ \A v \in User : MailOK(v) /\ written[v] \in Nat
  BY DEF MessengerInv, DomainsOK, ClientOK, LogsOK
<1>3. /\ DOMAIN mailbox' = User /\ mailbox'[u] = mailbox[u]
      /\ written'[p] = written[p] /\ written'[u] = written[u] + 1
      /\ mailbox'[p] = longer \/ mailbox'[p] = box
  BY <1>1, <1>2
<1>4. MailOK(u)'
  BY <1>2, <1>3 DEF MailOK
<1>5. box \in Seq(MessageTo(p)) /\ Distinct(box)
      /\ \A i \in DOMAIN box : box[i].text.n < written[u]
  BY <1>1, <1>2 DEF MailOK
<1> HIDE DEF p, box
<1>6. /\ longer \in Seq(MessageTo(p)) /\ Len(longer) = Len(box) + 1
      /\ \A i \in 1..Len(box) : longer[i] = box[i]
      /\ longer[Len(box) + 1] = m
  BY <1>5, AppendProperties DEF p
<1>7. Len(box) \in Nat /\ DOMAIN box = 1..Len(box)
      /\ \A i \in DOMAIN box : box[i].text.n \in Nat
  <2>1. \A v \in User : Writes[v] \in Nat
    BY BoundsAssumption DEF User
  <2>2. ASSUME NEW i \in DOMAIN box PROVE box[i].text.n \in Nat
    <3>1. box[i].text \in Text
      <4>1. box[i] \in MessageTo(p)
        BY <1>5
      <4> QED
        BY <4>1 DEF MessageTo
    <3> QED
      BY <2>1, <3>1 DEF Text
  <2> QED
    BY <1>5, <2>2
<1> HIDE DEF longer
<1>8. DOMAIN longer = 1..(Len(box) + 1)
  BY <1>6
<1>9. \A i \in DOMAIN longer : i \in DOMAIN box \/ i = Len(box) + 1
  BY <1>7, <1>8
<1>10. \A i \in DOMAIN longer : longer[i].text.n < written[u] + 1
  BY <1>2, <1>5, <1>6, <1>7, <1>9
<1>11. Distinct(longer)
  <2> SUFFICES ASSUME NEW i \in DOMAIN longer, NEW j \in DOMAIN longer,
                      longer[i].text = longer[j].text
               PROVE  i = j
    BY DEF Distinct
  <2>1. \A k \in DOMAIN box : longer[k] = box[k] /\ box[k].text # m.text
    BY <1>2, <1>5, <1>6, <1>7
  <2> QED
    BY <1>5, <1>6, <1>9, <2>1 DEF Distinct
<1>12. \A i \in DOMAIN box : box[i].text.n < written[u] + 1
  BY <1>2, <1>5, <1>7
<1>13. MailOK(p)'
  <2>1. CASE mailbox'[p] = longer
    BY <1>1, <1>3, <1>6, <1>10, <1>11, <2>1 DEF MailOK
  <2>2. CASE mailbox'[p] = box
    BY <1>1, <1>3, <1>5, <1>12, <2>2 DEF MailOK
  <2> QED
    BY <1>3, <2>1, <2>2
<1>14. ServerOK'
  BY <1>1, <1>3, <1>4, <1>13 DEF ServerOK
<1>15. TextsOf(box) \subseteq TextsOf(longer)
  BY <1>6, <1>7, <1>8 DEF TextsOf
<1>16. NothingLost
  BY <1>1, <1>3, <1>15 DEF NothingLost, box
<1> QED
  BY <1>14, <1>16

(* Whatever becomes of the request and of the client, msg:send leaves the  *)
(* sessions, the file and the calls under way as they should be.           *)
LEMMA TransmitOK ==
  ASSUME MessengerInv, NEW u \in User, written[u] < Writes[u],
         NEW st, StateFine(st), st.sendingChainKey # Null,
         NEW ref \in Nat, ref \in DOMAIN heap[u] => SameSession(heap[u][ref], st),
         Begun(u, st) \cap opkDisk[u] = {},
         NEW map, IsMap(u, map, heap[u], opkDisk[u]),
         NEW key \in {"name", "uuid"},
         NEW x3dh \in [eph : {u} \X Nat, ikDh : {<<u, 0>>},
                       opkId : OpkId \cup {Null}] \cup {Null},
         Transmit(u, st, ref, map, key, x3dh),
         Only(u, generated, generated'),
         generated'[u] \in Nat /\ generated'[u] >= FirstFresh,
         DOMAIN opkPool' = User, \A v \in User : opkPool'[v] \in Seq(OpkId)
  PROVE  MessengerInv' /\ NothingLost
<1> DEFINE enc == ratchetEncrypt(st)
           text == [from |-> u, n |-> written[u]]
           m == [text |-> text, x3dh |-> x3dh,
                 ratchetPublic |-> enc.header.ratchetPublic,
                 Ns |-> enc.header.Ns, PN |-> enc.header.PN,
                 messageKey |-> enc.messageKey]
           old == heap[u]
           objects == put(old, ref, enc.st)
           filed == [k \in DOMAIN map \cup {key} |->
                       IF k = key THEN ref ELSE map[k]]
           Logged == sentLog' = [sentLog EXCEPT ![u] = @ \cup {text}]
           Finish ==
             /\ Logged
             /\ heap' = [heap EXCEPT ![u] = objects]
             /\ sessions' = [sessions EXCEPT ![u] = filed]
             /\ disk' = [disk EXCEPT ![u] = Snapshot(filed, objects)]
             /\ sending' = [sending EXCEPT ![u] = FALSE]
             /\ UNCHANGED <<opkMemory, thread, fetch>>
           Throw ==
             /\ heap' = [heap EXCEPT ![u] =
                           IF ref \in DOMAIN @ THEN objects ELSE @]
             /\ sessions' = [sessions EXCEPT ![u] = map]
             /\ sending' = [sending EXCEPT ![u] = FALSE]
             /\ UNCHANGED <<sentLog, disk, opkMemory, thread, fetch>>
           DieSaved ==
             /\ Restart(u, disk[u], opkDisk[u])
             /\ UNCHANGED disk
             /\ Logged \/ UNCHANGED sentLog
                       \/ sentLog' = [sentLog EXCEPT ![u] = {}]
           DieSaving ==
             /\ Restart(u, NoSessions, opkDisk[u])
             /\ disk' = [disk EXCEPT ![u] = NoSessions]
             /\ Logged
<1>1. /\ written' = [written EXCEPT ![u] = @ + 1]
      /\ \/ mailbox' = [mailbox EXCEPT ![Peer(u)] = Append(@, m)]
         \/ mailbox' = mailbox
      /\ UNCHANGED <<opkDisk, received, opened, dropped, withdrawn>>
      /\ Finish \/ Throw \/ DieSaved \/ DieSaving
  BY DEF Transmit
<1>2. /\ DomainsOK /\ StoreOK(u) /\ KeysOK(u) /\ CallsOK(u)
      /\ LogsOK(u) /\ StoredOK(u)
  BY DEF MessengerInv, ClientOK
<1>3. written[u] \in Nat
  BY <1>2 DEF LogsOK
<1>4. m \in MessageTo(Peer(u)) /\ m.text.n = written[u] /\ m.text = text
      /\ m.text \in Text
  BY <1>3, PostedMessage
<1>5. SameSession(st, enc.st)
  BY EncryptFollows
<1> HIDE DEF enc, m
<1>6. ServerOK' /\ NothingLost
  <2> HIDE DEF Finish, Throw, DieSaved, DieSaving
  <2> QED
    BY <1>1, <1>4, ServerStores
<1>7. /\ StateFine(enc.st)
      /\ ref \in DOMAIN old => SameSession(old[ref], enc.st)
      /\ Begun(u, enc.st) \cap opkDisk[u] = {}
  BY <1>5, BegunFollows DEF SameSession
<1>8. IsHeap(old) /\ IsMap(u, map, old, opkDisk[u])
  BY <1>2 DEF StoreOK
<1> HIDE DEF old
<1>9. /\ IsHeap(objects)
      /\ DOMAIN objects = DOMAIN old \cup {ref}
      /\ objects[ref] = enc.st
      /\ \A r \in DOMAIN old : \A v : Begun(v, objects[r]) = Begun(v, old[r])
      /\ IsMap(u, map, objects, opkDisk[u])
  <2> DEFINE new == enc.st
  <2>1. StateFine(new) /\ (ref \in DOMAIN old => SameSession(old[ref], new))
    BY <1>7
  <2> HIDE DEF new
  <2>2. LET after == put(old, ref, new)
        IN  /\ IsHeap(after)
            /\ DOMAIN after = DOMAIN old \cup {ref}
            /\ after[ref] = new
            /\ \A r \in DOMAIN old : \A v : Begun(v, after[r]) = Begun(v, old[r])
            /\ \A v, any, keys :
                 IsMap(v, any, old, keys) => IsMap(v, any, after, keys)
    BY <1>8, <2>1, PutFine
  <2> QED
    BY <1>8, <2>2 DEF new
<1> HIDE DEF objects
<1>10. IsMap(u, filed, objects, opkDisk[u])
  <2>1. ref \in DOMAIN objects /\ Begun(u, objects[ref]) \cap opkDisk[u] = {}
    BY <1>7, <1>9
  <2>2. IsMap(u, map, objects, opkDisk[u])
    BY <1>9
  <2> QED
    BY <2>1, <2>2 DEF IsMap
<1> HIDE DEF filed
<1>11. HeapKept(u, old, objects) /\ HeapKept(u, old, old)
  BY <1>9 DEF HeapKept
<1>12. /\ opkDisk' = opkDisk /\ received' = received /\ opened' = opened
       /\ dropped' = dropped /\ withdrawn' = withdrawn
       /\ written'[u] = written[u] + 1 /\ written'[u] \in Nat
  BY <1>1, <1>2, <1>3 DEF DomainsOK
<1>13. text \in Text
  BY <1>4
<1> HIDE DEF text
<1>14. /\ Only(u, opkDisk, opkDisk') /\ Only(u, received, received')
       /\ Only(u, opened, opened') /\ Only(u, dropped, dropped')
       /\ Only(u, written, written') /\ withdrawn \subseteq withdrawn'
  BY <1>1, <1>12, OnlyExcept
<1>15. CASE Finish
  <2>1. /\ Only(u, sentLog, sentLog') /\ Only(u, heap, heap')
        /\ Only(u, sessions, sessions') /\ Only(u, disk, disk')
        /\ Only(u, sending, sending') /\ Only(u, opkMemory, opkMemory')
        /\ Only(u, thread, thread') /\ Only(u, fetch, fetch')
    BY <1>15, OnlyExcept
  <2>2. StepOf(u)
    BY <1>14, <2>1 DEF StepOf
  <2>3. /\ sentLog'[u] = sentLog[u] \cup {text} /\ heap'[u] = objects
        /\ sessions'[u] = filed /\ disk'[u] = Snapshot(filed, objects)
        /\ sending'[u] = FALSE /\ opkMemory' = opkMemory
        /\ thread' = thread /\ fetch' = fetch
    BY <1>2, <1>15 DEF DomainsOK
  <2>4. StoreOK(u)'
    BY <1>9, <1>10, <1>12, <2>3, SnapshotFine DEF StoreOK
  <2>5. KeysOK(u)'
    BY <1>2, <1>12, <2>3 DEF KeysOK
  <2>6. CallsOK(u)'
    BY <1>2, <1>11, <2>3, CallsKept DEF old
  <2>7. LogsOK(u)'
    BY <1>2, <1>12, <1>13, <2>3 DEF LogsOK
  <2>8. StoredOK(u)'
    BY <1>2, <1>12, <2>3 DEF StoredOK
  <2> QED
    BY <1>6, <2>2, <2>4, <2>5, <2>6, <2>7, <2>8, StepClosed DEF ClientOK
<1>16. CASE Throw
  <2>1. /\ Only(u, sentLog, sentLog') /\ Only(u, heap, heap')
        /\ Only(u, sessions, sessions') /\ Only(u, disk, disk')
        /\ Only(u, sending, sending') /\ Only(u, opkMemory, opkMemory')
        /\ Only(u, thread, thread') /\ Only(u, fetch, fetch')
    BY <1>16, OnlyExcept
  <2>2. StepOf(u)
    BY <1>14, <2>1 DEF StepOf
  <2>3. /\ heap'[u] = objects \/ heap'[u] = old
        /\ sessions'[u] = map /\ disk' = disk /\ sentLog' = sentLog
        /\ sending'[u] = FALSE /\ opkMemory' = opkMemory
        /\ thread' = thread /\ fetch' = fetch
    BY <1>2, <1>16 DEF DomainsOK, old
  <2>4. StoreOK(u)'
    BY <1>2, <1>8, <1>9, <1>12, <2>3 DEF StoreOK
  <2>5. KeysOK(u)'
    BY <1>2, <1>12, <2>3 DEF KeysOK
  <2>6. CallsOK(u)'
    BY <1>2, <1>11, <2>3, CallsKept DEF old
  <2>7. LogsOK(u)'
    BY <1>2, <1>12, <2>3 DEF LogsOK
  <2>8. StoredOK(u)'
    BY <1>2, <1>12, <2>3 DEF StoredOK
  <2> QED
    BY <1>6, <2>2, <2>4, <2>5, <2>6, <2>7, <2>8, StepClosed DEF ClientOK
<1>17. CASE DieSaved \/ DieSaving
  <2>1. PICK file :
          /\ Restart(u, file, opkDisk[u])
          /\ IsSaved(u, file, opkDisk[u])
          /\ disk'[u] = file /\ Only(u, disk, disk')
          /\ Only(u, sentLog, sentLog') /\ sentLog'[u] \subseteq Text
    <3>1. IsSaved(u, disk[u], opkDisk[u]) /\ IsSaved(u, NoSessions, opkDisk[u])
      BY <1>2, NoSessionsFine DEF StoreOK
    <3>2. sentLog[u] \subseteq Text /\ DOMAIN sentLog = User /\ DOMAIN disk = User
      BY <1>2 DEF LogsOK, DomainsOK
    <3>3. Only(u, sentLog, sentLog') /\ sentLog'[u] \subseteq Text
      <4>1. CASE Logged
        BY <1>13, <3>2, <4>1, OnlyExcept
      <4>2. CASE sentLog' = sentLog \/ sentLog' = [sentLog EXCEPT ![u] = {}]
        BY <3>2, <4>2 DEF Only
      <4> HIDE DEF Logged
      <4> QED
        BY <1>17, <4>1, <4>2
    <3>4. CASE DieSaved
      BY <3>1, <3>3, <3>4, OnlyExcept
    <3>5. CASE DieSaving
      BY <3>1, <3>2, <3>3, <3>5, OnlyExcept
    <3> QED
      BY <1>17, <3>4, <3>5
  <2>2. /\ Only(u, heap, heap') /\ Only(u, sessions, sessions')
        /\ Only(u, opkMemory, opkMemory') /\ Only(u, thread, thread')
        /\ Only(u, fetch, fetch') /\ Only(u, sending, sending')
        /\ opkMemory'[u] = opkDisk[u] /\ sending'[u] = FALSE
    BY <1>2, <2>1, RestartStep
  <2>3. StepOf(u)
    BY <1>14, <2>1, <2>2 DEF StepOf
  <2>4. IsHeap(heap'[u]) /\ IsMap(u, sessions'[u], heap'[u], opkDisk[u])
    BY <1>2, <2>1, RestartFine
  <2>5. StoreOK(u)'
    BY <1>12, <2>1, <2>4 DEF StoreOK
  <2>6. KeysOK(u)'
    BY <1>2, <1>12, <2>2 DEF KeysOK
  <2>7. CallsOK(u)' /\ StoredOK(u)'
    BY <1>2, <2>1, RestartCalls
  <2>8. LogsOK(u)'
    BY <1>2, <1>12, <2>1, <2>2 DEF LogsOK
  <2> QED
    BY <1>6, <2>3, <2>5, <2>6, <2>7, <2>8, StepClosed DEF ClientOK
<1> QED
  BY <1>1, <1>15, <1>16, <1>17

(* A message in a session that is filed.                                   *)
LEMMA TransmitInSessionOK ==
  ASSUME MessengerInv, NEW u \in User, written[u] < Writes[u],
         NEW map, IsMap(u, map, heap[u], opkDisk[u]),
         NEW key \in {"name", "uuid"}, NEW old \in DOMAIN map,
         TransmitInSession(u, map[old], map, key),
         DOMAIN opkPool' = User, \A v \in User : opkPool'[v] \in Seq(OpkId)
  PROVE  MessengerInv' /\ NothingLost
<1> DEFINE ref == map[old]
           st == heap[u][ref]
           new == dhRatchetStep(st, <<u, generated[u]>>)
<1>1. /\ DomainsOK /\ StoreOK(u) /\ KeysOK(u)
  BY DEF MessengerInv, ClientOK
<1>2. /\ ref \in DOMAIN heap[u] /\ ref \in Nat /\ StateFine(st)
      /\ Begun(u, st) \cap opkDisk[u] = {}
  BY <1>1 DEF IsMap, StoreOK, IsHeap
<1>3. /\ <<u, generated[u]>> \in Key /\ generated[u] \in Nat
      /\ generated[u] >= FirstFresh
  BY <1>1 DEF KeysOK, Key, User
<1>4. FirstFresh \in Nat
  BY BoundsAssumption DEF FirstFresh
<1>5. CASE st.sendingChainKey = Null
  <2>1. /\ Transmit(u, new, ref, map, key, Null)
        /\ generated' = [generated EXCEPT ![u] = @ + 1]
    BY <1>5 DEF TransmitInSession
  <2>2. Only(u, generated, generated') /\ generated'[u] = generated[u] + 1
    BY <1>1, <2>1, OnlyExcept DEF DomainsOK
  <2>3. /\ SameSession(st, new) /\ StateFine(new)
        /\ new.sendingChainKey # Null
    BY <1>2, <1>3, StepFollows DEF SameSession
  <2>4. Begun(u, new) \cap opkDisk[u] = {}
    BY <1>2, <2>3, BegunFollows
  <2> HIDE DEF new
  <2>5. generated'[u] \in Nat /\ generated'[u] >= FirstFresh
    BY <1>3, <1>4, <2>2
  <2>6. ref \in DOMAIN heap[u] => SameSession(heap[u][ref], new)
    BY <2>3
  <2> HIDE DEF ref
  <2>7. Transmit(u, new, ref, map, key, Null)
    BY <2>1
  <2>8. Null \in [eph : {u} \X Nat, ikDh : {<<u, 0>>},
                 opkId : OpkId \cup {Null}] \cup {Null}
    OBVIOUS
  <2>9. ref \in Nat /\ Only(u, generated, generated')
    BY <1>2, <2>2
  <2> QED
    BY <2>3, <2>4, <2>5, <2>6, <2>7, <2>8, <2>9, TransmitOK
<1>6. CASE st.sendingChainKey # Null
  <2>1. /\ Transmit(u, st, ref, map, key, Null)
        /\ generated' = generated
    BY <1>6 DEF TransmitInSession
  <2>2. Only(u, generated, generated') /\ generated'[u] = generated[u]
    BY <2>1 DEF Only
  <2>3. SameSession(st, st)
    BY <1>2 DEF SameSession
  <2> QED
    BY <1>2, <1>3, <1>6, <2>1, <2>2, <2>3, TransmitOK
<1> QED
  BY <1>5, <1>6

(* The recipient is known by name.                                         *)
LEMMA SendInSessionOK ==
  ASSUME MessengerInv, NEW u \in User, SendInSession(u)
  PROVE  MessengerInv' /\ NothingLost
<1>1. /\ written[u] < Writes[u] /\ "name" \in DOMAIN sessions[u]
      /\ TransmitInSession(u, sessions[u]["name"], sessions[u], "name")
      /\ opkPool' = opkPool
  BY DEF SendInSession, MayWrite
<1>2. /\ IsMap(u, sessions[u], heap[u], opkDisk[u])
      /\ DOMAIN opkPool = User /\ \A v \in User : opkPool[v] \in Seq(OpkId)
  BY DEF MessengerInv, ClientOK, StoreOK, DomainsOK
<1> QED
  BY <1>1, <1>2, TransmitInSessionOK

(* A bundle is asked for.                                                  *)
LEMMA RequestBundleOK ==
  ASSUME MessengerInv, NEW u \in User, RequestBundle(u)
  PROVE  MessengerInv' /\ NothingLost
<1>1. DomainsOK /\ ClientOK(u)
  BY DEF MessengerInv
<1>2. /\ sending' = [sending EXCEPT ![u] = TRUE] /\ written[u] < Writes[u]
      /\ UNCHANGED <<server, heap, sessions, opkMemory, thread, fetch, files,
                     generated, written, faults, history>>
  BY DEF RequestBundle, MayWrite
<1>3. ServerOK' /\ NothingLost
  BY <1>2, ServerUntouched
<1>4. StepOf(u)
  BY <1>2, OnlyExcept DEF StepOf, Only, files, history
<1>5. sending'[u] = TRUE
  BY <1>1, <1>2 DEF DomainsOK
<1>6. StoreOK(u)' /\ KeysOK(u)' /\ CallsOK(u)' /\ StoredOK(u)'
  BY <1>1, <1>2 DEF ClientOK, StoreOK, KeysOK, CallsOK, StoredOK, files, history
<1>7. LogsOK(u)'
  BY <1>1, <1>2, <1>5 DEF ClientOK, LogsOK, files, history
<1> QED
  BY <1>3, <1>4, <1>6, <1>7, StepClosed DEF ClientOK

(* The bundle comes, and the first message goes out.                       *)
LEMMA SendWithBundleOK ==
  ASSUME MessengerInv, NEW u \in User, SendWithBundle(u)
  PROVE  MessengerInv' /\ NothingLost
<1> DEFINE p == Peer(u)
           pool == opkPool[p]
           opkId == IF pool = <<>> THEN Null ELSE Head(pool)
           map == IF "name" \in DOMAIN sessions[u]
                  THEN [k \in {"uuid"} |-> sessions[u]["name"]]
                  ELSE sessions[u]
           eph == <<u, generated[u]>>
           opk == IF opkId = Null THEN Null ELSE OpkOf(p, opkId)
           bundle == [ikDh |-> KeysOf(p).ikDh, spk |-> KeysOf(p).spk,
                      opk |-> opk]
           rk == x3dhSend(KeysOf(u), eph, bundle)
           ratchet == <<u, generated[u] + 1>>
           initial == initRatchet(rk, bundle.spk, ratchet)
           x3dh == [eph |-> eph, ikDh |-> KeysOf(u).ikDh, opkId |-> opkId]
<1>1. /\ sending[u]
      /\ opkPool' = [opkPool EXCEPT ![p] = IF @ = <<>> THEN @ ELSE Tail(@)]
      /\ IF "uuid" \in DOMAIN map
         THEN TransmitInSession(u, map["uuid"], map, "uuid")
         ELSE /\ Transmit(u, initial, NewRef(heap[u]), map, "uuid", x3dh)
              /\ generated' = [generated EXCEPT ![u] = @ + 2]
  BY DEF SendWithBundle
<1>2. /\ DomainsOK /\ StoreOK(u) /\ KeysOK(u) /\ LogsOK(u)
      /\ \A v \in User : opkPool[v] \in Seq(OpkId)
  BY DEF MessengerInv, ClientOK
<1>3. p \in User /\ p # u
  BY Peers
<1>4. written[u] < Writes[u]
  BY <1>1, <1>2 DEF LogsOK
<1>5. pool \in Seq(OpkId) /\ opkId \in OpkId \cup {Null}
      /\ (IF pool = <<>> THEN pool ELSE Tail(pool)) \in Seq(OpkId)
  BY <1>2, <1>3
<1>6. DOMAIN opkPool' = User /\ \A v \in User : opkPool'[v] \in Seq(OpkId)
  <2> HIDE DEF p
  <2> QED
    BY <1>1, <1>2, <1>3, <1>5 DEF DomainsOK
<1>7. IsMap(u, map, heap[u], opkDisk[u])
  BY <1>2 DEF StoreOK, IsMap
<1>8. CASE "uuid" \in DOMAIN map
  <2>1. TransmitInSession(u, map["uuid"], map, "uuid")
    BY <1>1, <1>8
  <2> HIDE DEF map
  <2> QED
    BY <1>4, <1>6, <1>7, <1>8, <2>1, TransmitInSessionOK
<1>9. CASE "uuid" \notin DOMAIN map
  <2>1. /\ Transmit(u, initial, NewRef(heap[u]), map, "uuid", x3dh)
        /\ generated' = [generated EXCEPT ![u] = @ + 2]
    BY <1>1, <1>9
  <2> HIDE DEF map
  <2>2. /\ generated[u] \in Nat /\ generated[u] >= FirstFresh
        /\ FirstFresh \in Nat
    BY <1>2, BoundsAssumption DEF KeysOK, FirstFresh
  <2>3. Only(u, generated, generated') /\ generated'[u] = generated[u] + 2
    BY <1>2, <2>1, OnlyExcept DEF DomainsOK
  <2>4. generated'[u] \in Nat /\ generated'[u] >= FirstFresh
    BY <2>2, <2>3
  <2>5. opk \in {OpkOf(p, id) : id \in OpkId} \cup {Null}
    BY <1>5
  <2>6. bundle.spk \in Key /\ bundle.spk = KeysOf(p).spk
    BY <1>3 DEF KeysOf, Key, User
  <2>7. x3dh \in [eph : {u} \X Nat, ikDh : {<<u, 0>>},
                  opkId : OpkId \cup {Null}] \cup {Null}
    <3>1. KeysOf(u).ikDh = <<u, 0>> /\ eph \in {u} \X Nat
      BY <2>2 DEF KeysOf
    <3> HIDE DEF eph, opkId
    <3> QED
      BY <1>5, <3>1
  <2>8. ratchet \in Key
    BY <2>2 DEF Key, User
  <2> HIDE DEF opk, opkId
  <2>9. /\ rk \in RootKey /\ rk # <<>>
        /\ \A st : st.rootKey[1] = rk[1] => Begun(u, st) = {}
    BY <2>2, <2>5, BegunSend
  <2> HIDE DEF rk, bundle, ratchet, x3dh
  <2>10. /\ StateFine(initial) /\ initial.rootKey[1] = rk[1]
         /\ initial.sendingChainKey # Null
    BY <2>6, <2>8, <2>9, InitRatchetFine
  <2> HIDE DEF initial
  <2>11. Begun(u, initial) \cap opkDisk[u] = {}
    BY <2>9, <2>10
  <2>12. NewRef(heap[u]) \in Nat /\ NewRef(heap[u]) \notin DOMAIN heap[u]
    BY <1>2, NewRefFree DEF StoreOK
  <2> QED
    BY <1>4, <1>6, <1>7, <2>1, <2>3, <2>4, <2>7, <2>10, <2>11, <2>12, TransmitOK
<1> QED
  BY <1>8, <1>9

---------------------------------------------------------------------------
(* msg:fetch: one call under way.                                          *)

(* A step of one msg:fetch leaves the others as they should be.            *)
LEMMA CallChanged ==
  ASSUME DomainsOK, NEW u \in User, CallsOK(u), NEW f \in Polls, NEW call,
         fetch' = [fetch EXCEPT ![u][f] = call],
         IsCall(u, call), call.pc = "opk" => AtOpk(u, call, heap'[u]),
         \A g \in Polls \ {f} : fetch[u][g].pc = "opk" =>
           AtOpk(u, fetch[u][g], heap'[u]),
         \/ thread'[u] = Null
         \/ thread'[u] = f /\ call.pc \in {"loop", "log"}
         \/ thread'[u] = thread[u] /\ thread[u] # f
  PROVE  /\ CallsOK(u)' /\ Only(u, fetch, fetch') /\ fetch'[u][f] = call
         /\ \A g \in Polls \ {f} : fetch'[u][g] = fetch[u][g]
<1>1. DOMAIN fetch = User /\ DOMAIN fetch[u] = Polls
  BY DEF DomainsOK, CallsOK
<1>2. /\ DOMAIN fetch' = User /\ DOMAIN fetch'[u] = Polls
      /\ fetch'[u][f] = call
      /\ \A g \in Polls \ {f} : fetch'[u][g] = fetch[u][g]
      /\ \A v \in User \ {u} : fetch'[v] = fetch[v]
  BY <1>1
<1>3. Only(u, fetch, fetch')
  BY <1>1, <1>2 DEF Only
<1>4. ASSUME NEW g \in Polls
      PROVE  /\ IsCall(u, fetch'[u][g])
             /\ fetch'[u][g].pc = "opk" => AtOpk(u, fetch'[u][g], heap'[u])
  BY <1>2 DEF CallsOK
<1>5. thread'[u] \in Polls \cup {Null}
  BY DEF CallsOK
<1>6. thread'[u] # Null => fetch'[u][thread'[u]].pc \in {"loop", "log"}
  BY <1>2 DEF CallsOK
<1>7. CallsOK(u)'
  BY <1>2, <1>4, <1>5, <1>6 DEF CallsOK
<1> QED
  BY <1>2, <1>3, <1>7

(* As long as nothing that was received is lost from the log, what is      *)
(* being deleted stays stored.                                             *)
LEMMA StoredKept ==
  ASSUME NEW u \in User, StoredOK(u), NEW f \in Polls,
         \A g \in Polls \ {f} : fetch'[u][g] = fetch[u][g],
         fetch'[u][f].pc = "delete" =>
           ToSet(fetch'[u][f].done) \subseteq ToSet(received'[u]) \cup withdrawn',
         ToSet(received[u]) \cup withdrawn
           \subseteq ToSet(received'[u]) \cup withdrawn'
  PROVE  StoredOK(u)'
BY DEF StoredOK

(* The call after the message at the head of the queue was taken.          *)
LEMMA NextCall ==
  ASSUME NEW u \in User, NEW call, IsCall(u, call), call.queue # <<>>
  PROVE  LET m == Head(call.queue)
             next == [call EXCEPT !.pc = "loop", !.ref = 0, !.queue = Tail(@)]
             opening == [next EXCEPT !.done = Append(@, m.text)]
         IN  /\ m \in MessageTo(u) /\ m.text \in Text
             /\ IsCall(u, next) /\ next.pc = "loop" /\ next.ref = 0
             /\ IsCall(u, opening) /\ opening.pc = "loop" /\ opening.ref = 0
<1> DEFINE m == Head(call.queue)
           rest == Tail(call.queue)
           done == Append(call.done, m.text)
           next == [call EXCEPT !.pc = "loop", !.ref = 0, !.queue = rest]
           opening == [next EXCEPT !.done = done]
<1>1. /\ call \in [pc : {"idle", "loop", "opk", "log", "delete"},
                   queue : Seq(MessageTo(u)), ref : Nat, done : Seq(Text)]
      /\ Distinct(call.queue) /\ IsInjective(call.done)
      /\ ToSet(call.done) \cap TextsOf(call.queue) = {}
  BY DEF IsCall
<1>2. call.queue \in Seq(MessageTo(u)) /\ call.done \in Seq(Text)
  BY <1>1
<1>3. /\ m \in MessageTo(u) /\ rest \in Seq(MessageTo(u)) /\ Distinct(rest)
      /\ m.text \in TextsOf(call.queue)
      /\ TextsOf(rest) \subseteq TextsOf(call.queue)
      /\ m.text \notin TextsOf(rest)
  BY <1>1, <1>2, QueueTail
<1>4. m.text \in Text
  BY <1>3 DEF MessageTo
<1> HIDE DEF m, rest
<1>5. /\ done \in Seq(Text) /\ IsInjective(done)
      /\ ToSet(done) = ToSet(call.done) \cup {m.text}
  BY <1>1, <1>2, <1>3, <1>4, AppendNew
<1> HIDE DEF done
<1>6. IsCall(u, next) /\ next.pc = "loop" /\ next.ref = 0
  BY <1>1, <1>3 DEF IsCall
<1>7. IsCall(u, opening) /\ opening.pc = "loop" /\ opening.ref = 0
  BY <1>1, <1>3, <1>5 DEF IsCall
<1> QED
  BY <1>3, <1>4, <1>6, <1>7 DEF m, rest, done

(* A poll, or the refresh after a send.                                    *)
LEMMA StartFetchOK ==
  ASSUME MessengerInv, NEW u \in User, NEW f \in Polls, StartFetch(u, f)
  PROVE  MessengerInv' /\ NothingLost
<1> DEFINE call == [Idle EXCEPT !.pc = "loop", !.queue = mailbox[u]]
<1>1. DomainsOK /\ ClientOK(u) /\ MailOK(u)
  BY DEF MessengerInv
<1>2. /\ thread' = [thread EXCEPT ![u] = f]
      /\ fetch' = [fetch EXCEPT ![u][f] = call]
      /\ UNCHANGED <<server, heap, sessions, opkMemory, sending, files,
                     generated, written, faults, history>>
  BY DEF StartFetch, get_messages_for_recipient
<1>3. ServerOK' /\ NothingLost
  BY <1>2, ServerUntouched
<1>4. /\ call \in [pc : {"idle", "loop", "opk", "log", "delete"},
                    queue : Seq(MessageTo(u)), ref : Nat, done : Seq(Text)]
      /\ call.pc = "loop" /\ call.queue = mailbox[u] /\ call.done = <<>>
  <2>1. mailbox[u] \in Seq(MessageTo(u)) /\ <<>> \in Seq(Text)
    BY <1>1 DEF MailOK
  <2> QED
    BY <2>1 DEF Idle
<1> HIDE DEF call
<1>5. IsCall(u, call) /\ call.pc = "loop"
  <2>1. <<>> \in Seq(Text) /\ DOMAIN <<>> = {}
    OBVIOUS
  <2> QED
    BY <1>1, <1>4, <2>1 DEF IsCall, MailOK, IsInjective, ToSet
<1>6. thread'[u] = f /\ heap' = heap /\ received' = received
      /\ withdrawn' = withdrawn
  BY <1>1, <1>2 DEF DomainsOK, files, history
<1>7. /\ CallsOK(u)' /\ Only(u, fetch, fetch') /\ fetch'[u][f] = call
      /\ \A g \in Polls \ {f} : fetch'[u][g] = fetch[u][g]
  BY <1>1, <1>2, <1>5, <1>6, CallChanged DEF ClientOK, CallsOK
<1>8. StoredOK(u)'
  BY <1>1, <1>5, <1>6, <1>7, StoredKept DEF ClientOK
<1>9. StepOf(u)
  BY <1>2, <1>7, OnlyExcept DEF StepOf, Only, files, history
<1>10. StoreOK(u)' /\ KeysOK(u)' /\ LogsOK(u)'
  BY <1>1, <1>2 DEF ClientOK, StoreOK, KeysOK, LogsOK, files, history
<1> QED
  BY <1>3, <1>7, <1>8, <1>9, <1>10, StepClosed DEF ClientOK

(* One heap with more objects than another.                                *)
Extends(new, old) ==
  \A r \in DOMAIN old : r \in DOMAIN new /\ new[r] = old[r]

(* What becomes of the heap when a message is tried under the state ref:   *)
(* the sessions stay in it, and those that calls wait for.                 *)
LEMMA DecryptedHeap ==
  ASSUME NEW u \in User, StoreOK(u), CallsOK(u), NEW f \in Polls,
         NEW objects, IsHeap(objects), Extends(objects, heap[u]),
         NEW ref \in DOMAIN objects, NEW keys \in SUBSET opkDisk[u],
         Begun(u, objects[ref]) \cap keys = {},
         NEW st, SameSession(objects[ref], st),
         NEW map, map = sessions[u] \/
           map = [k \in DOMAIN sessions[u] \cup {"name"} |->
                    IF k = "name" THEN ref ELSE sessions[u][k]],
         NEW inUse, Range(map) \subseteq inUse,
         \A g \in Polls \ {f} : fetch[u][g].ref \in inUse
  PROVE  LET after == put(objects, ref, st)
             left == Restrict(after, DOMAIN after \cap inUse)
         IN  /\ IsHeap(left) /\ IsMap(u, map, left, keys)
             /\ \A g \in Polls \ {f} : fetch[u][g].pc = "opk" =>
                  AtOpk(u, fetch[u][g], left)
<1> DEFINE after == put(objects, ref, st)
           left == Restrict(after, DOMAIN after \cap inUse)
<1>1. ref \in Nat /\ StateFine(st)
  BY DEF IsHeap, SameSession
<1>2. IsMap(u, sessions[u], heap[u], opkDisk[u])
  BY DEF StoreOK
<1>3. IsMap(u, sessions[u], objects, keys)
  BY <1>2 DEF IsMap, Extends
<1>4. /\ IsHeap(after)
      /\ DOMAIN after = DOMAIN objects \cup {ref}
      /\ after[ref] = st
      /\ \A r \in DOMAIN objects : \A v : Begun(v, after[r]) = Begun(v, objects[r])
      /\ \A v, any, some :
           IsMap(v, any, objects, some) => IsMap(v, any, after, some)
  BY <1>1, PutFine
<1> HIDE DEF after
<1>5. Begun(u, after[ref]) \cap keys = {}
  BY <1>4
<1>6. IsMap(u, map, after, keys)
  <2>1. IsMap(u, sessions[u], after, keys)
    BY <1>3, <1>4
  <2> QED
    BY <1>4, <1>5, <2>1 DEF IsMap
<1>7. /\ IsHeap(left) /\ DOMAIN left = DOMAIN after \cap inUse
      /\ \A r \in DOMAIN left : left[r] = after[r]
  BY <1>4, RestrictFine
<1> HIDE DEF left
<1>8. \A k \in DOMAIN map : map[k] \in inUse
  BY DEF Range
<1>9. IsMap(u, map, left, keys)
  BY <1>6, <1>7, <1>8 DEF IsMap
<1>10. ASSUME NEW g \in Polls \ {f}, fetch[u][g].pc = "opk"
       PROVE  AtOpk(u, fetch[u][g], left)
  <2>1. AtOpk(u, fetch[u][g], heap[u])
    BY <1>10 DEF CallsOK
  <2> DEFINE r == fetch[u][g].ref
  <2>2. r \in DOMAIN heap[u] /\ r \in DOMAIN objects /\ objects[r] = heap[u][r]
    BY <2>1 DEF AtOpk, Extends
  <2>3. r \in DOMAIN left /\ left[r] = after[r]
    BY <1>4, <1>7, <2>2
  <2>4. Begun(u, left[r]) = Begun(u, heap[u][r])
    BY <1>4, <2>2, <2>3
  <2> QED
    BY <2>1, <2>3, <2>4 DEF AtOpk
<1> QED
  BY <1>7, <1>9, <1>10 DEF left, after

(* ratchetDecrypt in msg:fetch, under a session that is filed, under one   *)
(* made for the message, or under one that waited for deleteConsumedOpk.   *)
LEMMA TryMessageOK ==
  ASSUME MessengerInv, NEW u \in User, NEW f \in Polls,
         fetch[u][f].queue # <<>>,
         NEW objects, IsHeap(objects), Extends(objects, heap[u]),
         NEW ref \in DOMAIN objects,
         Only(u, opkDisk, opkDisk'), opkDisk'[u] \subseteq opkDisk[u],
         Begun(u, objects[ref]) \cap opkDisk'[u] = {},
         Decrypt(u, f, objects, ref)
  PROVE  MessengerInv' /\ NothingLost
<1> DEFINE call == fetch[u][f]
           m == Head(call.queue)
           key == <<u, generated[u]>>
           result == ratchetDecrypt(objects[ref], m, key)
           st == result.st
           next == [call EXCEPT !.pc = "loop", !.ref = 0, !.queue = Tail(@)]
           opening == [next EXCEPT !.done = Append(@, m.text)]
           after == put(objects, ref, st)
           inUse == Range(sessions'[u]) \cup {fetch'[u][g].ref : g \in Polls}
           filed == [k \in DOMAIN sessions[u] \cup {"name"} |->
                       IF k = "name" THEN ref ELSE sessions[u][k]]
           left == Restrict(after, DOMAIN after \cap inUse)
<1>1. /\ thread' = [thread EXCEPT ![u] = f]
      /\ generated' = [generated EXCEPT ![u] =
                         IF st.localRatchet = key THEN @ + 1 ELSE @]
      /\ \/ /\ sessions' = [sessions EXCEPT ![u] = filed]
            /\ fetch' = [fetch EXCEPT ![u][f] = opening]
            /\ opened' = [opened EXCEPT ![u] = @ \cup {m.text}]
            /\ dropped' = dropped
         \/ /\ fetch' = [fetch EXCEPT ![u][f] = next]
            /\ dropped' = [dropped EXCEPT ![u] = Append(@, m.text)]
            /\ sessions' = sessions /\ opened' = opened
      /\ heap' = [heap EXCEPT ![u] = left]
      /\ UNCHANGED <<server, opkMemory, sending, disk, received, sentLog,
                     written, faults, withdrawn>>
  BY DEF Decrypt
<1>2. /\ DomainsOK /\ StoreOK(u) /\ KeysOK(u) /\ CallsOK(u)
      /\ LogsOK(u) /\ StoredOK(u)
  BY DEF MessengerInv, ClientOK
<1>3. IsCall(u, call)
  BY <1>2 DEF CallsOK
<1>4. /\ m \in MessageTo(u) /\ m.text \in Text
      /\ IsCall(u, next) /\ next.pc = "loop" /\ next.ref = 0
      /\ IsCall(u, opening) /\ opening.pc = "loop" /\ opening.ref = 0
  BY <1>3, NextCall
<1> HIDE DEF call, m, next, opening
<1>5. key \in Key /\ generated[u] \in Nat /\ generated[u] >= FirstFresh
  BY <1>2 DEF KeysOK, Key, User
<1> HIDE DEF key
<1>6. SameSession(objects[ref], st)
  <2>1. StateFine(objects[ref])
    BY DEF IsHeap
  <2>2. m.Ns \in Nat /\ m.PN \in Nat /\ m.ratchetPublic \in Key
    BY <1>4 DEF MessageTo
  <2> QED
    BY <1>5, <2>1, <2>2, DecryptFollows
<1> HIDE DEF result, st
<1>7. PICK mine \in {next, opening} : fetch' = [fetch EXCEPT ![u][f] = mine]
  BY <1>1
<1>8. IsCall(u, mine) /\ mine.pc = "loop" /\ mine.ref = 0
  BY <1>4, <1>7
<1>9. /\ \A g \in Polls \ {f} : fetch'[u][g] = fetch[u][g]
      /\ fetch'[u][f] = mine
  BY <1>2, <1>7 DEF DomainsOK, CallsOK
<1>10. sessions'[u] = sessions[u] \/ sessions'[u] = filed
  BY <1>1, <1>2 DEF DomainsOK
<1>11. /\ Range(sessions'[u]) \subseteq inUse
       /\ \A g \in Polls \ {f} : fetch[u][g].ref \in inUse
  BY <1>9
<1>12. heap'[u] = left
  BY <1>1, <1>2 DEF DomainsOK
<1> HIDE DEF inUse
<1>13. /\ IsHeap(heap'[u]) /\ IsMap(u, sessions'[u], heap'[u], opkDisk'[u])
       /\ \A g \in Polls \ {f} : fetch[u][g].pc = "opk" =>
            AtOpk(u, fetch[u][g], heap'[u])
  <2> DEFINE map == sessions'[u]
             keys == opkDisk'[u]
  <2>1. map = sessions[u] \/ map = filed
    BY <1>10
  <2>2. Range(map) \subseteq inUse /\ keys \in SUBSET opkDisk[u]
        /\ Begun(u, objects[ref]) \cap keys = {}
    BY <1>11
  <2> HIDE DEF map, keys
  <2>3. /\ IsHeap(left) /\ IsMap(u, map, left, keys)
        /\ \A g \in Polls \ {f} : fetch[u][g].pc = "opk" =>
             AtOpk(u, fetch[u][g], left)
    BY <1>2, <1>6, <1>11, <2>1, <2>2, DecryptedHeap
  <2> HIDE DEF left
  <2> QED
    BY <1>12, <2>3 DEF map, keys
<1> HIDE DEF left, filed
<1>14. thread'[u] = f
  BY <1>1, <1>2 DEF DomainsOK
<1>15. CallsOK(u)' /\ Only(u, fetch, fetch')
  BY <1>2, <1>7, <1>8, <1>13, <1>14, CallChanged
<1>16. received' = received /\ withdrawn' = withdrawn
  BY <1>1
<1>17. StoredOK(u)'
  BY <1>2, <1>8, <1>9, <1>16, StoredKept
<1>18. generated'[u] \in Nat /\ generated'[u] >= FirstFresh
  <2>1. generated'[u] \in {generated[u], generated[u] + 1}
    BY <1>1, <1>2 DEF DomainsOK
  <2>2. FirstFresh \in Nat
    BY BoundsAssumption DEF FirstFresh
  <2> QED
    BY <1>5, <2>1, <2>2
<1>19. KeysOK(u)'
  BY <1>1, <1>2, <1>18 DEF KeysOK
<1>20. StoreOK(u)'
  <2>1. IsSaved(u, disk[u], opkDisk'[u])
    BY <1>2, FewerKeysFine DEF StoreOK
  <2> QED
    BY <1>1, <1>13, <2>1 DEF StoreOK
<1>21. LogsOK(u)'
  <2>1. /\ opened'[u] = opened[u] \/ opened'[u] = opened[u] \cup {m.text}
        /\ dropped'[u] = dropped[u] \/ dropped'[u] = Append(dropped[u], m.text)
    BY <1>1, <1>2 DEF DomainsOK
  <2>2. opened[u] \subseteq Text /\ dropped[u] \in Seq(Text)
    BY <1>2 DEF LogsOK
  <2>3. Append(dropped[u], m.text) \in Seq(Text)
    BY <1>4, <2>2, AppendProperties
  <2>4. opened'[u] \subseteq Text /\ dropped'[u] \in Seq(Text)
    BY <1>4, <2>1, <2>2, <2>3, Zenon
  <2> QED
    BY <1>1, <1>2, <2>4 DEF LogsOK
<1>22. StepOf(u)
  <2>1. /\ Only(u, thread, thread') /\ Only(u, generated, generated')
        /\ Only(u, heap, heap')
    BY <1>1, OnlyExcept
  <2>2. /\ Only(u, sessions, sessions') /\ Only(u, opened, opened')
        /\ Only(u, dropped, dropped')
    BY <1>1, OnlyExcept DEF Only
  <2>3. /\ Only(u, opkMemory, opkMemory') /\ Only(u, sending, sending')
        /\ Only(u, disk, disk') /\ Only(u, received, received')
        /\ Only(u, sentLog, sentLog') /\ Only(u, written, written')
        /\ withdrawn \subseteq withdrawn'
    BY <1>1 DEF Only
  <2> QED
    BY <1>15, <2>1, <2>2, <2>3 DEF StepOf
<1>23. ServerOK' /\ NothingLost
  <2>1. UNCHANGED <<server, written>>
    BY <1>1
  <2> QED
    BY <2>1, ServerUntouched
<1> QED
  BY <1>15, <1>17, <1>19, <1>20, <1>21, <1>22, <1>23, StepClosed DEF ClientOK

(* There is a session with the sender.                                     *)
LEMMA ReadInSessionOK ==
  ASSUME MessengerInv, NEW u \in User, NEW f \in Polls, ReadInSession(u, f)
  PROVE  MessengerInv' /\ NothingLost
<1> DEFINE key == IF "name" \in found(sessions[u]) THEN "name" ELSE "uuid"
           ref == sessions[u][key]
           objects == heap[u]
<1>1. /\ fetch[u][f].queue # <<>> /\ DOMAIN sessions[u] # {}
      /\ Decrypt(u, f, heap[u], ref) /\ opkDisk' = opkDisk
  BY DEF ReadInSession, found
<1>2. StoreOK(u)
  BY DEF MessengerInv, ClientOK
<1>3. key \in DOMAIN sessions[u]
  BY <1>1, <1>2 DEF StoreOK, IsMap, found
<1> HIDE DEF key
<1>4. ref \in DOMAIN objects /\ Begun(u, objects[ref]) \cap opkDisk[u] = {}
  BY <1>2, <1>3 DEF StoreOK, IsMap
<1>5. IsHeap(objects) /\ Extends(objects, heap[u])
  BY <1>2 DEF StoreOK, Extends
<1>6. Only(u, opkDisk, opkDisk') /\ opkDisk'[u] \subseteq opkDisk[u]
  BY <1>1 DEF Only
<1>7. Begun(u, objects[ref]) \cap opkDisk'[u] = {}
  BY <1>1, <1>4
<1>8. Decrypt(u, f, objects, ref)
  BY <1>1
<1> HIDE DEF ref, objects
<1> QED
  BY <1>1, <1>4, <1>5, <1>6, <1>7, <1>8, TryMessageOK

(* A message without a session and without a header is passed over.        *)
LEMMA DropHeaderlessOK ==
  ASSUME MessengerInv, NEW u \in User, NEW f \in Polls, DropHeaderless(u, f)
  PROVE  MessengerInv' /\ NothingLost
<1> DEFINE call == fetch[u][f]
           text == Head(call.queue).text
           next == [call EXCEPT !.queue = Tail(@)]
<1>1. /\ thread[u] = f /\ call.pc = "loop" /\ call.queue # <<>>
      /\ dropped' = [dropped EXCEPT ![u] = Append(@, text)]
      /\ UNCHANGED <<server, heap, sessions, opkMemory, thread, sending,
                     files, generated, written, faults, opened, withdrawn>>
  BY DEF DropHeaderless, Runs
<1>2. /\ DomainsOK /\ StoreOK(u) /\ KeysOK(u) /\ CallsOK(u)
      /\ LogsOK(u) /\ StoredOK(u)
  BY DEF MessengerInv, ClientOK
<1>3. fetch' = [fetch EXCEPT ![u][f] = next]
  BY <1>2 DEF DropHeaderless, DomainsOK, CallsOK
<1>4. IsCall(u, call) /\ call.queue # <<>>
  BY <1>1, <1>2 DEF CallsOK
<1>5. text \in Text
  BY <1>4, NextCall
<1>6. IsCall(u, next) /\ next.pc = "loop"
  <2>1. /\ call \in [pc : {"idle", "loop", "opk", "log", "delete"},
                     queue : Seq(MessageTo(u)), ref : Nat, done : Seq(Text)]
        /\ Distinct(call.queue) /\ IsInjective(call.done)
        /\ ToSet(call.done) \cap TextsOf(call.queue) = {}
    BY <1>4 DEF IsCall
  <2>2. /\ Tail(call.queue) \in Seq(MessageTo(u)) /\ Distinct(Tail(call.queue))
        /\ TextsOf(Tail(call.queue)) \subseteq TextsOf(call.queue)
    BY <1>1, <2>1, QueueTail
  <2> DEFINE tail == Tail(call.queue)
  <2>3. /\ next \in [pc : {"idle", "loop", "opk", "log", "delete"},
                     queue : Seq(MessageTo(u)), ref : Nat, done : Seq(Text)]
        /\ next.queue = tail /\ next.done = call.done /\ next.pc = "loop"
    <3> HIDE DEF call
    <3> QED
      BY <1>1, <2>1, <2>2
  <2> HIDE DEF next, call, tail
  <2> QED
    BY <2>1, <2>2, <2>3 DEF IsCall, tail
<1> HIDE DEF next, text
<1>7. heap'[u] = heap[u] /\ thread'[u] = f
  BY <1>1
<1>8. \A g \in Polls \ {f} : fetch[u][g].pc = "opk" =>
        AtOpk(u, fetch[u][g], heap'[u])
  BY <1>2, <1>7 DEF CallsOK
<1>9. /\ CallsOK(u)' /\ Only(u, fetch, fetch') /\ fetch'[u][f] = next
      /\ \A g \in Polls \ {f} : fetch'[u][g] = fetch[u][g]
  <2>1. DomainsOK /\ CallsOK(u)
    BY <1>2
  <2>2. next.pc = "opk" => AtOpk(u, next, heap'[u])
    BY <1>6
  <2>3. \/ thread'[u] = Null
        \/ thread'[u] = f /\ next.pc \in {"loop", "log"}
        \/ thread'[u] = thread[u] /\ thread[u] # f
    BY <1>6, <1>7
  <2>4. IsCall(u, next)
    BY <1>6
  <2> QED
    BY <1>3, <1>8, <2>1, <2>2, <2>3, <2>4, CallChanged
<1>10. received' = received /\ withdrawn' = withdrawn
  BY <1>1 DEF files
<1>11. StoredOK(u)'
  BY <1>2, <1>6, <1>9, <1>10, StoredKept
<1>12. StoreOK(u)' /\ KeysOK(u)'
  BY <1>1, <1>2 DEF StoreOK, KeysOK, files
<1>13. dropped'[u] \in Seq(Text)
  <2>1. dropped'[u] = Append(dropped[u], text) /\ dropped[u] \in Seq(Text)
    BY <1>1, <1>2 DEF DomainsOK, LogsOK
  <2> QED
    BY <1>5, <2>1, AppendProperties
<1>14. LogsOK(u)'
  BY <1>1, <1>2, <1>13 DEF LogsOK, files
<1>15. StepOf(u)
  <2>1. Only(u, dropped, dropped')
    BY <1>1, OnlyExcept
  <2> QED
    BY <1>1, <1>9, <2>1 DEF StepOf, Only, files
<1>16. ServerOK' /\ NothingLost
  <2>1. UNCHANGED <<server, written>>
    BY <1>1
  <2> QED
    BY <2>1, ServerUntouched
<1> QED
  BY <1>9, <1>11, <1>12, <1>14, <1>15, <1>16, StepClosed DEF ClientOK

(* A first message makes a session, unless its one-time key is gone; it    *)
(* is read at once when none was used.                                     *)
LEMMA BeginSessionOK ==
  ASSUME MessengerInv, NEW u \in User, NEW f \in Polls, BeginSession(u, f)
  PROVE  MessengerInv' /\ NothingLost
<1> DEFINE call == fetch[u][f]
           m == Head(call.queue)
           opks == [id \in opkMemory[u] |-> OpkOf(u, id)]
           st == initRatchetReceiver(x3dhReceive(KeysOf(u), opks, m.x3dh), m,
                                     KeysOf(u).spk)
           new == NewRef(heap[u])
           objects == put(heap[u], new, st)
           gone == m.x3dh.opkId \notin opkMemory[u] \cup {Null}
           awaiting == [call EXCEPT !.ref = new, !.pc = "opk"]
<1>1. /\ thread[u] = f /\ call.pc = "loop" /\ call.queue # <<>>
      /\ m.x3dh # Null
      /\ UNCHANGED <<server, opkMemory, sending, files, written, faults,
                     withdrawn>>
      /\ \/ /\ fetch' = [fetch EXCEPT ![u][f] = Idle]
            /\ thread' = [thread EXCEPT ![u] = Null]
            /\ UNCHANGED <<heap, sessions, generated, opened, dropped>>
         \/ /\ ~gone
            /\ heap' = [heap EXCEPT ![u] = objects]
            /\ fetch' = [fetch EXCEPT ![u][f].ref = new, ![u][f].pc = "opk"]
            /\ thread' = [thread EXCEPT ![u] = Null]
            /\ UNCHANGED <<sessions, generated, opened, dropped>>
         \/ ~gone /\ m.x3dh.opkId = Null /\ Decrypt(u, f, objects, new)
  BY DEF BeginSession, Runs, awaitsOpk
<1>2. /\ DomainsOK /\ StoreOK(u) /\ KeysOK(u) /\ CallsOK(u)
      /\ LogsOK(u) /\ StoredOK(u)
  BY DEF MessengerInv, ClientOK
<1>3. IsCall(u, call)
  BY <1>2 DEF CallsOK
<1>4. m \in MessageTo(u) /\ m.x3dh \in
        [eph : {Peer(u)} \X Nat, ikDh : {<<Peer(u), 0>>},
         opkId : OpkId \cup {Null}]
  <2>1. m \in MessageTo(u)
    BY <1>1, <1>3, NextCall
  <2> QED
    BY <1>1, <2>1 DEF MessageTo
<1>5. new \in Nat /\ new \notin DOMAIN heap[u] /\ IsHeap(heap[u])
  BY <1>2, NewRefFree DEF StoreOK
<1> HIDE DEF new
<1>6. received' = received /\ withdrawn' = withdrawn /\ opkDisk' = opkDisk
  BY <1>1 DEF files
<1>7. KeysOf(u).spk \in Key /\ m.ratchetPublic \in Key
  BY <1>4 DEF KeysOf, Key, User, MessageTo
<1>8. ASSUME ~gone
      PROVE  /\ StateFine(st)
             /\ Begun(u, st) \subseteq {m.x3dh.opkId} \ {Null}
  <2> DEFINE rk == x3dhReceive(KeysOf(u), opks, m.x3dh)
  <2>1. opkMemory[u] \in SUBSET OpkId /\ m.x3dh.opkId \in opkMemory[u] \cup {Null}
    BY <1>2, <1>8 DEF KeysOK
  <2>2. /\ rk \in RootKey /\ rk # <<>>
        /\ \A state : state.rootKey[1] = rk[1] =>
             Begun(u, state) \subseteq {m.x3dh.opkId} \ {Null}
    <3> DEFINE x3dh == m.x3dh
               keys == opkMemory[u]
    <3>1. /\ keys \in SUBSET OpkId /\ x3dh.opkId \in keys \cup {Null}
          /\ x3dh \in [eph : {Peer(u)} \X Nat, ikDh : {<<Peer(u), 0>>},
                       opkId : OpkId \cup {Null}]
      BY <1>4, <2>1
    <3>2. rk = x3dhReceive(KeysOf(u), [id \in keys |-> OpkOf(u, id)], x3dh)
      OBVIOUS
    <3> HIDE DEF m, x3dh, keys, rk
    <3>3. /\ rk \in RootKey /\ rk # <<>>
          /\ \A state : state.rootKey[1] = rk[1] =>
               Begun(u, state) \subseteq {x3dh.opkId} \ {Null}
      BY <3>1, <3>2, BegunReceive
    <3> QED
      BY <3>3 DEF x3dh
  <2> HIDE DEF rk, m
  <2>3. /\ StateFine(initRatchetReceiver(rk, m, KeysOf(u).spk))
        /\ initRatchetReceiver(rk, m, KeysOf(u).spk).rootKey[1] = rk[1]
    BY <1>7, <2>2, InitReceiverFine
  <2> QED
    BY <2>2, <2>3 DEF rk
<1> HIDE DEF st, opks
<1>9. ASSUME ~gone
      PROVE  /\ IsHeap(objects) /\ new \in DOMAIN objects
             /\ Extends(objects, heap[u])
             /\ Begun(u, objects[new]) \subseteq {m.x3dh.opkId} \ {Null}
             /\ \A map, keys : IsMap(u, map, heap[u], keys) =>
                  IsMap(u, map, objects, keys)
  <2>1. StateFine(st) /\ Begun(u, st) \subseteq {m.x3dh.opkId} \ {Null}
    BY <1>8, <1>9
  <2>2. /\ IsHeap(objects) /\ DOMAIN objects = DOMAIN heap[u] \cup {new}
        /\ objects[new] = st
        /\ \A map, keys : IsMap(u, map, heap[u], keys) =>
             IsMap(u, map, objects, keys)
    <3> DEFINE old == heap[u]
    <3>1. IsHeap(old) /\ new \in Nat /\ StateFine(st) /\ new \notin DOMAIN old
      BY <1>5, <2>1
    <3>2. objects = put(old, new, st)
      OBVIOUS
    <3> HIDE DEF old, objects
    <3>3. /\ IsHeap(objects) /\ DOMAIN objects = DOMAIN old \cup {new}
          /\ objects[new] = st
          /\ \A map, keys : IsMap(u, map, old, keys) =>
               IsMap(u, map, objects, keys)
      BY <3>1, <3>2, PutFine
    <3> QED
      BY <3>3 DEF old
  <2>3. Extends(objects, heap[u])
    BY <1>5 DEF Extends, put
  <2> HIDE DEF objects, gone
  <2> QED
    BY <2>1, <2>2, <2>3
<1> HIDE DEF objects
<1>10. CASE /\ fetch' = [fetch EXCEPT ![u][f] = Idle]
            /\ thread' = [thread EXCEPT ![u] = Null]
            /\ UNCHANGED <<heap, sessions, generated, opened, dropped>>
  <2>1. IsCall(u, Idle) /\ Idle.pc = "idle"
    BY IdleFine
  <2>2. thread'[u] = Null /\ heap' = heap
    BY <1>2, <1>10 DEF DomainsOK
  <2>3. \A g \in Polls \ {f} : fetch[u][g].pc = "opk" =>
          AtOpk(u, fetch[u][g], heap'[u])
    BY <1>2, <2>2 DEF CallsOK
  <2>4. Idle.pc = "opk" => AtOpk(u, Idle, heap'[u])
    BY <2>1
  <2>5. fetch' = [fetch EXCEPT ![u][f] = Idle]
    BY <1>10
  <2>6. DomainsOK /\ CallsOK(u)
    BY <1>2
  <2>7. /\ CallsOK(u)' /\ Only(u, fetch, fetch') /\ fetch'[u][f] = Idle
        /\ \A g \in Polls \ {f} : fetch'[u][g] = fetch[u][g]
    BY <2>1, <2>2, <2>3, <2>4, <2>5, <2>6, CallChanged
  <2>8. StoredOK(u)'
    BY <1>2, <1>6, <2>1, <2>7, StoredKept
  <2>9. StoreOK(u)' /\ KeysOK(u)' /\ LogsOK(u)'
    BY <1>1, <1>2, <1>10 DEF StoreOK, KeysOK, LogsOK, files
  <2>10. Only(u, thread, thread')
    BY <1>10, OnlyExcept
  <2>11. StepOf(u)
    BY <1>1, <1>10, <2>7, <2>10 DEF StepOf, Only, files
  <2>12. ServerOK' /\ NothingLost
    BY <1>1, ServerUntouched
  <2> QED
    BY <2>7, <2>8, <2>9, <2>11, <2>12, StepClosed DEF ClientOK
<1>11. CASE /\ ~gone
            /\ heap' = [heap EXCEPT ![u] = objects]
            /\ fetch' = [fetch EXCEPT ![u][f].ref = new, ![u][f].pc = "opk"]
            /\ thread' = [thread EXCEPT ![u] = Null]
            /\ UNCHANGED <<sessions, generated, opened, dropped>>
  <2>1. /\ IsHeap(objects) /\ new \in DOMAIN objects
        /\ Extends(objects, heap[u])
        /\ Begun(u, objects[new]) \subseteq {m.x3dh.opkId}
        /\ \A map, keys : IsMap(u, map, heap[u], keys) =>
             IsMap(u, map, objects, keys)
    BY <1>9, <1>11
  <2>2. heap'[u] = objects /\ thread'[u] = Null
    BY <1>2, <1>11 DEF DomainsOK
  <2>3. fetch' = [fetch EXCEPT ![u][f] = awaiting]
    BY <1>2, <1>11 DEF DomainsOK, CallsOK
  <2>4. IsCall(u, awaiting) /\ awaiting.pc = "opk"
        /\ awaiting.queue = call.queue /\ awaiting.ref = new
    <3>1. /\ call \in [pc : {"idle", "loop", "opk", "log", "delete"},
                       queue : Seq(MessageTo(u)), ref : Nat, done : Seq(Text)]
          /\ Distinct(call.queue) /\ IsInjective(call.done)
          /\ ToSet(call.done) \cap TextsOf(call.queue) = {}
      BY <1>3 DEF IsCall
    <3>2. /\ awaiting \in [pc : {"idle", "loop", "opk", "log", "delete"},
                           queue : Seq(MessageTo(u)), ref : Nat, done : Seq(Text)]
          /\ awaiting.queue = call.queue /\ awaiting.done = call.done
          /\ awaiting.pc = "opk" /\ awaiting.ref = new
      <4> HIDE DEF call
      <4> QED
        BY <1>5, <3>1
    <3> HIDE DEF awaiting, call
    <3> QED
      BY <3>1, <3>2 DEF IsCall
  <2> HIDE DEF awaiting
  <2>5. AtOpk(u, awaiting, objects)
    BY <1>1, <2>1, <2>4 DEF AtOpk
  <2>6. AtOpk(u, awaiting, heap'[u])
    BY <2>2, <2>5
  <2>7. \A g \in Polls \ {f} : fetch[u][g].pc = "opk" =>
          AtOpk(u, fetch[u][g], heap'[u])
    <3> SUFFICES ASSUME NEW g \in Polls \ {f}, fetch[u][g].pc = "opk"
                 PROVE  AtOpk(u, fetch[u][g], objects)
      BY <2>2
    <3>1. AtOpk(u, fetch[u][g], heap[u])
      BY <1>2 DEF CallsOK
    <3> QED
      BY <2>1, <3>1 DEF AtOpk, Extends
  <2>8. DomainsOK /\ CallsOK(u) /\ thread'[u] = Null /\ IsCall(u, awaiting)
    BY <1>2, <2>2, <2>4
  <2>9. /\ CallsOK(u)' /\ Only(u, fetch, fetch') /\ fetch'[u][f] = awaiting
        /\ \A g \in Polls \ {f} : fetch'[u][g] = fetch[u][g]
    BY <2>3, <2>6, <2>7, <2>8, CallChanged
  <2>10. StoredOK(u)'
    BY <1>2, <1>6, <2>4, <2>9, StoredKept
  <2>11. StoreOK(u)'
    <3>1. IsMap(u, sessions[u], objects, opkDisk[u])
      BY <1>2, <2>1 DEF StoreOK
    <3>2. sessions' = sessions /\ disk' = disk /\ opkDisk' = opkDisk
      BY <1>1, <1>11 DEF files
    <3> QED
      BY <1>2, <2>1, <2>2, <3>1, <3>2 DEF StoreOK
  <2>12. KeysOK(u)' /\ LogsOK(u)'
    BY <1>1, <1>2, <1>11 DEF KeysOK, LogsOK, files
  <2>13. Only(u, thread, thread') /\ Only(u, heap, heap')
    BY <1>11, OnlyExcept
  <2>14. StepOf(u)
    BY <1>1, <1>11, <2>9, <2>13 DEF StepOf, Only, files
  <2>15. ServerOK' /\ NothingLost
    BY <1>1, ServerUntouched
  <2> QED
    BY <2>9, <2>10, <2>11, <2>12, <2>14, <2>15, StepClosed DEF ClientOK
<1>12. CASE ~gone /\ m.x3dh.opkId = Null /\ Decrypt(u, f, objects, new)
  <2>1. /\ IsHeap(objects) /\ new \in DOMAIN objects
        /\ Extends(objects, heap[u])
        /\ Begun(u, objects[new]) \subseteq {m.x3dh.opkId} \ {Null}
    BY <1>9, <1>12
  <2>2. Begun(u, objects[new]) = {}
    BY <1>12, <2>1
  <2>3. Only(u, opkDisk, opkDisk') /\ opkDisk'[u] \subseteq opkDisk[u]
    BY <1>6 DEF Only
  <2>4. fetch[u][f].queue # <<>> /\ Decrypt(u, f, objects, new)
    BY <1>1, <1>12
  <2>5. Begun(u, objects[new]) \cap opkDisk'[u] = {}
    BY <2>2
  <2> HIDE DEF gone, call, m, awaiting
  <2> QED
    BY <2>1, <2>3, <2>4, <2>5, TryMessageOK
<1> QED
  BY <1>1, <1>10, <1>11, <1>12

(* deleteConsumedOpk has ended, and the session it was awaited for is used.*)
LEMMA OpkDeletedOK ==
  ASSUME MessengerInv, NEW u \in User, NEW f \in Polls, OpkDeleted(u, f)
  PROVE  MessengerInv' /\ NothingLost
<1> DEFINE call == fetch[u][f]
           id == Head(call.queue).x3dh.opkId
           objects == heap[u]
           ref == call.ref
<1>1. /\ call.pc = "opk"
      /\ opkDisk' = [opkDisk EXCEPT ![u] = @ \ {id}]
      /\ Decrypt(u, f, objects, ref)
  BY DEF OpkDeleted
<1>2. DomainsOK /\ StoreOK(u) /\ CallsOK(u)
  BY DEF MessengerInv, ClientOK
<1>3. call.queue # <<>> /\ ref \in DOMAIN objects
      /\ Begun(u, objects[ref]) \subseteq {id}
  <2>1. AtOpk(u, call, heap[u])
    BY <1>1, <1>2 DEF CallsOK
  <2> QED
    BY <2>1 DEF AtOpk
<1>4. IsHeap(objects) /\ Extends(objects, heap[u])
  BY <1>2 DEF StoreOK, Extends
<1>5. opkDisk'[u] = opkDisk[u] \ {id} /\ Only(u, opkDisk, opkDisk')
  BY <1>1, <1>2, OnlyExcept DEF DomainsOK
<1>6. /\ opkDisk'[u] \subseteq opkDisk[u]
      /\ Begun(u, objects[ref]) \cap opkDisk'[u] = {}
  BY <1>3, <1>5
<1>7. fetch[u][f].queue # <<>>
  BY <1>3
<1>8. ref \in DOMAIN objects /\ Decrypt(u, f, objects, ref)
  BY <1>1, <1>3
<1> HIDE DEF call, id, objects, ref
<1> QED
  BY <1>4, <1>5, <1>6, <1>7, <1>8, TryMessageOK

(* A call that has no more to delete than another with the same queue.     *)
LEMMA CallMoved ==
  ASSUME NEW u \in User, NEW call, IsCall(u, call), NEW next,
         next \in [pc : {"idle", "loop", "opk", "log", "delete"},
                  queue : Seq(MessageTo(u)), ref : Nat, done : Seq(Text)],
         next.queue = call.queue, IsInjective(next.done),
         ToSet(next.done) \subseteq ToSet(call.done)
  PROVE  IsCall(u, next)
BY DEF IsCall

(* saveSessions writes what the invariant says of the heap.                *)
LEMMA SaveSessionsOK ==
  ASSUME MessengerInv, NEW u \in User, NEW f \in Polls, SaveSessions(u, f)
  PROVE  MessengerInv' /\ NothingLost
<1> DEFINE call == fetch[u][f]
           next == [call EXCEPT !.pc = "log"]
<1>1. /\ thread[u] = f /\ call.pc = "loop"
      /\ disk' = [disk EXCEPT ![u] = Snapshot(sessions[u], heap[u])]
      /\ fetch' = [fetch EXCEPT ![u][f].pc = "log"]
      /\ UNCHANGED <<server, heap, sessions, opkMemory, thread, sending,
                     opkDisk, received, sentLog, generated, written, faults,
                     history>>
  BY DEF SaveSessions, Runs
<1>2. /\ DomainsOK /\ StoreOK(u) /\ KeysOK(u) /\ CallsOK(u)
      /\ LogsOK(u) /\ StoredOK(u)
  BY DEF MessengerInv, ClientOK
<1>3. IsCall(u, call)
  BY <1>2 DEF CallsOK
<1>4. fetch' = [fetch EXCEPT ![u][f] = next]
  BY <1>1, <1>2 DEF DomainsOK, CallsOK
<1>5. IsCall(u, next) /\ next.pc = "log"
  <2> HIDE DEF call
  <2>1. /\ next \in [pc : {"idle", "loop", "opk", "log", "delete"},
                     queue : Seq(MessageTo(u)), ref : Nat, done : Seq(Text)]
        /\ next.queue = call.queue /\ next.done = call.done
        /\ next.pc = "log" /\ IsInjective(call.done)
    BY <1>3 DEF IsCall
  <2> HIDE DEF next
  <2>2. IsInjective(next.done) /\ ToSet(next.done) \subseteq ToSet(call.done)
    BY <2>1
  <2>3. IsCall(u, next)
    BY <1>3, <2>1, <2>2, CallMoved
  <2> QED
    BY <2>1, <2>3
<1> HIDE DEF next
<1>6. /\ thread'[u] = f /\ heap' = heap /\ received' = received
      /\ withdrawn' = withdrawn
  BY <1>1 DEF history
<1>7. /\ CallsOK(u)' /\ Only(u, fetch, fetch') /\ fetch'[u][f] = next
      /\ \A g \in Polls \ {f} : fetch'[u][g] = fetch[u][g]
  <2>1. next.pc = "opk" => AtOpk(u, next, heap'[u])
    BY <1>5
  <2>2. \A g \in Polls \ {f} : fetch[u][g].pc = "opk" =>
          AtOpk(u, fetch[u][g], heap'[u])
    BY <1>2, <1>6 DEF CallsOK
  <2>3. \/ thread'[u] = Null
        \/ thread'[u] = f /\ next.pc \in {"loop", "log"}
        \/ thread'[u] = thread[u] /\ thread[u] # f
    BY <1>5, <1>6
  <2>4. DomainsOK /\ CallsOK(u) /\ IsCall(u, next)
    BY <1>2, <1>5
  <2> QED
    BY <1>4, <2>1, <2>2, <2>3, <2>4, CallChanged
<1>8. StoredOK(u)'
  BY <1>2, <1>5, <1>6, <1>7, StoredKept
<1>9. StoreOK(u)'
  <2>1. IsSaved(u, Snapshot(sessions[u], heap[u]), opkDisk[u])
    BY <1>2, SnapshotFine DEF StoreOK
  <2>2. disk'[u] = Snapshot(sessions[u], heap[u])
    BY <1>1, <1>2 DEF DomainsOK
  <2> QED
    BY <1>1, <1>2, <2>1, <2>2 DEF StoreOK
<1>10. KeysOK(u)' /\ LogsOK(u)'
  BY <1>1, <1>2 DEF KeysOK, LogsOK, history
<1>11. StepOf(u)
  <2>1. Only(u, disk, disk')
    BY <1>1, OnlyExcept
  <2> QED
    BY <1>1, <1>7, <2>1 DEF StepOf, Only, history
<1>12. ServerOK' /\ NothingLost
  BY <1>1, ServerUntouched
<1> QED
  BY <1>7, <1>8, <1>9, <1>10, <1>11, <1>12, StepClosed DEF ClientOK

(* saveReceivedLog adds what the log lacks, and only then is there         *)
(* something to delete.                                                    *)
LEMMA LogReceivedOK ==
  ASSUME MessengerInv, NEW u \in User, NEW f \in Polls, LogReceived(u, f)
  PROVE  MessengerInv' /\ NothingLost
<1> DEFINE call == fetch[u][f]
           done == call.done
           log == received[u]
           new == fresh(done, log)
           next == IF done = <<>> THEN Idle ELSE [call EXCEPT !.pc = "delete"]
<1>1. /\ received' = [received EXCEPT ![u] = @ \o new]
      /\ thread' = [thread EXCEPT ![u] = Null]
      /\ fetch' = [fetch EXCEPT ![u][f] = next]
      /\ UNCHANGED <<server, heap, sessions, opkMemory, sending,
                     disk, opkDisk, sentLog, generated, written, faults,
                     history>>
  <2>1. DomainsOK /\ CallsOK(u)
    BY DEF MessengerInv, ClientOK
  <2> QED
    BY <2>1 DEF LogReceived, DomainsOK, CallsOK
<1>2. /\ DomainsOK /\ StoreOK(u) /\ KeysOK(u) /\ CallsOK(u)
      /\ LogsOK(u) /\ StoredOK(u)
  BY DEF MessengerInv, ClientOK
<1>3. IsCall(u, call)
  BY <1>2 DEF CallsOK
<1>4. /\ done \in Seq(Text) /\ IsInjective(done)
      /\ log \in Seq(Text) /\ IsInjective(log)
  BY <1>2, <1>3 DEF IsCall, LogsOK
<1>5. /\ log \o new \in Seq(Text) /\ IsInjective(log \o new)
      /\ ToSet(log \o new) = ToSet(log) \cup ToSet(done)
  <2> DEFINE S == ToSet(done) \ ToSet(log)
  <2>1. new = Kept(done, S)
    BY DEF fresh
  <2> HIDE DEF done, log, new, S
  <2>2. /\ new \in Seq(Text) /\ IsInjective(new)
        /\ ToSet(new) = ToSet(done) \cap S
    BY <1>4, <2>1, KeptPicks, KeptInjective, KeptSet
  <2>3. ToSet(new) = S
    BY <2>2 DEF S
  <2>4. ToSet(log) \cap ToSet(new) = {}
    BY <2>3 DEF S
  <2>5. /\ log \o new \in Seq(Text) /\ IsInjective(log \o new)
        /\ ToSet(log \o new) = ToSet(log) \cup ToSet(new)
    BY <1>4, <2>2, <2>4, ConcatInjective
  <2> QED
    BY <2>3, <2>5 DEF S
<1> HIDE DEF new
<1>6. /\ IsCall(u, next) /\ next.pc \in {"idle", "delete"}
      /\ next.pc = "delete" => next.done = done
  <2>1. CASE done = <<>>
    BY <2>1, IdleFine
  <2>2. CASE done # <<>>
    <3> HIDE DEF call
    <3>1. /\ next \in [pc : {"idle", "loop", "opk", "log", "delete"},
                       queue : Seq(MessageTo(u)), ref : Nat, done : Seq(Text)]
          /\ next.queue = call.queue /\ next.done = done /\ next.pc = "delete"
      BY <1>3, <2>2 DEF IsCall
    <3> HIDE DEF next
    <3>2. IsInjective(next.done) /\ ToSet(next.done) \subseteq ToSet(call.done)
      BY <1>4, <3>1
    <3>3. IsCall(u, next)
      BY <1>3, <3>1, <3>2, CallMoved
    <3> QED
      BY <3>1, <3>3
  <2> QED
    BY <2>1, <2>2
<1> HIDE DEF next
<1>7. /\ thread'[u] = Null /\ heap' = heap /\ withdrawn' = withdrawn
      /\ received'[u] = log \o new
  BY <1>1, <1>2 DEF DomainsOK, history
<1>8. /\ CallsOK(u)' /\ Only(u, fetch, fetch') /\ fetch'[u][f] = next
      /\ \A g \in Polls \ {f} : fetch'[u][g] = fetch[u][g]
  <2>1. next.pc = "opk" => AtOpk(u, next, heap'[u])
    BY <1>6
  <2>2. \A g \in Polls \ {f} : fetch[u][g].pc = "opk" =>
          AtOpk(u, fetch[u][g], heap'[u])
    BY <1>2, <1>7 DEF CallsOK
  <2>3. DomainsOK /\ CallsOK(u) /\ IsCall(u, next) /\ thread'[u] = Null
    BY <1>2, <1>6, <1>7
  <2>4. fetch' = [fetch EXCEPT ![u][f] = next]
    BY <1>1
  <2> QED
    BY <2>1, <2>2, <2>3, <2>4, CallChanged
<1>9. StoredOK(u)'
  <2>1. ToSet(received'[u]) = ToSet(received[u]) \cup ToSet(done)
    BY <1>5, <1>7
  <2>2. fetch'[u][f].pc = "delete" =>
          ToSet(fetch'[u][f].done) \subseteq ToSet(received'[u]) \cup withdrawn'
    BY <1>6, <1>8, <2>1
  <2>3. ToSet(received[u]) \cup withdrawn
          \subseteq ToSet(received'[u]) \cup withdrawn'
    BY <1>7, <2>1
  <2> QED
    BY <1>2, <1>8, <2>2, <2>3, StoredKept
<1>10. StoreOK(u)' /\ KeysOK(u)'
  BY <1>1, <1>2 DEF StoreOK, KeysOK
<1>11. LogsOK(u)'
  <2>1. received'[u] \in Seq(Text) /\ IsInjective(received'[u])
    BY <1>5, <1>7
  <2> QED
    BY <1>1, <1>2, <2>1 DEF LogsOK, history
<1>12. StepOf(u)
  <2>1. Only(u, received, received') /\ Only(u, thread, thread')
    BY <1>1, OnlyExcept
  <2> QED
    BY <1>1, <1>8, <2>1 DEF StepOf, Only, history
<1>13. ServerOK' /\ NothingLost
  BY <1>1, ServerUntouched
<1> QED
  BY <1>8, <1>9, <1>10, <1>11, <1>12, <1>13, StepClosed DEF ClientOK

(* One DELETE ends.                                                        *)
LEMMA DeleteOneOK ==
  ASSUME MessengerInv, NEW u \in User, NEW f \in Polls, DeleteOne(u, f)
  PROVE  MessengerInv' /\ NothingLost
<1> DEFINE call == fetch[u][f]
           done == call.done
           left(i) == RemoveAt(done, i)
           next(i) == IF left(i) = <<>> THEN Idle
                      ELSE [call EXCEPT !.done = left(i)]
<1>1. /\ DomainsOK /\ StoreOK(u) /\ KeysOK(u) /\ CallsOK(u)
      /\ LogsOK(u) /\ StoredOK(u)
  BY DEF MessengerInv, ClientOK
<1>2. /\ call.pc = "delete"
      /\ UNCHANGED <<opkPool, heap, sessions, opkMemory, thread, sending, files,
                     generated, written, history>>
  BY DEF DeleteOne
<1>3. PICK i \in DOMAIN done :
        /\ fetch' = [fetch EXCEPT ![u][f] = next(i)]
        /\ \/ mailbox' = [mailbox EXCEPT ![u] = delete_message(@, done[i])]
           \/ UNCHANGED mailbox
  BY <1>1 DEF DeleteOne, DomainsOK, CallsOK
<1>4. IsCall(u, call)
  BY <1>1 DEF CallsOK
<1>5. done \in Seq(Text) /\ IsInjective(done)
  BY <1>4 DEF IsCall
<1>6. /\ left(i) \in Seq(Text) /\ IsInjective(left(i))
      /\ ToSet(left(i)) \subseteq ToSet(done)
  BY <1>3, <1>5, RemoveAtInjective
<1>7. done[i] \in ToSet(done)
  BY <1>3 DEF ToSet
<1> HIDE DEF left, next
<1>8. /\ IsCall(u, next(i)) /\ next(i).pc \in {"idle", "delete"}
      /\ next(i).pc = "delete" => next(i).done = left(i)
  <2>1. CASE left(i) = <<>>
    BY <2>1, IdleFine DEF next
  <2>2. CASE left(i) # <<>>
    <3> DEFINE moved == next(i)
    <3> HIDE DEF call
    <3>1. /\ moved \in [pc : {"idle", "loop", "opk", "log", "delete"},
                        queue : Seq(MessageTo(u)), ref : Nat, done : Seq(Text)]
          /\ moved.queue = call.queue /\ moved.done = left(i)
          /\ moved.pc = "delete"
      BY <1>2, <1>4, <1>6, <2>2 DEF IsCall, next
    <3> HIDE DEF moved
    <3>2. IsInjective(moved.done) /\ ToSet(moved.done) \subseteq ToSet(call.done)
      BY <1>6, <3>1
    <3>3. IsCall(u, moved)
      BY <1>4, <3>1, <3>2, CallMoved
    <3> QED
      BY <3>1, <3>3 DEF moved
  <2> QED
    BY <2>1, <2>2
<1>9. heap' = heap /\ withdrawn' = withdrawn /\ received' = received
  BY <1>2 DEF files, history
<1>10. thread'[u] = thread[u] /\ thread[u] # f
  BY <1>1, <1>2, PollsAssumption DEF CallsOK
<1>11. /\ CallsOK(u)' /\ Only(u, fetch, fetch') /\ fetch'[u][f] = next(i)
       /\ \A g \in Polls \ {f} : fetch'[u][g] = fetch[u][g]
  <2>1. next(i).pc = "opk" => AtOpk(u, next(i), heap'[u])
    BY <1>8
  <2>2. \A g \in Polls \ {f} : fetch[u][g].pc = "opk" =>
          AtOpk(u, fetch[u][g], heap'[u])
    BY <1>1, <1>9 DEF CallsOK
  <2>3. DomainsOK /\ CallsOK(u) /\ IsCall(u, next(i))
    BY <1>1, <1>8
  <2>4. fetch' = [fetch EXCEPT ![u][f] = next(i)]
    BY <1>3
  <2> QED
    BY <1>10, <2>1, <2>2, <2>3, <2>4, CallChanged
<1>12. ToSet(done) \subseteq ToSet(received[u]) \cup withdrawn
  BY <1>1, <1>2 DEF StoredOK
<1>13. StoredOK(u)'
  <2>1. fetch'[u][f].pc = "delete" =>
          ToSet(fetch'[u][f].done) \subseteq ToSet(received'[u]) \cup withdrawn'
    BY <1>6, <1>8, <1>9, <1>11, <1>12
  <2> QED
    BY <1>1, <1>9, <1>11, <2>1, StoredKept
<1>14. StoreOK(u)' /\ KeysOK(u)' /\ LogsOK(u)'
  BY <1>1, <1>2 DEF StoreOK, KeysOK, LogsOK, files, history
<1>15. StepOf(u)
  BY <1>2, <1>11 DEF StepOf, Only, files, history
<1>16. ServerOK' /\ NothingLost
  <2>1. CASE mailbox' = [mailbox EXCEPT ![u] = delete_message(@, done[i])]
    <3> DEFINE text == done[i]
    <3>1. mailbox' = [mailbox EXCEPT ![u] = delete_message(@, text)]
          /\ UNCHANGED <<opkPool, written>>
      BY <1>2, <2>1
    <3> HIDE DEF text
    <3>2. /\ ServerOK'
          /\ \A w \in User : w # u => mailbox'[w] = mailbox[w]
          /\ TextsOf(mailbox[u]) \ TextsOf(mailbox'[u]) \subseteq {text}
      BY <3>1, ServerDeletes
    <3>3. text \in ToSet(received[u]) \cup withdrawn'
      BY <1>7, <1>9, <1>12 DEF text
    <3> QED
      BY <3>2, <3>3 DEF NothingLost
  <2>2. CASE mailbox' = mailbox
    BY <1>2, <2>2, ServerUntouched DEF server
  <2> QED
    BY <1>3, <2>1, <2>2
<1> QED
  BY <1>11, <1>13, <1>14, <1>15, <1>16, StepClosed DEF ClientOK

---------------------------------------------------------------------------
(* The users, and crashes.                                                 *)

(* A step in which u's memory keeps still, and only its sent and received  *)
(* logs change while a text is withdrawn.                                  *)
LEMMA WithdrawnOK ==
  ASSUME MessengerInv, NEW u \in User,
         UNCHANGED <<opkPool, memory, disk, opkDisk, generated, written,
                     opened, dropped>>,
         Only(u, received, received'), Only(u, sentLog, sentLog'),
         received'[u] \in Seq(Text), IsInjective(received'[u]),
         sentLog'[u] \subseteq Text, withdrawn \subseteq withdrawn',
         ToSet(received[u]) \subseteq ToSet(received'[u]) \cup withdrawn',
         ServerOK'
  PROVE  MessengerInv'
<1>1. /\ DomainsOK /\ StoreOK(u) /\ KeysOK(u) /\ CallsOK(u)
      /\ LogsOK(u) /\ StoredOK(u)
  BY DEF MessengerInv, ClientOK
<1>2. StoreOK(u)' /\ KeysOK(u)'
  BY <1>1 DEF StoreOK, KeysOK, memory
<1>3. CallsOK(u)'
  BY <1>1 DEF CallsOK, memory
<1>4. LogsOK(u)'
  BY <1>1 DEF LogsOK, memory
<1>5. StoredOK(u)'
  BY <1>1 DEF StoredOK, memory
<1>6. StepOf(u)
  BY DEF StepOf, Only, memory
<1> QED
  BY <1>2, <1>3, <1>4, <1>5, <1>6, StepClosed DEF ClientOK

(* The writer withdraws a text.                                            *)
LEMMA RevokeOK ==
  ASSUME MessengerInv, NEW u \in User, Revoke(u)
  PROVE  MessengerInv' /\ NothingLost
<1> DEFINE v == Peer(u)
<1>1. PICK text \in sentLog[u] :
        /\ mailbox' = [mailbox EXCEPT ![v] = delete_message(@, text)]
        /\ sentLog' = [sentLog EXCEPT ![u] = @ \ {text}]
        /\ withdrawn' = withdrawn \cup {text}
  BY DEF Revoke
<1>2. UNCHANGED <<opkPool, memory, disk, opkDisk, received, generated, written,
                  opened, dropped>>
  BY DEF Revoke
<1>3. DomainsOK /\ LogsOK(u)
  BY DEF MessengerInv, ClientOK
<1>4. v \in User
  BY Peers
<1>5. /\ ServerOK'
      /\ \A w \in User : w # v => mailbox'[w] = mailbox[w]
      /\ TextsOf(mailbox[v]) \ TextsOf(mailbox'[v]) \subseteq {text}
  <2>1. mailbox' = [mailbox EXCEPT ![v] = delete_message(@, text)]
    BY <1>1
  <2>2. UNCHANGED <<opkPool, written>>
    BY <1>2
  <2> HIDE DEF v
  <2> QED
    BY <1>4, <2>1, <2>2, ServerDeletes
<1> HIDE DEF v
<1>6. NothingLost
  BY <1>1, <1>5 DEF NothingLost
<1>7. Only(u, received, received') /\ Only(u, sentLog, sentLog')
  BY <1>1, <1>2, OnlyExcept
<1>8. sentLog'[u] \subseteq Text /\ received'[u] = received[u]
  BY <1>1, <1>2, <1>3 DEF DomainsOK, LogsOK
<1>9. received'[u] \in Seq(Text) /\ IsInjective(received'[u])
  BY <1>3, <1>8 DEF LogsOK
<1>10. /\ withdrawn \subseteq withdrawn'
       /\ ToSet(received[u]) \subseteq ToSet(received'[u]) \cup withdrawn'
  BY <1>1, <1>8
<1>11. MessengerInv'
  BY <1>2, <1>5, <1>7, <1>8, <1>9, <1>10, WithdrawnOK
<1> QED
  BY <1>6, <1>11

(* The reader erases a text.                                               *)
LEMMA EraseOK ==
  ASSUME MessengerInv, NEW u \in User, Erase(u)
  PROVE  MessengerInv' /\ NothingLost
<1>1. PICK text \in ToSet(received[u]) :
        /\ mailbox' = [mailbox EXCEPT ![u] = delete_message(@, text)]
        /\ received' = [received EXCEPT ![u] =
                          Kept(@, ToSet(@) \ {text})]
        /\ withdrawn' = withdrawn \cup {text}
  BY DEF Erase
<1>2. UNCHANGED <<opkPool, memory, disk, opkDisk, sentLog, generated, written,
                  opened, dropped>>
  BY DEF Erase
<1>3. DomainsOK /\ LogsOK(u)
  BY DEF MessengerInv, ClientOK
<1>4. /\ ServerOK'
      /\ \A w \in User : w # u => mailbox'[w] = mailbox[w]
      /\ TextsOf(mailbox[u]) \ TextsOf(mailbox'[u]) \subseteq {text}
  <2>1. mailbox' = [mailbox EXCEPT ![u] = delete_message(@, text)]
    BY <1>1
  <2>2. UNCHANGED <<opkPool, written>>
    BY <1>2
  <2> QED
    BY <2>1, <2>2, ServerDeletes
<1>5. NothingLost
  BY <1>1, <1>4 DEF NothingLost
<1>6. Only(u, received, received') /\ Only(u, sentLog, sentLog')
  BY <1>1, <1>2, OnlyExcept
<1>7. sentLog'[u] \subseteq Text
  BY <1>2, <1>3 DEF LogsOK
<1>8. /\ received'[u] \in Seq(Text) /\ IsInjective(received'[u])
      /\ ToSet(received[u]) \subseteq ToSet(received'[u]) \cup {text}
  <2> DEFINE log == received[u]
             S == ToSet(log) \ {text}
             left == Kept(log, S)
  <2>1. received'[u] = left
    BY <1>1, <1>3 DEF DomainsOK
  <2>2. log \in Seq(Text) /\ IsInjective(log)
    BY <1>3 DEF LogsOK
  <2> HIDE DEF log, S
  <2>3. /\ left \in Seq(Text) /\ IsInjective(left)
        /\ ToSet(left) = ToSet(log) \cap S
    BY <2>2, KeptPicks, KeptInjective, KeptSet
  <2> HIDE DEF left
  <2> QED
    BY <2>1, <2>3 DEF log, S
<1>9. /\ withdrawn \subseteq withdrawn'
      /\ ToSet(received[u]) \subseteq ToSet(received'[u]) \cup withdrawn'
  BY <1>1, <1>8
<1>10. MessengerInv'
  BY <1>2, <1>4, <1>6, <1>7, <1>8, <1>9, WithdrawnOK
<1> QED
  BY <1>5, <1>10

(* The client dies, maybe with a file half written, and starts again.      *)
LEMMA CrashOK ==
  ASSUME MessengerInv, NEW u \in User, Crash(u)
  PROVE  MessengerInv' /\ NothingLost
<1>1. PICK file \in {disk[u], NoSessions} :
        Restart(u, file, opkDisk[u]) /\ disk' = [disk EXCEPT ![u] = file]
  BY DEF Crash
<1>2. PICK log \in {received[u], <<>>} : received' = [received EXCEPT ![u] = log]
  BY DEF Crash
<1>3. UNCHANGED <<server, opkDisk, sentLog, generated, written, history>>
  BY DEF Crash
<1>4. /\ DomainsOK /\ StoreOK(u) /\ KeysOK(u) /\ LogsOK(u)
  BY DEF MessengerInv, ClientOK
<1>5. IsSaved(u, file, opkDisk[u])
  BY <1>4, NoSessionsFine DEF StoreOK
<1>6. Restart(u, file, opkDisk[u])
  BY <1>1
<1> DEFINE keys == opkDisk[u]
<1>7. CallsOK(u)' /\ StoredOK(u)'
  BY <1>4, <1>6, RestartCalls
<1>8. /\ Only(u, heap, heap') /\ Only(u, sessions, sessions')
      /\ Only(u, opkMemory, opkMemory') /\ Only(u, thread, thread')
      /\ Only(u, fetch, fetch') /\ Only(u, sending, sending')
      /\ opkMemory'[u] = keys /\ sending'[u] = FALSE
  <2>1. DomainsOK /\ Restart(u, file, keys)
    BY <1>4, <1>6
  <2> HIDE DEF keys
  <2> QED
    BY <2>1, RestartStep
<1>9. IsHeap(heap'[u]) /\ IsMap(u, sessions'[u], heap'[u], keys)
  <2>1. DomainsOK /\ Restart(u, file, keys) /\ IsSaved(u, file, keys)
    BY <1>4, <1>5, <1>6
  <2> HIDE DEF keys
  <2> QED
    BY <2>1, RestartFine
<1>10. disk'[u] = file /\ received'[u] = log
  BY <1>1, <1>2, <1>4 DEF DomainsOK
<1>11. StoreOK(u)'
  BY <1>3, <1>5, <1>9, <1>10 DEF StoreOK
<1>12. KeysOK(u)'
  BY <1>3, <1>4, <1>8 DEF KeysOK
<1>13. LogsOK(u)'
  <2>1. log \in Seq(Text) /\ IsInjective(log)
    <3>1. DOMAIN <<>> = {} /\ <<>> \in Seq(Text)
      OBVIOUS
    <3> QED
      BY <1>2, <1>4, <3>1 DEF LogsOK, IsInjective
  <2> QED
    BY <1>3, <1>4, <1>8, <1>10, <2>1 DEF LogsOK, history
<1>14. StepOf(u)
  <2>1. Only(u, disk, disk') /\ Only(u, received, received')
    BY <1>1, <1>2, OnlyExcept
  <2> QED
    BY <1>3, <1>8, <2>1 DEF StepOf, Only, history
<1>15. ServerOK' /\ NothingLost
  BY <1>3, ServerUntouched
<1> QED
  BY <1>7, <1>11, <1>12, <1>13, <1>14, <1>15, StepClosed DEF ClientOK

---------------------------------------------------------------------------
(* The invariant, and what follows from it.                                *)

(* It holds when the clients have registered and nothing was sent yet.     *)
LEMMA InitOK == Init => MessengerInv
<1> SUFFICES ASSUME Init PROVE MessengerInv
  OBVIOUS
<1>1. DomainsOK
  BY DEF Init, DomainsOK
<1>2. ASSUME NEW u \in User PROVE MailOK(u)
  BY <1>2, Peers DEF Init, MailOK, Distinct
<1>3. ASSUME NEW u \in User PROVE opkPool[u] \in Seq(OpkId)
  <2>1. Opks \in Nat
    BY BoundsAssumption
  <2>2. \A i \in 1..Opks : i - 1 \in OpkId
    BY <2>1 DEF OpkId
  <2> QED
    BY <1>3, <2>1, <2>2 DEF Init
<1>4. ASSUME NEW u \in User PROVE StoreOK(u)
  <2>1. IsFiniteSet(DOMAIN heap[u]) /\ DOMAIN heap[u] = {}
    BY <1>4, FS_EmptySet DEF Init
  <2>2. sessions[u] = NoSessions /\ disk[u] = NoSessions
    BY <1>4 DEF Init
  <2> QED
    BY <2>1, <2>2, NoSessionsFine DEF StoreOK, IsHeap, IsMap
<1>5. ASSUME NEW u \in User PROVE KeysOK(u)
  <2>1. Opks \in Nat
    BY BoundsAssumption
  <2> QED
    BY <1>5, <2>1 DEF Init, KeysOK, FirstFresh
<1>6. ASSUME NEW u \in User PROVE CallsOK(u) /\ StoredOK(u)
  <2>1. fetch[u] = [f \in Polls |-> Idle] /\ thread[u] = Null
    BY <1>6 DEF Init
  <2> QED
    BY <1>6, <2>1, IdleFine DEF CallsOK, StoredOK
<1>7. ASSUME NEW u \in User PROVE LogsOK(u)
  <2>1. <<>> \in Seq(Text) /\ IsInjective(<<>>)
    BY DEF IsInjective
  <2> QED
    BY <1>7, <2>1 DEF Init, LogsOK
<1> QED
  BY <1>1, <1>2, <1>3, <1>4, <1>5, <1>6, <1>7 DEF MessengerInv, ClientOK

(* Every step keeps it, and loses no message.                              *)
LEMMA NextOK ==
  ASSUME MessengerInv, Next PROVE MessengerInv' /\ NothingLost
<1>1. PICK u \in User :
        \/ SendInSession(u) \/ RequestBundle(u) \/ SendWithBundle(u)
        \/ \E f \in Polls : StartFetch(u, f) \/ FetchStep(u, f)
        \/ Revoke(u) \/ Erase(u) \/ Crash(u)
  BY DEF Next
<1>2. CASE SendInSession(u)
  BY <1>2, SendInSessionOK
<1>3. CASE RequestBundle(u)
  BY <1>3, RequestBundleOK
<1>4. CASE SendWithBundle(u)
  BY <1>4, SendWithBundleOK
<1>5. ASSUME NEW f \in Polls, StartFetch(u, f)
      PROVE  MessengerInv' /\ NothingLost
  BY <1>5, StartFetchOK
<1>6. ASSUME NEW f \in Polls, FetchStep(u, f)
      PROVE  MessengerInv' /\ NothingLost
  <2>1. CASE ReadInSession(u, f)
    BY <2>1, ReadInSessionOK
  <2>2. CASE DropHeaderless(u, f)
    BY <2>2, DropHeaderlessOK
  <2>3. CASE BeginSession(u, f)
    BY <2>3, BeginSessionOK
  <2>4. CASE OpkDeleted(u, f)
    BY <2>4, OpkDeletedOK
  <2>5. CASE SaveSessions(u, f)
    BY <2>5, SaveSessionsOK
  <2>6. CASE LogReceived(u, f)
    BY <2>6, LogReceivedOK
  <2>7. CASE DeleteOne(u, f)
    BY <2>7, DeleteOneOK
  <2> QED
    BY <1>6, <2>1, <2>2, <2>3, <2>4, <2>5, <2>6, <2>7 DEF FetchStep
<1>7. CASE Revoke(u)
  BY <1>7, RevokeOK
<1>8. CASE Erase(u)
  BY <1>8, EraseOK
<1>9. CASE Crash(u)
  BY <1>9, CrashOK
<1> QED
  BY <1>1, <1>2, <1>3, <1>4, <1>5, <1>6, <1>7, <1>8, <1>9

(* A step that changes nothing.                                            *)
LEMMA StutterOK ==
  ASSUME MessengerInv, UNCHANGED vars PROVE MessengerInv' /\ NothingLost
<1>1. /\ UNCHANGED <<mailbox, opkPool, heap, sessions, opkMemory, thread,
                     fetch, sending, disk, opkDisk, received, sentLog>>
      /\ UNCHANGED <<generated, written, opened, dropped, withdrawn>>
  BY DEF vars, server, memory, files, history
<1>2. DomainsOK'
  BY <1>1 DEF MessengerInv, DomainsOK
<1>3. ASSUME NEW u \in User
      PROVE  /\ MailOK(u)' /\ (opkPool[u] \in Seq(OpkId))'
             /\ ClientOK(u)'
  <2>1. MailOK(u) /\ opkPool[u] \in Seq(OpkId) /\ ClientOK(u)
    BY <1>3 DEF MessengerInv
  <2>2. MailOK(u)' /\ (opkPool[u] \in Seq(OpkId))'
    BY <1>1, <2>1 DEF MailOK
  <2>3. StoreOK(u)' /\ KeysOK(u)' /\ CallsOK(u)' /\ LogsOK(u)' /\ StoredOK(u)'
    BY <1>1, <2>1 DEF ClientOK, StoreOK, KeysOK, CallsOK, LogsOK, StoredOK
  <2> QED
    BY <2>2, <2>3 DEF ClientOK
<1>4. MessengerInv'
  BY <1>2, <1>3 DEF MessengerInv
<1> QED
  BY <1>1, <1>4 DEF NothingLost

(* The inductive invariant of the two clients and the mailbox.             *)
THEOREM MessengerInvariance == Spec => []MessengerInv
<1>1. MessengerInv /\ [Next]_vars => MessengerInv'
  BY NextOK, StutterOK
<1> QED
  BY <1>1, InitOK, PTL DEF Spec

(* TypeOK, among it that the sessions refer to states that exist and that  *)
(* the thread belongs to a msg:fetch under way (main.js:241-335), for all  *)
(* numbers of messages, polls, one-time keys and faults.                   *)
THEOREM MessengerTypeCorrect == Spec => []TypeOK
<1>1. MessengerInv => TypeOK
  <2> SUFFICES ASSUME MessengerInv, NEW u \in User
               PROVE  /\ TextsOf(mailbox[u]) \subseteq Text
                      /\ ToSet(opkPool[u]) \cup opkMemory[u] \cup opkDisk[u]
                           \subseteq OpkId
                      /\ \A k \in DOMAIN sessions[u] :
                           sessions[u][k] \in DOMAIN heap[u]
                      /\ IsFile(disk[u])
                      /\ thread[u] \in Polls \cup {Null}
                      /\ thread[u] # Null =>
                           fetch[u][thread[u]].pc \in {"loop", "log"}
                      /\ ToSet(received[u]) \cup sentLog[u] \cup opened[u]
                           \cup ToSet(dropped[u]) \subseteq Text
                      /\ sending[u] \in BOOLEAN
    BY DEF TypeOK
  <2>1. /\ MailOK(u) /\ opkPool[u] \in Seq(OpkId)
        /\ StoreOK(u) /\ KeysOK(u) /\ CallsOK(u) /\ LogsOK(u)
    BY DEF MessengerInv, ClientOK
  <2>2. TextsOf(mailbox[u]) \subseteq Text
    <3>1. \A i \in DOMAIN mailbox[u] : mailbox[u][i] \in MessageTo(u)
      BY <2>1 DEF MailOK
    <3>2. \A m \in MessageTo(u) : m.text \in Text
      BY DEF MessageTo
    <3> QED
      BY <3>1, <3>2 DEF TextsOf
  <2>3. ToSet(opkPool[u]) \cup opkMemory[u] \cup opkDisk[u] \subseteq OpkId
    BY <2>1 DEF ToSet, KeysOK
  <2>4. \A k \in DOMAIN sessions[u] : sessions[u][k] \in DOMAIN heap[u]
    BY <2>1 DEF StoreOK, IsMap
  <2>5. IsFile(disk[u])
    BY <2>1 DEF StoreOK, IsSaved, IsFile, StateFine, StateOK, IsRatchetState
  <2>6. /\ thread[u] \in Polls \cup {Null}
        /\ thread[u] # Null => fetch[u][thread[u]].pc \in {"loop", "log"}
    BY <2>1 DEF CallsOK
  <2>7. /\ received[u] \in Seq(Text) /\ dropped[u] \in Seq(Text)
        /\ sentLog[u] \subseteq Text /\ opened[u] \subseteq Text
        /\ sending[u] \in BOOLEAN
    BY <2>1 DEF LogsOK
  <2>8. ToSet(received[u]) \subseteq Text /\ ToSet(dropped[u]) \subseteq Text
    BY <2>7 DEF ToSet
  <2> QED
    BY <2>2, <2>3, <2>4, <2>5, <2>6, <2>7, <2>8
<1> QED
  BY <1>1, MessengerInvariance, PTL

(* No message is twice in the received log, however often its row is       *)
(* fetched: msg:fetch adds what the log lacks (main.js:310-317), and what  *)
(* one call has opened is not in its queue any more.                       *)
THEOREM MessengerReceivedOnce == Spec => []ReceivedOnce
<1>1. MessengerInv => ReceivedOnce
  BY DEF MessengerInv, ClientOK, LogsOK, ReceivedOnce
<1> QED
  BY <1>1, MessengerInvariance, PTL

(* No session is on disk together with a private one-time key it began     *)
(* with: deleteConsumedOpk ends before the session is stored               *)
(* (main.js:270-298).                                                      *)
THEOREM MessengerConsumedOpkGone == Spec => []ConsumedOpkGone
<1>1. MessengerInv => ConsumedOpkGone
  <2> SUFFICES ASSUME MessengerInv, NEW u \in User, NEW k \in DOMAIN disk[u],
                      NEW id \in opkDisk[u],
                      NEW secret \in ToSet(disk[u][k].rootKey[1]),
                      OpkOf(u, id) \in secret
               PROVE  FALSE
    BY DEF ConsumedOpkGone
  <2>1. Begun(u, disk[u][k]) \cap opkDisk[u] = {} /\ opkDisk[u] \subseteq OpkId
    BY DEF MessengerInv, ClientOK, StoreOK, IsSaved, KeysOK
  <2> QED
    BY <2>1 DEF Begun
<1> QED
  BY <1>1, MessengerInvariance, PTL

(* A row that leaves the mailbox is in its reader's received log or was    *)
(* withdrawn by one of the users, whatever the polls interleave and        *)
(* wherever a client dies (main.js:308-328).                               *)
THEOREM MessengerGoneOnlyWhenStored == Spec => GoneOnlyWhenStored
<1>1. MessengerInv /\ [Next]_vars => NothingLost
  BY NextOK, StutterOK
<1>2. NothingLost =>
        \A u \in User :
          TextsOf(mailbox[u]) \ TextsOf(mailbox'[u])
            \subseteq ToSet(received[u]) \cup withdrawn'
  BY DEF NothingLost
<1> QED
  BY <1>1, <1>2, MessengerInvariance, PTL DEF Spec, GoneOnlyWhenStored
=============================================================================
