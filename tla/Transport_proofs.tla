-------------------------- MODULE Transport_proofs --------------------------
(***************************************************************************)
(* What arrives of requests and answers, for any number of calls, any      *)
(* buffer and record size that fit SizesAssumption and any lengths; and    *)
(* that the connections and the proxy implement Exchange.                  *)
(***************************************************************************)
EXTENDS Transport, SequenceTheorems, TLAPS

---------------------------------------------------------------------------
(* SSL_write and the loop of receive().                                    *)

LEMMA Sizes ==
  /\ Buf \in Nat \ {0} /\ Rec \in Nat \ {0}
  /\ Requests \subseteq Nat \ {0} /\ Answers \subseteq Nat \ {0}
  /\ Rec % Buf # 0
  /\ Null \notin Calls
BY SizesAssumption DEF SizesAssumption

(* No number of full reads ends a full record.                             *)
LEMMA LastReadIsShort ==
  ASSUME NEW k \in Nat
  PROVE  Rec # k * Buf
<1>1. ASSUME NEW b \in Nat \ {0} PROVE (k * b) % b = 0
  BY <1>1
<1> QED
  BY <1>1, Sizes

(* The records of n bytes: none, or the first with as many as it can hold, *)
(* and more only when that is not all.                                     *)
LEMMA RecordsOK ==
  ASSUME NEW n \in Nat
  PROVE  /\ records(n) \in Seq(1..Rec)
         /\ n = 0 => records(n) = <<>>
         /\ n # 0 => /\ records(n) # <<>>
                     /\ Head(records(n)) = smaller(n, Rec)
                     /\ n <= Rec => Tail(records(n)) = <<>>
<1> DEFINE count == (n + Rec - 1) \div Rec
           size(i) == IF i * Rec <= n THEN Rec ELSE n % Rec
<1>1. /\ count \in Nat
      /\ n = 0 => count = 0
      /\ n # 0 => count >= 1
      /\ n # 0 /\ n <= Rec => count = 1
  BY Sizes
<1>2. \A i \in 1..count : size(i) \in 1..Rec
  BY Sizes
<1>3. n # 0 => size(1) = smaller(n, Rec)
  BY Sizes DEF smaller
<1>4. records(n) = [i \in 1..count |-> size(i)]
  BY DEF records
<1> HIDE DEF count, size
<1>5. records(n) \in [1..count -> 1..Rec]
  BY <1>2, <1>4
<1>6. records(n) \in UNION {[1..m -> 1..Rec] : m \in Nat}
  BY <1>1, <1>5, Zenon
<1>7. records(n) \in Seq(1..Rec)
  BY <1>6, SeqDef, Zenon
<1>8. Len(records(n)) = count
  BY <1>1, <1>5, <1>7, LenProperties
<1>9. count >= 1 => records(n)[1] = size(1)
  BY <1>1, <1>4
<1> HIDE DEF records
<1>10. n = 0 => records(n) = <<>>
  BY <1>1, <1>7, <1>8
<1>11. n # 0 => records(n) # <<>> /\ Head(records(n)) = smaller(n, Rec)
  BY <1>1, <1>3, <1>7, <1>8, <1>9
<1>12. n # 0 /\ n <= Rec => Tail(records(n)) = <<>>
  <2> SUFFICES ASSUME n # 0, n <= Rec PROVE Tail(records(n)) = <<>>
    OBVIOUS
  <2>1. Tail(records(n)) \in Seq(1..Rec) /\ Len(Tail(records(n))) = 0
    BY <1>1, <1>7, <1>8, <1>11, HeadTailProperties
  <2> QED
    BY <2>1, EmptySeq
<1> QED
  BY <1>7, <1>10, <1>11, <1>12

(* A receive() under way: it has read full buffers of the first of the     *)
(* records, or it has read that one and nothing follows.                   *)
Reading(wire, sofar, n) ==
  \/ /\ wire # <<>>
     /\ sofar + Head(wire) = smaller(n, Rec)
     /\ \E k \in Nat : sofar = k * Buf
     /\ n <= Rec => Tail(wire) = <<>>
  \/ /\ wire = <<>>
     /\ sofar = smaller(n, Rec)

LEMMA ReadingBegins ==
  ASSUME NEW n \in Nat \ {0}
  PROVE  Reading(records(n), 0, n)
<1>1. \E k \in Nat : 0 = k * Buf
  <2>1. 0 = 0 * Buf
    BY Sizes
  <2> QED
    BY <2>1
<1>2. smaller(n, Rec) \in Nat
  BY Sizes DEF smaller
<1>3. /\ records(n) # <<>> /\ Head(records(n)) = smaller(n, Rec)
      /\ n <= Rec => Tail(records(n)) = <<>>
  BY RecordsOK
<1>4. 0 + Head(records(n)) = smaller(n, Rec)
  BY <1>2, <1>3
<1> QED
  BY <1>1, <1>3, <1>4 DEF Reading

(* The loop ends with the first record, or it goes on.                     *)
LEMMA ReadOK ==
  ASSUME NEW wire \in Seq(1..Rec), wire # <<>>,
         NEW sofar \in Nat, NEW n \in Nat \ {0}, Reading(wire, sofar, n)
  PROVE  /\ endsLoop(piece(wire)) => sofar + piece(wire) = smaller(n, Rec)
         /\ ~endsLoop(piece(wire)) =>
              Reading(remaining(wire), sofar + piece(wire), n)
<1> DEFINE head == Head(wire)
           tail == Tail(wire)
<1>1. head \in 1..Rec /\ tail \in Seq(1..Rec)
  BY HeadTailProperties
<1>2. PICK k \in Nat : sofar = k * Buf
  BY DEF Reading
<1>3. sofar + head = smaller(n, Rec) /\ (n <= Rec => tail = <<>>)
  BY DEF Reading
<1>4. CASE head < Buf
  BY <1>3, <1>4 DEF piece, endsLoop
<1>5. CASE head = Buf
  <2>1. piece(wire) = Buf /\ remaining(wire) = tail /\ ~endsLoop(piece(wire))
    BY <1>1, <1>5, Sizes DEF piece, remaining, endsLoop
  <2>2. sofar + Buf = (k + 1) * Buf /\ k + 1 \in Nat
    BY <1>2, Sizes
  <2>3. sofar + Buf # Rec
    BY <2>2, LastReadIsShort
  <2>4. n <= Rec
    BY <1>3, <1>5, <2>3, Sizes DEF smaller
  <2> QED
    BY <1>3, <1>5, <2>1, <2>4 DEF Reading
<1>6. CASE head > Buf
  <2>1. /\ piece(wire) = Buf /\ ~endsLoop(piece(wire))
        /\ remaining(wire) = <<head - Buf>> \o tail
    BY <1>1, <1>6, Sizes DEF piece, remaining, endsLoop
  <2>2. sofar + Buf = (k + 1) * Buf /\ k + 1 \in Nat
    BY <1>2, Sizes
  <2>3. head - Buf \in 1..Rec
    BY <1>1, <1>6, Sizes
  <2> HIDE DEF head, tail
  <2>4. /\ remaining(wire) # <<>>
        /\ Head(remaining(wire)) = head - Buf
        /\ Tail(remaining(wire)) = tail
    BY <1>1, <2>1, <2>3
  <2>5. sofar + Buf + (head - Buf) = smaller(n, Rec)
    BY <1>1, <1>3, Sizes
  <2> QED
    BY <1>3, <2>1, <2>2, <2>4, <2>5 DEF Reading
<1> QED
  BY <1>1, <1>4, <1>5, <1>6, Sizes

LEMMA ReadTypes ==
  ASSUME NEW wire \in Seq(1..Rec), wire # <<>>
  PROVE  piece(wire) \in Nat /\ remaining(wire) \in Seq(1..Rec)
<1>1. Head(wire) \in 1..Rec /\ Tail(wire) \in Seq(1..Rec)
  BY HeadTailProperties
<1>2. piece(wire) \in Nat
  BY <1>1, Sizes DEF piece
<1>3. Head(wire) > Buf => Head(wire) - Buf \in 1..Rec
  BY <1>1, Sizes
<1>4. Head(wire) > Buf => <<Head(wire) - Buf>> \o Tail(wire) \in Seq(1..Rec)
  BY <1>1, <1>3
<1>5. CASE Head(wire) <= Buf
  BY <1>1, <1>2, <1>5 DEF remaining
<1>6. CASE ~(Head(wire) <= Buf)
  BY <1>1, <1>2, <1>4, <1>6, Sizes DEF remaining
<1> QED
  BY <1>5, <1>6

---------------------------------------------------------------------------
(* The invariant.                                                          *)

(* A connection waits once, and not for the proxy that serves it.          *)
QueueOK ==
  /\ \A i, j \in DOMAIN backlog : backlog[i] = backlog[j] => i = j
  /\ \A i \in DOMAIN backlog :
       /\ phase[backlog[i]] \in {"connecting", "vanished"}
       /\ backlog[i] # proxy.call
       /\ backlog[i] \notin closed

PhaseOK(c) ==
  /\ phase[c] \in {"idle", "connecting"} => c # proxy.call /\ c \notin closed
  /\ phase[c] \in {"idle", "connecting", "connected", "vanished"} => up[c] = <<>>
  /\ phase[c] \in {"done", "failed"} => c \in closed

(* The API answers once, and the client reads that answer.                 *)
AnswersOK(c) ==
  /\ Len(answers[c]) <= 1
  /\ c \notin closed =>
       /\ down[c] = <<>> /\ got[c] = 0
       /\ ~(c = proxy.call /\ proxy.pc = "answer") => answers[c] = <<>>
  /\ c \in closed /\ answers[c] = <<>> =>
       /\ down[c] = <<>> /\ got[c] = 0
       /\ faults > 0 \/ phase[c] = "vanished"
  /\ c \in closed /\ answers[c] # <<>> =>
       \/ down[c] = <<>> /\ got[c] = 0 /\ faults > 0
       \/ phase[c] # "done" /\ Reading(down[c], got[c], Head(answers[c]))
       \/ phase[c] = "done" /\ got[c] = smaller(Head(answers[c]), Rec)

ReadOf(c) ==
  IF phase[c] \in {"connected", "vanished"} THEN proxy.received = 0
  ELSE Reading(up[c], proxy.received, asked[c])

ProxyOK == LET c == proxy.call IN
  /\ proxy.pc = "read" => ReadOf(c)
  /\ proxy.pc \in {"forward", "api"} =>
       /\ phase[c] \in {"waiting", "gone", "vanished"}
       /\ proxy.received = IF phase[c] = "vanished" THEN 0
                           ELSE smaller(asked[c], Rec)
  /\ proxy.pc \in {"read", "forward", "api"} => proxy.response = 0
  /\ proxy.pc = "answer" =>
       \/ proxy.response = 0 /\ faults > 0
       \/ answers[c] # <<>> /\ proxy.response = Head(answers[c])

TransportInv ==
  /\ TypeOK
  /\ QueueOK
  /\ \A c \in Calls : PhaseOK(c) /\ AnswersOK(c)
  /\ ProxyOK

(* Nothing is under way at the start.                                      *)
LEMMA InitOK ==
  ASSUME Init
  PROVE  TransportInv
<1>1. proxy = Waiting /\ proxy.pc = "accept" /\ proxy.call = Null /\ backlog = <<>>
  BY DEF Init, Waiting
<1>2. TypeOK
  BY <1>1, BoundsAssumption DEF Init, TypeOK
<1>3. QueueOK /\ ProxyOK
  BY <1>1 DEF QueueOK, ProxyOK
<1>4. \A c \in Calls : PhaseOK(c) /\ AnswersOK(c)
  BY <1>1, Sizes DEF Init, PhaseOK, AnswersOK
<1> QED
  BY <1>2, <1>3, <1>4 DEF TransportInv

---------------------------------------------------------------------------
(* What a step leaves alone.                                               *)

ServingRecord ==
  [pc : {"read", "forward", "api", "answer"}, call : Calls,
   received : Nat, response : {0} \cup Answers]

LEMMA ProxyTypes ==
  ASSUME TransportInv
  PROVE  /\ proxy.pc = "accept" => proxy = Waiting /\ proxy.call = Null
         /\ proxy.pc # "accept" => /\ proxy \in ServingRecord
                                   /\ proxy.call \in Calls
                                   /\ proxy.call \notin closed
  BY DEF TransportInv, TypeOK, Waiting, ServingRecord

LEMMA OtherCall ==
  ASSUME TransportInv, NEW c \in Calls,
         phase'[c] = phase[c], up'[c] = up[c], down'[c] = down[c],
         got'[c] = got[c], answers'[c] = answers[c],
         (c \in closed') = (c \in closed),
         faults' \in {faults, faults + 1},
         proxy'.call = c => proxy.call = c,
         proxy.call = c /\ proxy.pc = "answer" => proxy' = proxy
  PROVE  PhaseOK(c)' /\ AnswersOK(c)'
<1>1. PhaseOK(c) /\ AnswersOK(c) /\ faults \in Nat
  BY BoundsAssumption DEF TransportInv, TypeOK
<1>2. PhaseOK(c)'
  BY <1>1 DEF PhaseOK
<1>3. faults > 0 => faults' > 0
  BY <1>1
<1>4. AnswersOK(c)'
  BY <1>1, <1>3 DEF AnswersOK, Reading
<1> QED
  BY <1>2, <1>4

LEMMA AnsweredCall ==
  ASSUME TransportInv, NEW c \in Calls,
         c \in closed', answers'[c] = answers[c], answers[c] # <<>>,
         \/ down'[c] = <<>> /\ got'[c] = 0 /\ faults' > 0
         \/ phase'[c] # "done" /\ Reading(down[c], got[c], Head(answers[c]))'
         \/ phase'[c] = "done" /\ got'[c] = smaller(Head(answers[c]), Rec)
  PROVE  AnswersOK(c)'
<1>1. Len(answers'[c]) <= 1
  BY DEF TransportInv, AnswersOK
<1> QED
  BY <1>1 DEF AnswersOK

LEMMA SameProxy ==
  ASSUME TransportInv, proxy' = proxy, asked' = asked,
         faults' \in {faults, faults + 1},
         proxy.pc # "accept" => /\ phase'[proxy.call] = phase[proxy.call]
                                /\ up'[proxy.call] = up[proxy.call]
                                /\ answers'[proxy.call] = answers[proxy.call]
  PROVE  ProxyOK'
<1>1. ProxyOK /\ faults \in Nat
  BY BoundsAssumption DEF TransportInv, TypeOK
<1>2. faults > 0 => faults' > 0
  BY <1>1
<1> QED
  BY <1>1, <1>2 DEF ProxyOK, ReadOf, Reading

---------------------------------------------------------------------------
(* The client.                                                             *)

LEMMA ConnectOK ==
  ASSUME TransportInv, NEW c \in Calls, Connect(c)
  PROVE  TransportInv'
<1>1. /\ phase[c] = "idle" /\ backlog' = Append(backlog, c)
      /\ phase' = [phase EXCEPT ![c] = "connecting"]
      /\ UNCHANGED <<asked, up, down, got, closed, proxy, answers, faults, left>>
  BY DEF Connect, Moves, wires
<1>2. /\ c # proxy.call /\ c \notin closed /\ backlog \in Seq(Calls)
      /\ \A i \in DOMAIN backlog : backlog[i] # c
  BY <1>1 DEF TransportInv, TypeOK, PhaseOK, QueueOK
<1>3. TypeOK'
  BY <1>1 DEF TransportInv, TypeOK, Ended
<1>4. \A d \in Calls : phase'[d] = IF d = c THEN "connecting" ELSE phase[d]
  BY <1>1 DEF TransportInv, TypeOK
<1>5. QueueOK'
  <2>1. /\ DOMAIN backlog' = 1..(Len(backlog) + 1) /\ DOMAIN backlog = 1..Len(backlog)
        /\ Len(backlog) \in Nat
        /\ \A i \in DOMAIN backlog : backlog'[i] = backlog[i] /\ backlog[i] \in Calls
        /\ backlog'[Len(backlog) + 1] = c
    BY <1>1, <1>2
  <2> QED
    BY <1>1, <1>2, <1>4, <2>1 DEF TransportInv, QueueOK
<1>6. \A d \in Calls : PhaseOK(d)' /\ AnswersOK(d)'
  <2>1. PhaseOK(c)' /\ AnswersOK(c)'
    BY <1>1, <1>2, <1>4 DEF TransportInv, PhaseOK, AnswersOK
  <2>2. \A d \in Calls \ {c} : PhaseOK(d)' /\ AnswersOK(d)'
    BY <1>1, <1>4, OtherCall
  <2> QED
    BY <2>1, <2>2
<1>7. ProxyOK'
  BY <1>1, <1>2, <1>4, ProxyTypes, SameProxy
<1> QED
  BY <1>3, <1>5, <1>6, <1>7 DEF TransportInv

LEMMA ClientSendOK ==
  ASSUME TransportInv, NEW c \in Calls, ClientSend(c)
  PROVE  TransportInv'
<1>1. /\ phase[c] = "connected"
      /\ phase' = [phase EXCEPT ![c] = "waiting"]
      /\ up' = [up EXCEPT ![c] = records(asked[c])]
      /\ UNCHANGED <<asked, down, got, backlog, closed, proxy, answers, faults, left>>
  BY DEF ClientSend, Moves
<1>2. /\ asked[c] \in Nat \ {0}
      /\ records(asked[c]) \in Seq(1..Rec)
      /\ Reading(records(asked[c]), 0, asked[c])
  <2>1. asked[c] \in Nat \ {0}
    BY Sizes DEF TransportInv, TypeOK
  <2> QED
    BY <2>1, RecordsOK, ReadingBegins
<1>3. /\ phase' \in [Calls -> {"idle", "connecting", "connected", "waiting"} \cup Ended]
      /\ up' \in [Calls -> Seq(1..Rec)]
  BY <1>1, <1>2 DEF TransportInv, TypeOK, Ended
<1>4. TypeOK'
  BY <1>1, <1>3 DEF TransportInv, TypeOK
<1>5. /\ \A d \in Calls : d # c => phase'[d] = phase[d] /\ up'[d] = up[d]
      /\ phase'[c] = "waiting" /\ up'[c] = records(asked[c])
  BY <1>1 DEF TransportInv, TypeOK
<1>6. QueueOK'
  BY <1>1, <1>5 DEF TransportInv, TypeOK, QueueOK
<1>7. \A d \in Calls : PhaseOK(d)' /\ AnswersOK(d)'
  <2>1. PhaseOK(c)' /\ AnswersOK(c)'
    BY <1>1, <1>5 DEF TransportInv, PhaseOK, AnswersOK, Reading
  <2>2. \A d \in Calls \ {c} : PhaseOK(d)' /\ AnswersOK(d)'
    BY <1>1, <1>5, OtherCall
  <2> QED
    BY <2>1, <2>2
<1>8. ProxyOK'
  <2>1. CASE proxy.call = c
    <3>1. proxy.pc \notin {"forward", "api"}
      BY <1>1, <2>1 DEF TransportInv, ProxyOK
    <3>2. proxy.pc = "read" => proxy.received = 0
      BY <1>1, <2>1 DEF TransportInv, ProxyOK, ReadOf
    <3>3. proxy.pc = "read" => ReadOf(c)'
      BY <1>1, <1>2, <1>5, <3>2 DEF ReadOf, Reading
    <3> QED
      BY <1>1, <2>1, <3>1, <3>3 DEF TransportInv, ProxyOK
  <2>2. CASE proxy.call # c
    BY <1>1, <1>5, <2>2, ProxyTypes, SameProxy
  <2> QED
    BY <2>1, <2>2
<1> QED
  BY <1>4, <1>6, <1>7, <1>8 DEF TransportInv

(* A client that waits reads an answer only from a closed connection.      *)
LEMMA ClientReadOK ==
  ASSUME TransportInv, NEW c \in Calls, ClientRead(c)
  PROVE  TransportInv'
<1> DEFINE wire == down[c]
<1>1. /\ phase[c] = "waiting" /\ wire # <<>>
      /\ got' = [got EXCEPT ![c] = got[c] + piece(wire)]
      /\ down' = [down EXCEPT ![c] = remaining(wire)]
      /\ phase' = IF endsLoop(piece(wire)) THEN [phase EXCEPT ![c] = "done"] ELSE phase
      /\ UNCHANGED <<asked, up, backlog, closed, proxy, answers, faults, left>>
  BY DEF ClientRead, Moves
<1>2. /\ wire \in Seq(1..Rec) /\ got[c] \in Nat /\ answers[c] \in Seq(Answers)
      /\ PhaseOK(c) /\ AnswersOK(c)
  BY DEF TransportInv, TypeOK
<1>3. c \in closed /\ answers[c] # <<>> /\ Reading(wire, got[c], Head(answers[c]))
  BY <1>1, <1>2 DEF AnswersOK
<1>4. Head(answers[c]) \in Nat \ {0}
  BY <1>2, <1>3, Sizes, HeadTailProperties
<1>5. piece(wire) \in Nat /\ remaining(wire) \in Seq(1..Rec)
  BY <1>1, <1>2, ReadTypes
<1> DEFINE n == Head(answers[c])
<1>6. /\ endsLoop(piece(wire)) => got[c] + piece(wire) = smaller(n, Rec)
      /\ ~endsLoop(piece(wire)) =>
           Reading(remaining(wire), got[c] + piece(wire), n)
  BY <1>1, <1>2, <1>3, <1>4, ReadOK
<1>7. /\ \A d \in Calls : d # c => /\ phase'[d] = phase[d]
                                   /\ down'[d] = down[d] /\ got'[d] = got[d]
      /\ phase'[c] = IF endsLoop(piece(wire)) THEN "done" ELSE "waiting"
      /\ down'[c] = remaining(wire) /\ got'[c] = got[c] + piece(wire)
  BY <1>1 DEF TransportInv, TypeOK
<1>8. /\ phase' \in [Calls -> {"idle", "connecting", "connected", "waiting"} \cup Ended]
      /\ down' \in [Calls -> Seq(1..Rec)]
      /\ got' \in [Calls -> Nat]
  BY <1>1, <1>2, <1>5 DEF TransportInv, TypeOK, Ended
<1>9. TypeOK'
  BY <1>1, <1>8 DEF TransportInv, TypeOK
<1>10. QueueOK'
  BY <1>1, <1>3, <1>7 DEF TransportInv, TypeOK, QueueOK
<1>11. \A d \in Calls : PhaseOK(d)' /\ AnswersOK(d)'
  <2>1. PhaseOK(c)'
    BY <1>1, <1>2, <1>3, <1>7 DEF PhaseOK
  <2>2. AnswersOK(c)'
    <3>1. CASE endsLoop(piece(wire))
      BY <1>1, <1>3, <1>6, <1>7, <3>1, AnsweredCall
    <3>2. CASE ~endsLoop(piece(wire))
      <4>1. Reading(down[c], got[c], Head(answers[c]))'
        BY <1>1, <1>6, <1>7, <3>2
      <4> QED
        BY <1>1, <1>3, <1>7, <3>2, <4>1, AnsweredCall
    <3> QED
      BY <3>1, <3>2
  <2>4. \A d \in Calls \ {c} : PhaseOK(d)' /\ AnswersOK(d)'
    BY <1>1, <1>7, OtherCall
  <2> QED
    BY <2>1, <2>2, <2>4
<1>12. ProxyOK'
  <2>1. proxy.pc # "accept" => proxy.call # c /\ proxy.call \in Calls
    BY <1>3, ProxyTypes
  <2> QED
    BY <1>1, <1>7, <2>1, SameProxy
<1> QED
  BY <1>9, <1>10, <1>11, <1>12 DEF TransportInv

LEMMA ClientEofOK ==
  ASSUME TransportInv, NEW c \in Calls, ClientEof(c)
  PROVE  TransportInv'
<1>1. /\ phase[c] = "waiting" /\ down[c] = <<>> /\ c \in closed
      /\ UNCHANGED <<asked, up, down, got, backlog, closed, proxy, answers, faults, left>>
  BY DEF ClientEof, wires
<1>2. PICK to \in {"done", "failed"} : phase' = [phase EXCEPT ![c] = to]
  BY DEF ClientEof, Moves
<1>3. \A d \in Calls : phase'[d] = IF d = c THEN to ELSE phase[d]
  BY <1>2 DEF TransportInv, TypeOK
<1>4. TypeOK'
  BY <1>1, <1>2 DEF TransportInv, TypeOK, Ended
<1>5. QueueOK'
  <2>1. \A i \in DOMAIN backlog : backlog[i] \in Calls /\ backlog[i] # c
    BY <1>1 DEF TransportInv, TypeOK, QueueOK
  <2> QED
    BY <1>1, <1>3, <2>1 DEF TransportInv, QueueOK
<1>6. \A d \in Calls : PhaseOK(d)' /\ AnswersOK(d)'
  <2>1. PhaseOK(c)'
    BY <1>1, <1>3 DEF TransportInv, PhaseOK
  <2>2. AnswersOK(c) /\ answers[c] \in Seq(Answers) /\ got[c] \in Nat
    BY DEF TransportInv, TypeOK
  <2>3. answers[c] # <<>> =>
          \/ got[c] = 0 /\ faults > 0
          \/ got[c] = smaller(Head(answers[c]), Rec)
    BY <1>1, <2>2 DEF AnswersOK, Reading
  <2>4. AnswersOK(c)'
    <3>1. CASE to = "done" /\ answers[c] # <<>>
      BY <1>1, <1>3, <2>3, <3>1, AnsweredCall
    <3>2. CASE answers[c] = <<>>
      BY <1>1, <1>3, <2>2, <3>2 DEF AnswersOK
    <3>3. CASE to = "failed" /\ answers[c] # <<>>
      <4>1. \/ down[c] = <<>> /\ got[c] = 0 /\ faults > 0
            \/ Reading(down[c], got[c], Head(answers[c]))'
        BY <1>1, <2>2, <3>3 DEF AnswersOK
      <4> QED
        BY <1>1, <1>3, <3>3, <4>1, AnsweredCall
    <3> QED
      BY <3>1, <3>2, <3>3
  <2>5. \A d \in Calls \ {c} : PhaseOK(d)' /\ AnswersOK(d)'
    BY <1>1, <1>3, OtherCall
  <2> QED
    BY <2>1, <2>4, <2>5
<1>7. ProxyOK'
  <2>1. proxy.pc # "accept" => proxy.call # c /\ proxy.call \in Calls
    BY <1>1, ProxyTypes
  <2> QED
    BY <1>1, <1>3, <2>1, SameProxy
<1> QED
  BY <1>4, <1>5, <1>6, <1>7 DEF TransportInv

LEMMA ClientLeavesOK ==
  ASSUME TransportInv, NEW c \in Calls, ClientLeaves(c)
  PROVE  TransportInv'
<1> DEFINE to == IF phase[c] = "waiting" THEN "gone" ELSE "vanished"
<1>1. /\ phase[c] \in {"connecting", "connected", "waiting"}
      /\ left < MaxLeft /\ left' = left + 1
      /\ phase' = [phase EXCEPT ![c] = to]
      /\ UNCHANGED <<asked, up, down, got, backlog, closed, proxy, answers, faults>>
  BY DEF ClientLeaves, Moves, wires
<1>2. left' \in 0..MaxLeft
  BY <1>1, BoundsAssumption DEF TransportInv, TypeOK
<1>3. \A d \in Calls : phase'[d] = IF d = c THEN to ELSE phase[d]
  BY <1>1 DEF TransportInv, TypeOK
<1>4. TypeOK'
  BY <1>1, <1>2 DEF TransportInv, TypeOK, Ended
<1>5. QueueOK'
  BY <1>1, <1>3 DEF TransportInv, TypeOK, QueueOK
<1>6. \A d \in Calls : PhaseOK(d)' /\ AnswersOK(d)'
  <2>1. PhaseOK(c) /\ AnswersOK(c)
    BY DEF TransportInv
  <2>2. PhaseOK(c)'
    BY <1>1, <1>3, <2>1 DEF PhaseOK
  <2>3. AnswersOK(c)'
    <3>1. CASE c \in closed /\ answers[c] # <<>>
      <4>1. \/ down[c] = <<>> /\ got[c] = 0 /\ faults > 0
            \/ Reading(down[c], got[c], Head(answers[c]))'
        BY <1>1, <2>1, <3>1 DEF AnswersOK, Reading
      <4> QED
        BY <1>1, <1>3, <2>1, <3>1, <4>1 DEF AnswersOK
    <3>2. CASE ~(c \in closed /\ answers[c] # <<>>)
      BY <1>1, <1>3, <2>1, <3>2 DEF AnswersOK
    <3> QED
      BY <3>1, <3>2
  <2>4. \A d \in Calls \ {c} : PhaseOK(d)' /\ AnswersOK(d)'
    BY <1>1, <1>3, OtherCall
  <2> QED
    BY <2>2, <2>3, <2>4
<1>7. ProxyOK'
  <2>1. CASE proxy.pc # "accept" /\ proxy.call = c
    <3>1. ProxyOK /\ phase[c] # "connecting"
      BY <1>1, <2>1 DEF TransportInv, PhaseOK
    <3>2. proxy.pc = "read" => ReadOf(c)'
      BY <1>1, <1>3, <2>1, <3>1 DEF ProxyOK, ReadOf, Reading
    <3>3. proxy.pc \in {"forward", "api"} =>
            /\ phase'[c] \in {"gone", "vanished"}
            /\ proxy.received = IF phase'[c] = "vanished" THEN 0
                                ELSE smaller(asked[c], Rec)
      BY <1>1, <1>3, <2>1, <3>1 DEF ProxyOK
    <3> QED
      BY <1>1, <2>1, <3>1, <3>2, <3>3 DEF ProxyOK
  <2>2. CASE ~(proxy.pc # "accept" /\ proxy.call = c)
    BY <1>1, <1>3, <2>2, ProxyTypes, SameProxy
  <2> QED
    BY <2>1, <2>2
<1> QED
  BY <1>4, <1>5, <1>6, <1>7 DEF TransportInv

---------------------------------------------------------------------------
(* The proxy.                                                              *)

LEMMA Served ==
  ASSUME TransportInv, proxy.pc # "accept"
  PROVE  LET c == proxy.call IN
         /\ proxy \in ServingRecord /\ c \in Calls /\ c \notin closed
         /\ phase[c] \in {"connected", "waiting", "gone", "vanished"}
         /\ asked[c] \in Nat \ {0} /\ up[c] \in Seq(1..Rec)
         /\ answers[c] \in Seq(Answers) /\ Len(answers[c]) <= 1
         /\ proxy.pc # "answer" => answers[c] = <<>>
         /\ down[c] = <<>> /\ got[c] = 0
<1>1. proxy \in ServingRecord /\ proxy.call \in Calls /\ proxy.call \notin closed
  BY DEF TransportInv, TypeOK, Waiting, ServingRecord
<1>2. PhaseOK(proxy.call) /\ AnswersOK(proxy.call)
  BY <1>1 DEF TransportInv
<1>3. phase[proxy.call] \in {"connected", "waiting", "gone", "vanished"}
  BY <1>1, <1>2 DEF TransportInv, TypeOK, PhaseOK, Ended
<1>4. /\ asked[proxy.call] \in Nat \ {0} /\ up[proxy.call] \in Seq(1..Rec)
      /\ answers[proxy.call] \in Seq(Answers)
  BY <1>1, Sizes DEF TransportInv, TypeOK
<1> QED
  BY <1>1, <1>2, <1>3, <1>4 DEF AnswersOK

(* The connections that go on waiting when the first is accepted.          *)
LEMMA TailOfBacklog ==
  ASSUME TransportInv, backlog # <<>>
  PROVE  /\ Head(backlog) \in Calls /\ Head(backlog) # proxy.call
         /\ Head(backlog) \notin closed
         /\ Tail(backlog) \in Seq(Calls)
         /\ \A i, j \in DOMAIN Tail(backlog) :
              Tail(backlog)[i] = Tail(backlog)[j] => i = j
         /\ \A i \in DOMAIN Tail(backlog) : LET d == Tail(backlog)[i] IN
              /\ d \in Calls /\ d # Head(backlog) /\ d # proxy.call
              /\ phase[d] \in {"connecting", "vanished"} /\ d \notin closed
<1>1. backlog \in Seq(Calls) /\ QueueOK
  BY DEF TransportInv, TypeOK
<1>2. /\ Len(backlog) \in Nat \ {0} /\ DOMAIN backlog = 1..Len(backlog)
      /\ Head(backlog) = backlog[1] /\ Tail(backlog) \in Seq(Calls)
      /\ DOMAIN Tail(backlog) = 1..(Len(backlog) - 1)
      /\ \A i \in 1..(Len(backlog) - 1) : Tail(backlog)[i] = backlog[i + 1]
      /\ \A i \in 1..Len(backlog) : backlog[i] \in Calls
  BY <1>1
<1> QED
  BY <1>1, <1>2 DEF QueueOK

LEMMA AcceptOK ==
  ASSUME TransportInv, Accept
  PROVE  TransportInv'
<1>1. /\ proxy.pc = "accept" /\ backlog # <<>> /\ backlog' = Tail(backlog)
      /\ UNCHANGED <<asked, up, down, got, answers, left>>
  BY DEF Accept, Serving, wires
<1>0. PICK c \in Calls : c = Head(backlog)
  BY <1>1, TailOfBacklog
<1>2. /\ proxy = Waiting /\ proxy.call = Null /\ Null \notin Calls
      /\ c \notin closed /\ PhaseOK(c) /\ AnswersOK(c)
  BY <1>1, <1>0, ProxyTypes, Sizes, TailOfBacklog DEF TransportInv, PhaseOK
<1>3. CASE /\ phase[c] = "connecting" /\ phase' = [phase EXCEPT ![c] = "connected"]
           /\ proxy' = [Waiting EXCEPT !.pc = "read", !.call = c]
           /\ UNCHANGED <<closed, faults>>
  <2>1. /\ proxy'.pc = "read" /\ proxy'.call = c /\ proxy'.received = 0
        /\ proxy'.response = 0
        /\ proxy' \in [pc : {"read", "forward", "api", "answer"},
                       call : Calls \ closed, received : Nat,
                       response : {0} \cup Answers]
    BY <1>2, <1>3 DEF Waiting
  <2>2. \A d \in Calls : phase'[d] = IF d = c THEN "connected" ELSE phase[d]
    BY <1>3 DEF TransportInv, TypeOK
  <2>3. TypeOK'
    BY <1>1, <1>3, <2>1, TailOfBacklog DEF TransportInv, TypeOK, Ended
  <2>4. QueueOK'
    BY <1>1, <1>0, <1>3, <2>1, <2>2, TailOfBacklog DEF QueueOK
  <2>5. PhaseOK(c)' /\ AnswersOK(c)'
    BY <1>1, <1>2, <1>3, <2>1, <2>2 DEF PhaseOK, AnswersOK
  <2>6. \A d \in Calls \ {c} : PhaseOK(d)' /\ AnswersOK(d)'
    BY <1>1, <1>2, <1>3, <2>1, <2>2, OtherCall
  <2>7. ProxyOK'
    BY <1>2, <2>1, <2>2 DEF ProxyOK, ReadOf
  <2> QED
    BY <2>3, <2>4, <2>5, <2>6, <2>7 DEF TransportInv
<1>4. ASSUME proxy' = proxy, closed' = closed \cup {c},
             \/ /\ phase[c] = "connecting" /\ faults < MaxFaults
                /\ faults' = faults + 1
                /\ phase' = [phase EXCEPT ![c] = "failed"]
             \/ phase[c] = "vanished" /\ UNCHANGED <<phase, faults>>
      PROVE  TransportInv'
  <2>1. /\ faults' \in 0..MaxFaults /\ faults' \in {faults, faults + 1}
        /\ faults' > 0 \/ phase'[c] = "vanished"
        /\ phase'[c] \in {"failed", "vanished"}
        /\ \A d \in Calls \ {c} : phase'[d] = phase[d]
        /\ phase' \in [Calls -> {"idle", "connecting", "connected", "waiting"} \cup Ended]
    <3>1. /\ faults \in 0..MaxFaults
          /\ phase \in [Calls -> {"idle", "connecting", "connected", "waiting"} \cup Ended]
      BY DEF TransportInv, TypeOK
    <3>2. CASE phase[c] = "vanished" /\ UNCHANGED <<phase, faults>>
      BY <3>1, <3>2, BoundsAssumption
    <3>3. CASE /\ phase[c] = "connecting" /\ faults < MaxFaults
               /\ faults' = faults + 1
               /\ phase' = [phase EXCEPT ![c] = "failed"]
      BY <3>1, <3>3, BoundsAssumption DEF Ended
    <3> QED
      BY <1>4, <3>2, <3>3
  <2>2. TypeOK'
    BY <1>1, <1>2, <1>4, <2>1, TailOfBacklog DEF TransportInv, TypeOK
  <2>3. QueueOK'
    BY <1>1, <1>0, <1>4, <2>1, TailOfBacklog DEF QueueOK
  <2>4. answers[c] = <<>> /\ down[c] = <<>> /\ got[c] = 0
    BY <1>2 DEF AnswersOK
  <2>5. PhaseOK(c)'
    BY <1>1, <1>2, <1>4, <2>1 DEF PhaseOK
  <2>6. AnswersOK(c)'
    BY <1>1, <1>2, <1>4, <2>1, <2>4 DEF AnswersOK
  <2>7. \A d \in Calls \ {c} : PhaseOK(d)' /\ AnswersOK(d)'
    BY <1>1, <1>4, <2>1, OtherCall
  <2>8. ProxyOK'
    BY <1>1, <1>4 DEF ProxyOK
  <2> QED
    BY <2>2, <2>3, <2>5, <2>6, <2>7, <2>8 DEF TransportInv
<1> QED
  BY <1>0, <1>2, <1>3, <1>4 DEF Accept, Moves

LEMMA ProxyReadOK ==
  ASSUME TransportInv, ProxyRead
  PROVE  TransportInv'
<1>0. PICK c : c = proxy.call
  OBVIOUS
<1> DEFINE wire == up[c]
           sum == proxy.received + piece(wire)
<1>1. /\ proxy.pc = "read" /\ wire # <<>>
      /\ up' = [up EXCEPT ![c] = remaining(wire)]
      /\ UNCHANGED <<phase, asked, down, got, backlog, closed, answers, faults, left>>
  BY <1>0 DEF ProxyRead, Serving
<1>2. /\ proxy \in ServingRecord /\ c \in Calls /\ c \notin closed
      /\ phase[c] \in {"waiting", "gone"}
      /\ asked[c] \in Nat \ {0} /\ wire \in Seq(1..Rec)
  BY <1>0, <1>1, Served DEF TransportInv, PhaseOK
<1>3. Reading(wire, proxy.received, asked[c]) /\ proxy.received \in Nat
      /\ proxy.response = 0
  BY <1>0, <1>1, <1>2 DEF TransportInv, ProxyOK, ReadOf, ServingRecord
<1>4. /\ endsLoop(piece(wire)) => sum = smaller(asked[c], Rec)
      /\ ~endsLoop(piece(wire)) => Reading(remaining(wire), sum, asked[c])
      /\ sum \in Nat /\ remaining(wire) \in Seq(1..Rec)
  BY <1>1, <1>2, <1>3, ReadOK, ReadTypes
<1>5. /\ proxy'.pc = IF endsLoop(piece(wire)) THEN "forward" ELSE "read"
      /\ proxy'.call = c /\ proxy'.received = sum /\ proxy'.response = 0
      /\ proxy' \in [pc : {"read", "forward", "api", "answer"},
                     call : Calls \ closed, received : Nat,
                     response : {0} \cup Answers]
  BY <1>0, <1>1, <1>2, <1>3, <1>4 DEF ProxyRead, ServingRecord
<1>6. /\ \A d \in Calls : d # c => up'[d] = up[d]
      /\ up'[c] = remaining(wire)
      /\ up' \in [Calls -> Seq(1..Rec)]
  BY <1>1, <1>2, <1>4 DEF TransportInv, TypeOK
<1>7. TypeOK'
  BY <1>1, <1>5, <1>6 DEF TransportInv, TypeOK
<1>8. QueueOK'
  BY <1>0, <1>1, <1>5 DEF TransportInv, QueueOK
<1>9. \A d \in Calls : PhaseOK(d)' /\ AnswersOK(d)'
  <2>1. PhaseOK(c)' /\ AnswersOK(c)'
    BY <1>0, <1>1, <1>2, <1>5, <1>6 DEF TransportInv, PhaseOK, AnswersOK
  <2>2. \A d \in Calls \ {c} : PhaseOK(d)' /\ AnswersOK(d)'
    BY <1>0, <1>1, <1>2, <1>5, <1>6, OtherCall
  <2> QED
    BY <2>1, <2>2
<1>10. ProxyOK'
  BY <1>1, <1>2, <1>4, <1>5, <1>6 DEF ProxyOK, ReadOf
<1> QED
  BY <1>7, <1>8, <1>9, <1>10 DEF TransportInv

LEMMA ProxyEofOK ==
  ASSUME TransportInv, ProxyEof
  PROVE  TransportInv'
<1>0. PICK c : c = proxy.call
  OBVIOUS
<1>1. /\ proxy.pc = "read" /\ proxy' = [proxy EXCEPT !.pc = "forward"]
      /\ phase[c] \in {"gone", "vanished"} /\ up[c] = <<>>
      /\ UNCHANGED <<phase, asked, up, down, got, backlog, closed, answers, faults, left>>
  BY <1>0 DEF ProxyEof, Serving, endOfStream, wires
<1>2. proxy \in ServingRecord /\ c \in Calls /\ c \notin closed
  BY <1>0, <1>1, Served
<1>3. /\ proxy'.pc = "forward" /\ proxy'.call = c
      /\ proxy'.received = proxy.received /\ proxy'.response = proxy.response
      /\ proxy' \in [pc : {"read", "forward", "api", "answer"},
                     call : Calls \ closed, received : Nat,
                     response : {0} \cup Answers]
  BY <1>0, <1>1, <1>2 DEF ServingRecord
<1>4. TypeOK'
  BY <1>1, <1>3 DEF TransportInv, TypeOK
<1>5. QueueOK'
  BY <1>0, <1>1, <1>3 DEF TransportInv, QueueOK
<1>6. \A d \in Calls : PhaseOK(d)' /\ AnswersOK(d)'
  BY <1>0, <1>1, <1>3, OtherCall
<1>7. ProxyOK'
  BY <1>0, <1>1, <1>3 DEF TransportInv, ProxyOK, ReadOf, Reading
<1> QED
  BY <1>4, <1>5, <1>6, <1>7 DEF TransportInv

(* closeClient of a call that was answered, or after a failure.            *)
LEMMA ClosedOK ==
  ASSUME TransportInv, closeClient, proxy.pc # "accept",
         faults' \in {faults, faults + 1}, faults' \in 0..MaxFaults,
         UNCHANGED <<phase, asked, up, got, backlog, answers, left>>,
         LET c == proxy.call IN
           /\ down' \in [Calls -> Seq(1..Rec)]
           /\ \A d \in Calls : d # c => down'[d] = down[d]
           /\ answers[c] = <<>> => down'[c] = <<>> /\ faults' > 0
           /\ answers[c] # <<>> =>
                \/ down'[c] = <<>> /\ faults' > 0
                \/ Reading(down'[c], 0, Head(answers[c]))
  PROVE  TransportInv'
<1>0. PICK c : c = proxy.call
  OBVIOUS
<1>1. /\ c \in Calls /\ c \notin closed
      /\ phase[c] \in {"connected", "waiting", "gone", "vanished"}
      /\ Len(answers[c]) <= 1 /\ got[c] = 0
      /\ PhaseOK(c)
  BY <1>0, Served DEF TransportInv
<1>2. /\ closed' = closed \cup {c} /\ proxy' = Waiting
      /\ proxy'.pc = "accept" /\ proxy'.call = Null /\ Null \notin Calls
  BY <1>0, Sizes DEF closeClient, Waiting
<1>3. TypeOK'
  BY <1>1, <1>2 DEF TransportInv, TypeOK
<1>4. QueueOK'
  <2>1. backlog \in Seq(Calls) /\ QueueOK
    BY DEF TransportInv, TypeOK
  <2>2. \A i \in DOMAIN backlog : backlog[i] \in Calls
    BY <2>1
  <2> QED
    BY <1>0, <1>2, <2>1, <2>2 DEF QueueOK
<1>5. PhaseOK(c)'
  BY <1>1, <1>2 DEF PhaseOK
<1>6. AnswersOK(c)'
  <2>1. Len(answers'[c]) <= 1 /\ c \in closed' /\ got'[c] = 0 /\ phase'[c] # "done"
        /\ answers'[c] = answers[c]
    BY <1>1, <1>2
  <2>2. CASE answers[c] = <<>>
    BY <1>0, <2>1, <2>2 DEF AnswersOK
  <2>3. CASE answers[c] # <<>>
    <3>1. \/ down'[c] = <<>> /\ got'[c] = 0 /\ faults' > 0
          \/ Reading(down'[c], got'[c], Head(answers'[c]))
      BY <1>0, <2>1, <2>3
    <3> QED
      BY <2>1, <2>3, <3>1 DEF AnswersOK
  <2> QED
    BY <2>2, <2>3
<1>7. \A d \in Calls \ {c} : PhaseOK(d)' /\ AnswersOK(d)'
  BY <1>0, <1>2, OtherCall
<1>8. ProxyOK'
  BY <1>2 DEF ProxyOK
<1> QED
  BY <1>3, <1>4, <1>5, <1>6, <1>7, <1>8 DEF TransportInv

LEMMA ForwardOK ==
  ASSUME TransportInv, Forward
  PROVE  TransportInv'
<1>0. PICK c : c = proxy.call
  OBVIOUS
<1>1. /\ proxy.pc = "forward"
      /\ UNCHANGED <<phase, asked, up, down, got, backlog, answers, left>>
  BY DEF Forward, Serving, wires
<1>2. /\ proxy \in ServingRecord /\ c \in Calls /\ c \notin closed
      /\ down[c] = <<>> /\ answers[c] = <<>>
  BY <1>0, <1>1, Served
<1>3. CASE proxy' = [proxy EXCEPT !.pc = "api"] /\ UNCHANGED <<closed, faults>>
  <2>1. /\ proxy'.pc = "api" /\ proxy'.call = c
        /\ proxy'.received = proxy.received /\ proxy'.response = proxy.response
        /\ proxy' \in [pc : {"read", "forward", "api", "answer"},
                       call : Calls \ closed, received : Nat,
                       response : {0} \cup Answers]
    BY <1>0, <1>2, <1>3 DEF ServingRecord
  <2>2. TypeOK'
    BY <1>1, <1>3, <2>1 DEF TransportInv, TypeOK
  <2>3. QueueOK'
    BY <1>0, <1>1, <1>3, <2>1 DEF TransportInv, QueueOK
  <2>4. \A d \in Calls : PhaseOK(d)' /\ AnswersOK(d)'
    BY <1>0, <1>1, <1>3, <2>1, OtherCall
  <2>5. ProxyOK'
    BY <1>0, <1>1, <2>1 DEF TransportInv, ProxyOK
  <2> QED
    BY <2>2, <2>3, <2>4, <2>5 DEF TransportInv
<1>4. CASE faults < MaxFaults /\ faults' = faults + 1 /\ closeClient
  <2>1. faults' \in 0..MaxFaults /\ faults' > 0
    BY <1>4, BoundsAssumption DEF TransportInv, TypeOK
  <2>2. down' \in [Calls -> Seq(1..Rec)]
    BY <1>1 DEF TransportInv, TypeOK
  <2> QED
    BY <1>0, <1>1, <1>2, <1>4, <2>1, <2>2, ClosedOK
<1> QED
  BY <1>3, <1>4 DEF Forward

(* The API has answered, or it has ended: the call is about to be closed.  *)
LEMMA ApiDoneOK ==
  ASSUME TransportInv, proxy.pc = "api",
         UNCHANGED <<phase, asked, up, down, got, backlog, closed, left>>,
         faults' \in {faults, faults + 1}, faults' \in 0..MaxFaults,
         NEW n \in {0} \cup Answers,
         proxy' = [proxy EXCEPT !.pc = "answer", !.response = n],
         \/ n = 0 /\ faults' > 0 /\ answers' = answers
         \/ \E m \in Answers :
              /\ answers' = [answers EXCEPT ![proxy.call] = Append(@, m)]
              /\ (n = 0 /\ faults' > 0) \/ n = m
  PROVE  TransportInv'
<1>0. PICK c : c = proxy.call
  OBVIOUS
<1>1. /\ proxy \in ServingRecord /\ c \in Calls /\ c \notin closed
      /\ answers[c] = <<>> /\ down[c] = <<>> /\ got[c] = 0
      /\ answers \in [Calls -> Seq(Answers)]
  BY <1>0, Served DEF TransportInv, TypeOK
<1>2. /\ proxy'.pc = "answer" /\ proxy'.call = c /\ proxy'.response = n
      /\ proxy' \in [pc : {"read", "forward", "api", "answer"},
                     call : Calls \ closed, received : Nat,
                     response : {0} \cup Answers]
  BY <1>0, <1>1 DEF ServingRecord
<1>3. /\ answers' \in [Calls -> Seq(Answers)]
      /\ \A d \in Calls \ {c} : answers'[d] = answers[d]
      /\ Len(answers'[c]) <= 1
      /\ \/ n = 0 /\ faults' > 0
         \/ answers'[c] # <<>> /\ n = Head(answers'[c])
  <2>1. CASE n = 0 /\ faults' > 0 /\ answers' = answers
    BY <1>1, <2>1
  <2>2. ASSUME NEW m \in Answers,
               answers' = [answers EXCEPT ![proxy.call] = Append(@, m)],
               (n = 0 /\ faults' > 0) \/ n = m
        PROVE  /\ answers' \in [Calls -> Seq(Answers)]
               /\ \A d \in Calls \ {c} : answers'[d] = answers[d]
               /\ Len(answers'[c]) <= 1
               /\ \/ n = 0 /\ faults' > 0
                  \/ answers'[c] # <<>> /\ n = Head(answers'[c])
    <3>1. Append(answers[c], m) = <<m>> /\ <<m>> \in Seq(Answers)
      BY <1>1
    <3>2. answers' = [answers EXCEPT ![c] = <<m>>]
      BY <1>0, <1>1, <2>2, <3>1
    <3>3. answers'[c] = <<m>>
      BY <1>1, <3>2
    <3>4. /\ answers' \in [Calls -> Seq(Answers)]
          /\ \A d \in Calls \ {c} : answers'[d] = answers[d]
      BY <1>1, <3>1, <3>2
    <3>5. Len(<<m>>) = 1 /\ Head(<<m>>) = m /\ <<m>> # <<>>
      OBVIOUS
    <3> QED
      BY <2>2, <3>3, <3>4, <3>5
  <2> QED
    BY <2>1, <2>2
<1>4. TypeOK'
  BY <1>2, <1>3 DEF TransportInv, TypeOK
<1>5. QueueOK'
  BY <1>0, <1>2 DEF TransportInv, QueueOK
<1>6. PhaseOK(c)' /\ AnswersOK(c)'
  BY <1>0, <1>1, <1>2, <1>3 DEF TransportInv, PhaseOK, AnswersOK
<1>7. \A d \in Calls \ {c} : PhaseOK(d)' /\ AnswersOK(d)'
  BY <1>0, <1>2, <1>3, OtherCall
<1>8. ProxyOK'
  BY <1>2, <1>3 DEF ProxyOK
<1> QED
  BY <1>4, <1>5, <1>6, <1>7, <1>8 DEF TransportInv

LEMMA ExecuteOK ==
  ASSUME TransportInv, Execute
  PROVE  TransportInv'
<1>1. /\ proxy.pc = "api"
      /\ UNCHANGED <<phase, asked, up, down, got, backlog, closed, faults, left>>
  BY DEF Execute, Serving, wires
<1>2. PICK n \in Answers :
        /\ answers' = [answers EXCEPT ![proxy.call] = Append(@, n)]
        /\ proxy' = [proxy EXCEPT !.pc = "answer", !.response = n]
  BY DEF Execute
<1>3. faults' = faults /\ faults \in 0..MaxFaults
  BY <1>1 DEF TransportInv, TypeOK
<1> QED
  BY <1>1, <1>2, <1>3, ApiDoneOK

LEMMA ApiEndsOK ==
  ASSUME TransportInv, ApiEnds
  PROVE  TransportInv'
<1>1. /\ proxy.pc = "api" /\ proxy' = [proxy EXCEPT !.pc = "answer"]
      /\ faults < MaxFaults /\ faults' = faults + 1
      /\ UNCHANGED <<phase, asked, up, down, got, backlog, closed, left>>
  BY DEF ApiEnds, Serving, wires
<1>2. faults' \in 0..MaxFaults /\ faults' > 0
  BY <1>1, BoundsAssumption DEF TransportInv, TypeOK
<1>3. proxy \in ServingRecord /\ proxy.response = 0
  BY <1>1, Served DEF TransportInv, ProxyOK
<1>4. proxy' = [proxy EXCEPT !.pc = "answer", !.response = 0]
  BY <1>1, <1>3 DEF ServingRecord
<1>5. \/ answers' = answers
      \/ \E m \in Answers :
           answers' = [answers EXCEPT ![proxy.call] = Append(@, m)]
  BY DEF ApiEnds
<1> QED
  BY <1>1, <1>2, <1>4, <1>5, ApiDoneOK

LEMMA AnswerOK ==
  ASSUME TransportInv, Answer
  PROVE  TransportInv'
<1>0. PICK c : c = proxy.call
  OBVIOUS
<1>1. /\ proxy.pc = "answer" /\ closeClient
      /\ down' = [down EXCEPT ![c] = records(proxy.response)]
      /\ UNCHANGED <<phase, asked, up, got, backlog, answers, faults, left>>
  BY <1>0 DEF Answer, Serving
<1>2. /\ c \in Calls /\ answers[c] \in Seq(Answers)
      /\ down \in [Calls -> Seq(1..Rec)] /\ faults \in 0..MaxFaults
  BY <1>0, <1>1, Served DEF TransportInv, TypeOK
<1>3. \/ proxy.response = 0 /\ faults > 0
      \/ answers[c] # <<>> /\ proxy.response = Head(answers[c])
  BY <1>0, <1>1 DEF TransportInv, ProxyOK
<1>4. proxy.response = 0 \/ proxy.response \in Nat \ {0}
  <2>1. answers[c] # <<>> => Head(answers[c]) \in Answers
    BY <1>2, HeadTailProperties
  <2> QED
    BY <1>3, <2>1, Sizes
<1>5. /\ records(proxy.response) \in Seq(1..Rec)
      /\ proxy.response = 0 => records(proxy.response) = <<>>
      /\ proxy.response # 0 =>
           Reading(records(proxy.response), 0, proxy.response)
  BY <1>4, RecordsOK, ReadingBegins
<1>6. /\ down' \in [Calls -> Seq(1..Rec)]
      /\ \A d \in Calls : d # c => down'[d] = down[d]
      /\ down'[c] = records(proxy.response)
  BY <1>1, <1>2, <1>5
<1>7. answers[c] = <<>> => down'[c] = <<>> /\ faults' > 0
  BY <1>1, <1>3, <1>5, <1>6
<1>8. answers[c] # <<>> =>
        \/ down'[c] = <<>> /\ faults' > 0
        \/ Reading(down'[c], 0, Head(answers[c]))
  BY <1>1, <1>2, <1>3, <1>4, <1>5, <1>6, Sizes, HeadTailProperties
<1> QED
  BY <1>0, <1>1, <1>2, <1>6, <1>7, <1>8, ClosedOK

---------------------------------------------------------------------------
(* The invariant holds for any calls, buffer, records and lengths.         *)
THEOREM TransportInvariance == Spec => []TransportInv
<1>1. TransportInv /\ [Next]_vars => TransportInv'
  <2> SUFFICES ASSUME TransportInv, [Next]_vars
               PROVE  TransportInv'
    OBVIOUS
  <2>1. ASSUME NEW c \in Calls,
               \/ Connect(c) \/ ClientSend(c) \/ ClientRead(c)
               \/ ClientEof(c) \/ ClientLeaves(c)
        PROVE  TransportInv'
    BY <2>1, ConnectOK, ClientSendOK, ClientReadOK, ClientEofOK, ClientLeavesOK
  <2>2. CASE Accept \/ ProxyRead \/ ProxyEof \/ Forward
    BY <2>2, AcceptOK, ProxyReadOK, ProxyEofOK, ForwardOK
  <2>3. CASE Execute \/ ApiEnds \/ Answer
    BY <2>3, ExecuteOK, ApiEndsOK, AnswerOK
  <2>4. CASE UNCHANGED vars
    BY <2>4 DEF vars, wires, TransportInv, TypeOK, QueueOK, PhaseOK,
                AnswersOK, ProxyOK, ReadOf, Reading
  <2> QED
    BY <2>1, <2>2, <2>3, <2>4 DEF Next
<1> QED
  BY <1>1, InitOK, PTL DEF Spec

(* The types, and that the proxy holds nothing of the last connection when *)
(* it waits for one, and serves none that was closed.                      *)
THEOREM TypeCorrect == Spec => []TypeOK
<1>1. TransportInv => TypeOK
  BY DEF TransportInv
<1> QED
  BY <1>1, TransportInvariance, PTL

(* The API is given the whole request or the first record of a longer one, *)
(* because Rec is no multiple of Buf.                                      *)
THEOREM RequestArrives == Spec => []RequestIsARecord
<1>1. TransportInv => RequestIsARecord
  BY DEF TransportInv, ProxyOK, RequestIsARecord
<1> QED
  BY <1>1, TransportInvariance, PTL

(* doRequest returns the whole answer to its own request, the first record *)
(* of a longer one, or nothing after a failure of the API.                 *)
THEOREM AnswerArrives == Spec => []AnswerIsARecord
<1>1. TransportInv => AnswerIsARecord
  BY DEF TransportInv, PhaseOK, AnswersOK, AnswerIsARecord
<1> QED
  BY <1>1, TransportInvariance, PTL

---------------------------------------------------------------------------
(* The implementation of Exchange.                                         *)

begun == {c \in Calls : phase[c] # "idle"}
executed == [c \in Calls |-> Len(answers[c])]
result == [c \in Calls |-> IF phase[c] = "done" THEN known(c) ELSE "none"]

(* No call begins or is returned, and no answer is given.                  *)
LEMMA Unnoticed ==
  ASSUME answers' = answers,
         \A d \in Calls :
           /\ (phase'[d] = "idle") = (phase[d] = "idle")
           /\ (phase'[d] = "done") = (phase[d] = "done")
           /\ phase[d] = "done" => got'[d] = got[d]
  PROVE  UNCHANGED <<begun, executed, result>>
<1>1. begun' = begun /\ executed' = executed
  BY DEF begun, executed
<1>2. \A d \in Calls : phase[d] = "done" => known(d)' = known(d)
  BY DEF known
<1>3. result' = result
  BY <1>2 DEF result
<1> QED
  BY <1>1, <1>3

LEMMA Returns ==
  ASSUME TransportInv, NEW c \in Calls, answers' = answers,
         phase[c] = "waiting", phase' = [phase EXCEPT ![c] = "done"],
         \A d \in Calls \ {c} : got'[d] = got[d],
         got'[c] = 0 \/ answers[c] # <<>>
  PROVE  Promise!Return(c)
<1>1. \A d \in Calls : phase'[d] = IF d = c THEN "done" ELSE phase[d]
  BY DEF TransportInv, TypeOK
<1>2. begun' = begun /\ executed' = executed /\ c \in begun
  BY <1>1 DEF begun, executed
<1>3. PICK k \in {"nothing", "part", "all"} :
        known(c)' = k /\ (k = "nothing" \/ got'[c] # 0)
  BY DEF known
<1>4. k # "nothing" => executed[c] = 1
  <2> DEFINE count == Len(answers[c])
  <2>1. answers[c] \in Seq(Answers)
    BY DEF TransportInv, TypeOK
  <2>2. count <= 1
    BY DEF TransportInv, AnswersOK
  <2>3. count \in Nat /\ (answers[c] # <<>> => count # 0)
    BY <2>1
  <2>4. executed[c] = count
    BY DEF executed
  <2> HIDE DEF count
  <2> QED
    BY <1>3, <2>2, <2>3, <2>4
<1>5. \A d \in Calls \ {c} : known(d)' = known(d)
  BY DEF known
<1>6. result[c] = "none"
  BY DEF result
<1>7. result' = [result EXCEPT ![c] = k]
  BY <1>1, <1>3, <1>5 DEF result
<1> QED
  BY <1>2, <1>4, <1>6, <1>7 DEF Promise!Return, begun, executed, result

LEMMA Executes ==
  ASSUME TransportInv, proxy.pc = "api", phase' = phase, got' = got,
         NEW n \in Answers,
         answers' = [answers EXCEPT ![proxy.call] = Append(@, n)]
  PROVE  \E c \in Calls : Promise!Execute(c)
<1>0. PICK c : c = proxy.call
  OBVIOUS
<1>1. /\ c \in Calls /\ answers[c] = <<>>
      /\ phase[c] \in {"connected", "waiting", "gone", "vanished"}
      /\ answers \in [Calls -> Seq(Answers)]
  BY <1>0, Served DEF TransportInv, TypeOK
<1>2. /\ answers'[c] = Append(answers[c], n)
      /\ \A d \in Calls \ {c} : answers'[d] = answers[d]
  <2>1. answers' = [answers EXCEPT ![c] = Append(answers[c], n)]
    BY <1>0
  <2> QED
    BY <1>1, <2>1
<1>3. Len(answers[c]) = 0 /\ Len(answers'[c]) = 1
  <2>1. Append(<<>>, n) = <<n>> /\ Len(<<>>) = 0 /\ Len(<<n>>) = 1
    OBVIOUS
  <2> QED
    BY <1>1, <1>2, <2>1
<1>4. executed[c] = 0 /\ executed' = [executed EXCEPT ![c] = 1]
  BY <1>1, <1>2, <1>3 DEF executed
<1>5. c \in begun /\ begun' = begun /\ result[c] = "none"
  BY <1>1 DEF begun, result
<1>6. \A d \in Calls \ {c} : known(d)' = known(d)
  BY <1>2 DEF known
<1>7. result' = result
  BY <1>1, <1>6 DEF result
<1> QED
  BY <1>0, <1>1, <1>4, <1>5, <1>7 DEF Promise!Execute, begun, executed, result

(* No request is executed twice or before it is made, and who holds some   *)
(* of an answer knows that the request was executed.                       *)
THEOREM Implementation == Spec => ImplementsExchange
<1>1. Init => Promise!Init
  BY DEF Init, Promise!Init
<1>2. TransportInv /\ [Next]_vars => [Promise!Next]_<<begun, executed, result>>
  <2> SUFFICES ASSUME TransportInv, [Next]_vars
               PROVE  Promise!Next \/ UNCHANGED <<begun, executed, result>>
    OBVIOUS
  <2>0. phase \in [Calls -> {"idle", "connecting", "connected", "waiting"} \cup Ended]
    BY DEF TransportInv, TypeOK
  <2>1. ASSUME NEW c \in Calls, Connect(c) PROVE Promise!Next
    <3>1. /\ \A d \in Calls : phase'[d] = IF d = c THEN "connecting" ELSE phase[d]
          /\ phase[c] = "idle" /\ got' = got /\ answers' = answers
      BY <2>0, <2>1 DEF Connect, Moves
    <3>2. c \notin begun /\ begun' = begun \cup {c} /\ executed' = executed
      BY <3>1 DEF begun, executed
    <3>3. \A d \in Calls : known(d)' = known(d)
      BY <3>1 DEF known
    <3>4. result' = result
      BY <3>1, <3>3 DEF result
    <3> QED
      BY <3>2, <3>4 DEF Promise!Next, Promise!Begin, begun, executed, result
  <2>2. ASSUME NEW c \in Calls, ClientSend(c) \/ ClientLeaves(c)
        PROVE  UNCHANGED <<begun, executed, result>>
    <3>1. answers' = answers /\ got' = got
      BY <2>2 DEF ClientSend, ClientLeaves
    <3>2. PICK to \in {"waiting", "gone", "vanished"} :
            phase' = [phase EXCEPT ![c] = to]
      BY <2>2 DEF ClientSend, ClientLeaves, Moves
    <3>3. phase[c] \in {"connecting", "connected", "waiting"}
      BY <2>2 DEF ClientSend, ClientLeaves
    <3> QED
      BY <2>0, <3>1, <3>2, <3>3, Unnoticed
  <2>3. ASSUME NEW c \in Calls, ClientRead(c)
        PROVE  Promise!Next \/ UNCHANGED <<begun, executed, result>>
    <3>1. /\ phase[c] = "waiting" /\ down[c] # <<>> /\ answers' = answers
          /\ \A d \in Calls \ {c} : got'[d] = got[d]
      BY <2>3 DEF ClientRead, TransportInv, TypeOK
    <3>2. CASE phase' = [phase EXCEPT ![c] = "done"]
      <4>1. answers[c] # <<>>
        BY <3>1 DEF TransportInv, AnswersOK
      <4> QED
        BY <3>1, <3>2, <4>1, Returns DEF Promise!Next
    <3>3. CASE phase' = phase
      BY <3>1, <3>3, Unnoticed
    <3> QED
      BY <2>3, <3>2, <3>3 DEF ClientRead, Moves
  <2>4. ASSUME NEW c \in Calls, ClientEof(c)
        PROVE  Promise!Next \/ UNCHANGED <<begun, executed, result>>
    <3>1. phase[c] = "waiting" /\ answers' = answers /\ got' = got
      BY <2>4 DEF ClientEof
    <3>2. CASE phase' = [phase EXCEPT ![c] = "done"]
      <4>1. got[c] = 0 \/ answers[c] # <<>>
        BY DEF TransportInv, AnswersOK
      <4> QED
        BY <3>1, <3>2, <4>1, Returns DEF Promise!Next
    <3>3. CASE phase' = [phase EXCEPT ![c] = "failed"]
      BY <2>0, <3>1, <3>3, Unnoticed
    <3> QED
      BY <2>4, <3>2, <3>3 DEF ClientEof, Moves
  <2>5. CASE Accept
    <3>1. answers' = answers /\ got' = got /\ Head(backlog) \in Calls
      BY <2>5, TailOfBacklog DEF Accept
    <3>2. CASE phase' = phase
      BY <3>1, <3>2, Unnoticed
    <3>3. CASE phase[Head(backlog)] = "connecting"
      <4>1. PICK to \in {"connected", "failed"} :
              phase' = [phase EXCEPT ![Head(backlog)] = to] \/ phase' = phase
        BY <2>5, <3>3 DEF Accept, Moves
      <4> QED
        BY <2>0, <3>1, <3>3, <4>1, Unnoticed
    <3> QED
      BY <2>5, <3>2, <3>3 DEF Accept
  <2>6. CASE Execute \/ ApiEnds
    <3>1. proxy.pc = "api" /\ phase' = phase /\ got' = got
      BY <2>6 DEF Execute, ApiEnds, Serving
    <3>2. CASE answers' = answers
      BY <3>1, <3>2, Unnoticed
    <3>3. ASSUME NEW n \in Answers,
                 answers' = [answers EXCEPT ![proxy.call] = Append(@, n)]
          PROVE  Promise!Next
      <4>1. \E c \in Calls : Promise!Execute(c)
        BY <3>1, <3>3, Executes
      <4> QED
        BY <4>1 DEF Promise!Next
    <3> QED
      BY <2>6, <3>2, <3>3 DEF Execute, ApiEnds
  <2>7. CASE \/ ProxyRead \/ ProxyEof \/ Forward \/ Answer
             \/ UNCHANGED vars
    <3>1. phase' = phase /\ got' = got /\ answers' = answers
      BY <2>7 DEF ProxyRead, ProxyEof, Forward, Answer, vars
    <3> QED
      BY <3>1, Unnoticed
  <2> QED
    BY <2>1, <2>2, <2>3, <2>4, <2>5, <2>6, <2>7 DEF Next
<1> QED
  BY <1>1, <1>2, TransportInvariance, PTL
  DEF Spec, ImplementsExchange, Promise!Spec, Promise!vars, begun, executed, result
=============================================================================
