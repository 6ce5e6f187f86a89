----------------------------- MODULE Transport -----------------------------
(***************************************************************************)
(* How a request travels: MessageClient::doRequest opens a TLS connection  *)
(* of its own for each call (client/network/src), and the proxy serves one *)
(* connection at a time and hands the bytes to the API (server/network/    *)
(* src).  Messages are counted in bytes.  SSL_write cuts them into records *)
(* of at most Rec bytes, SSL_read returns at most Buf bytes and never more *)
(* than is left of one record, and receive() at both ends takes the first  *)
(* read shorter than Buf for the end.                                      *)
(*                                                                         *)
(* TLS and the API are external.  The client asks for TLS 1.3 only, the    *)
(* proxy for 1.2 only, so something between them, external too, has to     *)
(* accept the one and open the other; it is taken to pass the records on.  *)
(***************************************************************************)
EXTENDS Naturals, Sequences, FiniteSets

CONSTANTS
  Calls,      \* calls of doRequest, of any clients
  Buf,        \* what one SSL_read can return, 4095
  Rec,        \* the longest TLS record, 16384
  Requests,   \* the lengths of requests
  Answers,    \* the lengths of the API's answers
  MaxFaults,  \* bound: failed handshakes and failures of the API
  MaxLeft,    \* bound: clients that end in the middle of a call
  Null

ASSUME SizesAssumption ==
  /\ {Buf, Rec} \cup Requests \cup Answers \subseteq Nat \ {0}
  /\ Rec % Buf # 0
  /\ Null \notin Calls

ASSUME BoundsAssumption == MaxFaults \in Nat /\ MaxLeft \in Nat

VARIABLES
  phase,    \* phase[c]: how far the client is with call c
  asked,    \* asked[c]: the length of its request
  up,       \* up[c]: what is left of the records on their way to the proxy
  down,     \* down[c]: the same for the records to the client
  got,      \* got[c]: how much of an answer the client has received
  backlog,  \* connections the proxy has not accepted
  closed,   \* calls whose connection the proxy has closed
  proxy,    \* the one call the proxy serves, and how far it is
  answers,  \* history: answers[c], the lengths of the API's answers to c
  faults, left

wires == <<up, down>>
vars == <<phase, asked, wires, got, backlog, closed, proxy, answers, faults, left>>

Ended == {"done", "failed", "gone", "vanished"}
Waiting == [pc |-> "accept", call |-> Null, received |-> 0, response |-> 0]

Init ==
  /\ phase = [c \in Calls |-> "idle"]
  /\ asked \in [Calls -> Requests]
  /\ up = [c \in Calls |-> <<>>]
  /\ down = [c \in Calls |-> <<>>]
  /\ got = [c \in Calls |-> 0]
  /\ backlog = <<>>
  /\ closed = {}
  /\ proxy = Waiting
  /\ answers = [c \in Calls |-> <<>>]
  /\ faults = 0
  /\ left = 0

---------------------------------------------------------------------------
(* SSL_write, SSL_read and the loop of receive().                          *)

smaller(m, n) == IF m < n THEN m ELSE n

records(n) ==
  [i \in 1..((n + Rec - 1) \div Rec) |->
     IF i * Rec <= n THEN Rec ELSE n % Rec]

piece(wire) == IF Head(wire) < Buf THEN Head(wire) ELSE Buf
remaining(wire) ==
  IF Head(wire) <= Buf THEN Tail(wire) ELSE <<Head(wire) - Buf>> \o Tail(wire)

(* Fault: the loop also ends when the buffer is exactly full.              *)
endsWhenFull(bytes) == bytes <= Buf
endsLoop(bytes) == bytes < Buf

(* How far the client is with the call.                                    *)
Moves(c, to) == phase' = [phase EXCEPT ![c] = to]

---------------------------------------------------------------------------
(* The client: doRequest.                                                  *)

(* connectSocket, then SSL_connect, which waits to be accepted.            *)
Connect(c) ==
  /\ phase[c] = "idle"
  /\ Moves(c, "connecting")
  /\ backlog' = Append(backlog, c)
  /\ UNCHANGED <<asked, wires, got, closed, proxy, answers, faults, left>>

ClientSend(c) ==
  /\ phase[c] = "connected"
  /\ Moves(c, "waiting")
  /\ up' = [up EXCEPT ![c] = records(asked[c])]
  /\ UNCHANGED <<asked, down, got, backlog, closed, proxy, answers, faults, left>>

ClientRead(c) ==
  /\ phase[c] = "waiting"
  /\ down[c] # <<>>
  /\ got' = [got EXCEPT ![c] = @ + piece(down[c])]
  /\ down' = [down EXCEPT ![c] = remaining(@)]
  /\ IF endsLoop(piece(down[c])) THEN Moves(c, "done") ELSE UNCHANGED phase
  /\ UNCHANGED <<asked, up, backlog, closed, proxy, answers, faults, left>>

(* SSL_read returns 0; a proxy that closes over bytes it has not read may  *)
(* reset the connection, and then the client throws.                       *)
ClientEof(c) ==
  /\ phase[c] = "waiting"
  /\ down[c] = <<>>
  /\ c \in closed
  /\ \/ Moves(c, "done")
     \/ up[c] # <<>> /\ Moves(c, "failed")
  /\ UNCHANGED <<asked, wires, got, backlog, closed, proxy, answers, faults, left>>

(* The program ends: before it has sent the request, or after.             *)
ClientLeaves(c) ==
  /\ phase[c] \in {"connecting", "connected", "waiting"}
  /\ left < MaxLeft
  /\ left' = left + 1
  /\ Moves(c, IF phase[c] = "waiting" THEN "gone" ELSE "vanished")
  /\ UNCHANGED <<asked, wires, got, backlog, closed, proxy, answers, faults>>

---------------------------------------------------------------------------
(* The proxy: MessageServer::run.                                          *)

Serving(pc) == proxy.pc = pc

(* acceptConnection: a handshake that fails ends the connection.           *)
Accept ==
  /\ Serving("accept")
  /\ backlog # <<>>
  /\ backlog' = Tail(backlog)
  /\ LET c == Head(backlog)
     IN  \/ /\ phase[c] = "connecting"
            /\ Moves(c, "connected")
            /\ proxy' = [Waiting EXCEPT !.pc = "read", !.call = c]
            /\ UNCHANGED <<closed, faults>>
         \/ /\ phase[c] = "connecting"
            /\ faults < MaxFaults
            /\ faults' = faults + 1
            /\ Moves(c, "failed")
            /\ closed' = closed \cup {c}
            /\ UNCHANGED proxy
         \/ /\ phase[c] = "vanished"
            /\ closed' = closed \cup {c}
            /\ UNCHANGED <<phase, proxy, faults>>
  /\ UNCHANGED <<asked, wires, got, answers, left>>

ProxyRead ==
  LET wire == up[proxy.call]
  IN  /\ Serving("read")
      /\ wire # <<>>
      /\ up' = [up EXCEPT ![proxy.call] = remaining(@)]
      /\ proxy' = [proxy EXCEPT
                     !.received = @ + piece(wire),
                     !.pc = IF endsLoop(piece(wire)) THEN "forward" ELSE "read"]
      /\ UNCHANGED <<phase, asked, down, got, backlog, closed, answers, faults, left>>

(* Fault: the end of the connection is taken for WANT_READ.                *)
goesOnReading(c) == FALSE
(* SSL_read returns 0 when the client has ended: what was received so far  *)
(* is the request.                                                         *)
endOfStream(c) == phase[c] \in {"gone", "vanished"} /\ up[c] = <<>>
ProxyEof ==
  /\ Serving("read")
  /\ endOfStream(proxy.call)
  /\ proxy' = [proxy EXCEPT !.pc = "forward"]
  /\ UNCHANGED <<phase, asked, wires, got, backlog, closed, answers, faults, left>>

(* closeClient, at the end of an iteration and after an exception.         *)
(* Fault: it forgets m_connected and the sockets of the call.              *)
keepsClient == /\ closed' = closed \cup {proxy.call}
               /\ proxy' = [proxy EXCEPT !.pc = "accept"]
closeClient == /\ closed' = closed \cup {proxy.call}
               /\ proxy' = Waiting

(* forwardToApi: connect and send, or an exception.                        *)
Forward ==
  /\ Serving("forward")
  /\ \/ proxy' = [proxy EXCEPT !.pc = "api"] /\ UNCHANGED <<closed, faults>>
     \/ faults < MaxFaults /\ faults' = faults + 1 /\ closeClient
  /\ UNCHANGED <<phase, asked, wires, got, backlog, answers, left>>

(* External: the API waits for the whole request, executes it, answers     *)
(* and closes the connection, which ends the loop of recv.                 *)
Execute ==
  /\ Serving("api")
  /\ proxy.received = asked[proxy.call]
  /\ \E n \in Answers :
       /\ answers' = [answers EXCEPT ![proxy.call] = Append(@, n)]
       /\ proxy' = [proxy EXCEPT !.pc = "answer", !.response = n]
  /\ UNCHANGED <<phase, asked, wires, got, backlog, closed, faults, left>>

(* External: the API ends, before it has answered.                         *)
ApiEnds ==
  /\ Serving("api")
  /\ faults < MaxFaults
  /\ faults' = faults + 1
  /\ proxy' = [proxy EXCEPT !.pc = "answer"]
  /\ \/ UNCHANGED answers
     \/ /\ proxy.received = asked[proxy.call]
        /\ \E n \in Answers :
             answers' = [answers EXCEPT ![proxy.call] = Append(@, n)]
  /\ UNCHANGED <<phase, asked, wires, got, backlog, closed, left>>

(* Fault: forwardToApi returns what its first recv gives.                  *)
AnswerFirstPart ==
  /\ Serving("answer")
  /\ down' = [down EXCEPT ![proxy.call] = records(smaller(proxy.response, Buf))]
  /\ closeClient
  /\ UNCHANGED <<phase, asked, up, got, backlog, answers, faults, left>>
(* Fault: what cannot be sent is forwarded again.                          *)
AnswerOrAgain ==
  /\ Serving("answer")
  /\ IF phase[proxy.call] = "gone"
       THEN proxy' = [proxy EXCEPT !.pc = "api"] /\ UNCHANGED <<down, closed>>
       ELSE /\ down' = [down EXCEPT ![proxy.call] = records(proxy.response)]
            /\ closeClient
  /\ UNCHANGED <<phase, asked, up, got, backlog, answers, faults, left>>
(* One SSL_write, which throws when there is nothing to write or nobody    *)
(* there, and closeClient either way.                                      *)
Answer ==
  /\ Serving("answer")
  /\ down' = [down EXCEPT ![proxy.call] = records(proxy.response)]
  /\ closeClient
  /\ UNCHANGED <<phase, asked, up, got, backlog, answers, faults, left>>

---------------------------------------------------------------------------
Next ==
  \/ \E c \in Calls : Connect(c) \/ ClientSend(c) \/ ClientRead(c)
                        \/ ClientEof(c) \/ ClientLeaves(c)
  \/ Accept \/ ProxyRead \/ ProxyEof \/ Forward \/ Execute \/ ApiEnds \/ Answer

Spec == Init /\ [][Next]_vars

(* Both programs run on, and the API answers what is a whole request.      *)
Fairness ==
  /\ \A c \in Calls : WF_vars(ClientSend(c) \/ ClientRead(c) \/ ClientEof(c))
  /\ WF_vars(Accept \/ ProxyRead \/ ProxyEof \/ Forward \/ Execute \/ Answer)

FairSpec == Spec /\ Fairness

---------------------------------------------------------------------------
(* The types, and that a proxy which waits for a connection holds nothing  *)
(* of the last one, and one that does not serves a call nobody closed.     *)
TypeOK ==
  /\ phase \in [Calls -> {"idle", "connecting", "connected", "waiting"} \cup Ended]
  /\ asked \in [Calls -> Requests]
  /\ up \in [Calls -> Seq(1..Rec)]
  /\ down \in [Calls -> Seq(1..Rec)]
  /\ got \in [Calls -> Nat]
  /\ backlog \in Seq(Calls)
  /\ closed \subseteq Calls
  /\ \/ proxy = Waiting
     \/ proxy \in [pc : {"read", "forward", "api", "answer"},
                   call : Calls \ closed, received : Nat,
                   response : {0} \cup Answers]
  /\ answers \in [Calls -> Seq(Answers)]
  /\ faults \in 0..MaxFaults
  /\ left \in 0..MaxLeft

(* The loop of receive() at the proxy: the API is given the whole request, *)
(* or the first record of one that is longer, or nothing of a client that  *)
(* ended before it sent.                                                   *)
RequestIsARecord == LET c == proxy.call
  IN  proxy.pc \in {"forward", "api"} =>
        proxy.received =
          IF phase[c] = "vanished" THEN 0 ELSE smaller(asked[c], Rec)

(* The loop of receive() at the client: doRequest returns the whole answer *)
(* to its own request, or the first record of a longer one; it returns     *)
(* nothing, as if the answer were empty, only when the API has failed.     *)
AnswerIsARecord == \A c \in Calls : phase[c] = "done" =>
  \/ answers[c] # <<>> /\ got[c] = smaller(Head(answers[c]), Rec)
  \/ got[c] = 0 /\ faults > 0

(* The call for which the proxy may wait for ever: of a client that waits  *)
(* for the answer to a request that fills its last read, a request longer  *)
(* than a record, of which the API waits for the rest, and one of a client *)
(* that ended before it sent, for which the API gets an empty request.     *)
Blocks(c) ==
  /\ proxy.call = c
  /\ \/ phase[c] = "waiting" /\ asked[c] % Buf = 0
     \/ asked[c] > Rec
     \/ phase[c] = "vanished"

(* One connection at a time is enough: every call ends, whatever the       *)
(* others do, failed handshakes, failures of the API and clients that end  *)
(* with their request sent included, unless one of them blocks the proxy.  *)
EveryCallEnds == \A c \in Calls :
  phase[c] # "idle" ~> phase[c] \in Ended \/ \E d \in Calls : Blocks(d)

---------------------------------------------------------------------------
(* What a call promises: Exchange.  The client knows nothing of an answer, *)
(* a part of it, or all of it.                                             *)
known(c) == IF got[c] = 0 THEN "nothing"
            ELSE IF got[c] < Head(answers[c]) THEN "part" ELSE "all"

Promise == INSTANCE Exchange WITH
  begun <- {c \in Calls : phase[c] # "idle"},
  executed <- [c \in Calls |-> Len(answers[c])],
  result <- [c \in Calls |-> IF phase[c] = "done" THEN known(c) ELSE "none"]

(* The connections and the proxy implement Exchange: no request is         *)
(* executed twice or before it is made, and no answer is given before.     *)
ImplementsExchange == Promise!Spec
============================================================================
