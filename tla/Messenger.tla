----------------------------- MODULE Messenger -----------------------------
(***************************************************************************)
(* Two desktop clients (client/desktop/electron/main.js) and the server's  *)
(* mailbox between them, with the ratchet of DoubleRatchet inside.         *)
(*                                                                         *)
(* JavaScript runs one handler at a time and switches only where one       *)
(* awaits.  msg:send awaits the prekey bundle and nothing after it, so it  *)
(* is one step before and one after.  msg:fetch awaits deleteConsumedOpk   *)
(* and the DELETEs; between these it holds the thread.  It is cut there    *)
(* once a message and at every file it writes, so that the client can die  *)
(* with the one file written and the other not.                            *)
(*                                                                         *)
(* sessions is a map to state objects that ratchetDecrypt changes in       *)
(* place: each user has a heap of them.  The map's key for the other user  *)
(* is its name, under which msg:fetch files a session, or its uuid, under  *)
(* which msg:send files the session it begins.                             *)
(***************************************************************************)
EXTENDS DoubleRatchet, FiniteSets, SequencesExt

CONSTANTS
  Writers,    \* who may write before having been written to
  Polls,      \* the msg:fetch calls one client can have under way
  Opks,       \* bound: one-time prekeys each user has registered
  Writes,     \* bound: Writes[u] is how many messages u writes
  Faults,     \* what may go wrong or be withdrawn, see MayHappen
  MaxFaults,  \* bound: how often something of Faults happens
  MaxDrops    \* bound: how often a client gives up a message and polls on

ASSUME WritersAssumption == Writers \subseteq Parties
ASSUME PollsAssumption == Null \notin Polls
ASSUME NullIsNoKeyAssumption ==  \* nor an X3DH header
  /\ Null \notin Key
  /\ Null \notin [eph : Key, ikDh : Key, opkId : Nat \cup {Null}]
ASSUME BoundsAssumption ==
  /\ Opks \in Nat /\ Writes \in [Parties -> Nat]
  /\ MaxFaults \in Nat /\ MaxDrops \in Nat

User == Parties
Peer(u) == IF u = Alice THEN Bob ELSE Alice
Text == UNION {[from : {u}, n : 0..(Writes[u] - 1)] : u \in User}

OpkId == 0..(Opks - 1)
OpkOf(u, id) == <<u, 2 + id>>
KeysOf(u) == [ikDh |-> <<u, 0>>, spk |-> <<u, 1>>]
FirstFresh == 2 + Opks

VARIABLES
  (* The server. *)
  mailbox,    \* mailbox[u]: the rows of messages addressed to u, oldest first
  opkPool,    \* opkPool[u]: the ids in opk_pubs of u's bundle, in order
  (* The clients' memory. *)
  heap,       \* heap[u]: u's ratchet states, from references to states
  sessions,   \* sessions[u]: from "name" and "uuid" to references
  opkMemory,  \* opkMemory[u]: ids with a key in currentUser.keys.opkPrivates
  thread,     \* thread[u]: the msg:fetch that runs, or Null
  fetch,      \* fetch[u][f]: where the msg:fetch f of u is
  sending,    \* sending[u]: whether u's msg:send awaits a bundle
  (* The clients' disks. *)
  disk,       \* disk[u]: the session file, from "name" and "uuid" to states
  opkDisk,    \* opkDisk[u]: ids not zeroed in the key file
  received,   \* received[u]: the received log
  sentLog,    \* sentLog[u]: the texts in the sent log
  (* The rest. *)
  generated,  \* generated[u]: the number of u's next key pair
  written,    \* written[u]: how many messages u has encrypted
  faults,     \* how many faults there were
  opened,     \* history: opened[u], the texts ratchetDecrypt returned to u
  dropped,    \* history: dropped[u], the texts u's msg:fetch gave up,
              \* one entry for every time
  withdrawn   \* history: the texts revoked or erased by their reader

server == <<mailbox, opkPool>>
memory == <<heap, sessions, opkMemory, thread, fetch, sending>>
files == <<disk, opkDisk, received, sentLog>>
history == <<opened, dropped, withdrawn>>
vars == <<server, memory, files, generated, written, faults, history>>

Idle == [pc |-> "idle", queue |-> <<>>, ref |-> 0, done |-> <<>>]
NoSessions == [k \in {} |-> 0]
TextsOf(box) == {box[i].text : i \in DOMAIN box}

Init ==
  /\ mailbox = [u \in User |-> <<>>]
  /\ opkPool = [u \in User |-> [i \in 1..Opks |-> i - 1]]
  /\ heap = [u \in User |-> [ref \in {} |-> Null]]
  /\ sessions = [u \in User |-> NoSessions]
  /\ opkMemory = [u \in User |-> OpkId]
  /\ thread = [u \in User |-> Null]
  /\ fetch = [u \in User |-> [f \in Polls |-> Idle]]
  /\ sending = [u \in User |-> FALSE]
  /\ disk = [u \in User |-> NoSessions]
  /\ opkDisk = [u \in User |-> OpkId]
  /\ received = [u \in User |-> <<>>]
  /\ sentLog = [u \in User |-> {}]
  /\ generated = [u \in User |-> FirstFresh]
  /\ written = [u \in User |-> 0]
  /\ faults = 0
  /\ opened = [u \in User |-> {}]
  /\ dropped = [u \in User |-> <<>>]
  /\ withdrawn = {}

MayHappen(kind) ==
  kind \in Faults /\ faults < MaxFaults /\ faults' = faults + 1

(* The server's rows.  Fault: newest first, and all of a user's at once.   *)
newestFirst(box) == Reverse(box)
get_messages_for_recipient(box) == box

(* What is left of s when only members of S are kept.                      *)
Kept(s, S) ==
  LET kept[i \in 0..Len(s)] ==
        IF i = 0 THEN <<>>
        ELSE IF s[i] \in S THEN Append(kept[i - 1], s[i])
        ELSE kept[i - 1]
  IN  kept[Len(s)]

deleteAll(box, text) == <<>>
delete_message(box, text) == Kept(box, {m \in ToSet(box) : m.text # text})

(* The keys under which the peer's session is found.  Fault: by name only. *)
foundByName(map) == DOMAIN map \cap {"name"}
found(map) == DOMAIN map

(* What the received log lacks.  Fault: it is not consulted.               *)
allOf(done, log) == done
fresh(done, log) == Kept(done, ToSet(done) \ ToSet(log))

(* Whether msg:fetch awaits deleteConsumedOpk.  Fault: it never does.      *)
neverAwaits(x3dh) == FALSE
awaitsOpk(x3dh) == x3dh.opkId # Null

(* What saveSessions writes: every entry on its own, shared or not.        *)
Snapshot(map, objects) == [k \in DOMAIN map |-> objects[map[k]]]

(* The objects with st as the one that ref refers to.                      *)
put(objects, ref, st) ==
  [r \in DOMAIN objects \cup {ref} |-> IF r = ref THEN st ELSE objects[r]]

(* A reference that is not in use.                                         *)
NewRef(objects) ==
  CHOOSE ref \in 1..(Cardinality(DOMAIN objects) + 1) : ref \notin DOMAIN objects

(* auth:login after the program was started again.                         *)
Restart(u, file, keys) ==
  LET names == SetToSeq(DOMAIN file)
  IN  /\ heap' = [heap EXCEPT ![u] = [i \in DOMAIN names |-> file[names[i]]]]
      /\ sessions' = [sessions EXCEPT ![u] =
           [k \in DOMAIN file |-> CHOOSE i \in DOMAIN names : names[i] = k]]
      /\ opkMemory' = [opkMemory EXCEPT ![u] = keys]
      /\ thread' = [thread EXCEPT ![u] = Null]
      /\ fetch' = [fetch EXCEPT ![u] = [f \in Polls |-> Idle]]
      /\ sending' = [sending EXCEPT ![u] = FALSE]

---------------------------------------------------------------------------
(* msg:send.                                                               *)

(* The message that ratchetEncrypt makes under st, and the end of the      *)
(* handler.  map is sessions[u] as the handler has left it so far and ref  *)
(* the state's reference, maybe a new one; key files it.                   *)
Transmit(u, st, ref, map, key, x3dh) ==
  LET enc == ratchetEncrypt(st)
      text == [from |-> u, n |-> written[u]]
      m == [text |-> text, x3dh |-> x3dh,
            ratchetPublic |-> enc.header.ratchetPublic,
            Ns |-> enc.header.Ns, PN |-> enc.header.PN,
            messageKey |-> enc.messageKey]
      objects == put(heap[u], ref, enc.st)
      filed == [k \in DOMAIN map \cup {key} |-> IF k = key THEN ref ELSE map[k]]
      Stored == mailbox' = [mailbox EXCEPT ![Peer(u)] = Append(@, m)]
      NotStored == UNCHANGED mailbox
      Logged == sentLog' = [sentLog EXCEPT ![u] = @ \cup {text}]
      Finish ==
        /\ Logged
        /\ heap' = [heap EXCEPT ![u] = objects]
        /\ sessions' = [sessions EXCEPT ![u] = filed]
        /\ disk' = [disk EXCEPT ![u] = Snapshot(filed, objects)]
        /\ sending' = [sending EXCEPT ![u] = FALSE]
        /\ UNCHANGED <<opkMemory, thread, fetch>>
      Throw ==
        /\ heap' = [heap EXCEPT ![u] =
                      IF ref \in DOMAIN @ THEN objects ELSE @]
        /\ sessions' = [sessions EXCEPT ![u] = map]
        /\ sending' = [sending EXCEPT ![u] = FALSE]
        /\ UNCHANGED <<sentLog, disk, opkMemory, thread, fetch>>
      Die ==  \* before, in or after saveSentLog, or in saveSessions
        \/ /\ Restart(u, disk[u], opkDisk[u])
           /\ UNCHANGED disk
           /\ Logged \/ UNCHANGED sentLog \/ sentLog' = [sentLog EXCEPT ![u] = {}]
        \/ /\ Restart(u, NoSessions, opkDisk[u])
           /\ disk' = [disk EXCEPT ![u] = NoSessions]
           /\ Logged
  IN  /\ written' = [written EXCEPT ![u] = @ + 1]
      /\ \/ Stored /\ Finish /\ UNCHANGED faults
         (* sendMessage returns an HTTP error as it does a success.        *)
         \/ MayHappen("rejected") /\ NotStored /\ Finish
         (* The connection breaks, before or after the server has it.      *)
         \/ MayHappen("connection") /\ (Stored \/ NotStored) /\ Throw
         \/ MayHappen("crash") /\ Stored /\ Die
      /\ UNCHANGED <<opkDisk, received, opened, dropped, withdrawn>>

(* A later message, after the DH step if this is the first reply.          *)
TransmitInSession(u, ref, map, key) ==
  LET st == heap[u][ref]
  IN  IF st.sendingChainKey = Null
      THEN /\ Transmit(u, dhRatchetStep(st, <<u, generated[u]>>),
                       ref, map, key, Null)
           /\ generated' = [generated EXCEPT ![u] = @ + 1]
      ELSE /\ Transmit(u, st, ref, map, key, Null)
           /\ UNCHANGED generated

MayWrite(u) ==
  /\ thread[u] = Null
  /\ ~sending[u]
  /\ written[u] < Writes[u]
  /\ u \in Writers \/ received[u] # <<>>

(* The recipient's name is a key of sessions: no await.                    *)
SendInSession(u) ==
  /\ MayWrite(u)
  /\ "name" \in DOMAIN sessions[u]
  /\ TransmitInSession(u, sessions[u]["name"], sessions[u], "name")
  /\ UNCHANGED opkPool

(* It is not: fetchPrekeyBundle.                                           *)
RequestBundle(u) ==
  /\ MayWrite(u)
  /\ "name" \notin DOMAIN sessions[u]
  /\ sending' = [sending EXCEPT ![u] = TRUE]
  /\ UNCHANGED <<server, heap, sessions, opkMemory, thread, fetch, files,
                 generated, written, faults, history>>

(* The bundle arrives, one OPK poorer at the server.  An entry filed under *)
(* the name in the meantime moves to the uuid; without any the state is    *)
(* made from the bundle.                                                   *)
SendWithBundle(u) ==
  LET pool == opkPool[Peer(u)]
      opkId == IF pool = <<>> THEN Null ELSE Head(pool)
      map == IF "name" \in DOMAIN sessions[u]
             THEN [k \in {"uuid"} |-> sessions[u]["name"]]
             ELSE sessions[u]
      eph == <<u, generated[u]>>
      bundle == [ikDh |-> KeysOf(Peer(u)).ikDh, spk |-> KeysOf(Peer(u)).spk,
                 opk |-> IF opkId = Null THEN Null ELSE OpkOf(Peer(u), opkId)]
      initial == initRatchet(x3dhSend(KeysOf(u), eph, bundle), bundle.spk,
                             <<u, generated[u] + 1>>)
  IN  /\ sending[u]
      /\ thread[u] = Null
      /\ opkPool' = [opkPool EXCEPT ![Peer(u)] =
                       IF @ = <<>> THEN @ ELSE Tail(@)]
      /\ IF "uuid" \in DOMAIN map
         THEN TransmitInSession(u, map["uuid"], map, "uuid")
         ELSE /\ Transmit(u, initial, NewRef(heap[u]), map, "uuid",
                          [eph |-> eph, ikDh |-> KeysOf(u).ikDh,
                           opkId |-> opkId])
              /\ generated' = [generated EXCEPT ![u] = @ + 2]

---------------------------------------------------------------------------
(* msg:fetch.                                                              *)

Runs(u, f, pc) == thread[u] = f /\ fetch[u][f].pc = pc

(* The poll timer, or the refresh after a send: the whole mailbox.  A poll *)
(* that finds it empty still saves the sessions.                           *)
StartFetch(u, f) ==
  /\ thread[u] = Null
  /\ fetch[u][f].pc = "idle"
  /\ Len(dropped[u]) < MaxDrops
  /\ mailbox[u] # <<>> \/ disk[u] # Snapshot(sessions[u], heap[u])
  /\ thread' = [thread EXCEPT ![u] = f]
  /\ fetch' = [fetch EXCEPT ![u][f] =
                 [Idle EXCEPT !.pc = "loop",
                              !.queue = get_messages_for_recipient(mailbox[u])]]
  /\ UNCHANGED <<server, heap, sessions, opkMemory, sending, files,
                 generated, written, faults, history>>

(* ratchetDecrypt under the state with reference ref of objects, a heap of *)
(* u.  The object changes even when the message does not open; only one    *)
(* that opens is filed and remembered.  States no longer referred to are   *)
(* collected.                                                              *)
Decrypt(u, f, objects, ref) ==
  LET m == Head(fetch[u][f].queue)
      key == <<u, generated[u]>>
      result == ratchetDecrypt(objects[ref], m, key)
      next == [fetch[u][f] EXCEPT !.pc = "loop", !.ref = 0, !.queue = Tail(@)]
      after == put(objects, ref, result.st)
      inUse == Range(sessions'[u]) \cup {fetch'[u][g].ref : g \in Polls}
  IN  /\ thread' = [thread EXCEPT ![u] = f]
      /\ generated' = [generated EXCEPT ![u] =
                         IF result.st.localRatchet = key THEN @ + 1 ELSE @]
      /\ IF result.outcome = "opened"
         THEN /\ sessions' = [sessions EXCEPT ![u] =
                   [k \in DOMAIN @ \cup {"name"} |->
                      IF k = "name" THEN ref ELSE @[k]]]
              /\ fetch' = [fetch EXCEPT ![u][f] =
                             [next EXCEPT !.done = Append(@, m.text)]]
              /\ opened' = [opened EXCEPT ![u] = @ \cup {m.text}]
              /\ UNCHANGED dropped
         ELSE /\ fetch' = [fetch EXCEPT ![u][f] = next]
              /\ dropped' = [dropped EXCEPT ![u] = Append(@, m.text)]
              /\ UNCHANGED <<sessions, opened>>
      /\ heap' = [heap EXCEPT ![u] = Restrict(after, DOMAIN after \cap inUse)]
      /\ UNCHANGED <<server, opkMemory, sending, disk, received, sentLog,
                     written, faults, withdrawn>>

(* There is a session with the sender, by name before uuid.                *)
ReadInSession(u, f) ==
  LET keys == found(sessions[u])
  IN  /\ Runs(u, f, "loop")
      /\ fetch[u][f].queue # <<>>
      /\ keys # {}
      /\ Decrypt(u, f, heap[u],
                 sessions[u][IF "name" \in keys THEN "name" ELSE "uuid"])
      /\ UNCHANGED opkDisk

(* No session and no X3DH header: the message stays on the server.         *)
DropHeaderless(u, f) ==
  LET m == Head(fetch[u][f].queue)
  IN  /\ Runs(u, f, "loop")
      /\ fetch[u][f].queue # <<>>
      /\ found(sessions[u]) = {}
      /\ m.x3dh = Null
      /\ fetch' = [fetch EXCEPT ![u][f].queue = Tail(@)]
      /\ dropped' = [dropped EXCEPT ![u] = Append(@, m.text)]
      /\ UNCHANGED <<server, heap, sessions, opkMemory, thread, sending,
                     files, generated, written, faults,
                     opened, withdrawn>>

(* A first message.  x3dhReceive throws when the OPK is gone, and the whole*)
(* handler with it; otherwise it makes the state.  When an OPK was used,   *)
(* the handler goes on to await deleteConsumedOpk.                         *)
BeginSession(u, f) ==
  LET m == Head(fetch[u][f].queue)
      opks == [id \in opkMemory[u] |-> OpkOf(u, id)]
      st == initRatchetReceiver(x3dhReceive(KeysOf(u), opks, m.x3dh), m,
                                KeysOf(u).spk)
      new == NewRef(heap[u])
      objects == put(heap[u], new, st)
      OpkGone == m.x3dh.opkId \notin opkMemory[u] \cup {Null}
      Throw == /\ fetch' = [fetch EXCEPT ![u][f] = Idle]
               /\ thread' = [thread EXCEPT ![u] = Null]
               /\ UNCHANGED <<heap, sessions, generated, opened, dropped>>
      Await == /\ heap' = [heap EXCEPT ![u] = objects]
               /\ fetch' = [fetch EXCEPT ![u][f].ref = new,
                                         ![u][f].pc = "opk"]
               /\ thread' = [thread EXCEPT ![u] = Null]
               /\ UNCHANGED <<sessions, generated, opened, dropped>>
  IN  /\ Runs(u, f, "loop")
      /\ fetch[u][f].queue # <<>>
      /\ found(sessions[u]) = {}
      /\ m.x3dh # Null
      /\ \/ OpkGone /\ Throw
         \/ ~OpkGone /\ awaitsOpk(m.x3dh) /\ Await
         \/ ~OpkGone /\ ~awaitsOpk(m.x3dh) /\ Decrypt(u, f, objects, new)
      /\ UNCHANGED <<server, opkMemory, sending, files, written, faults,
                     withdrawn>>

(* deleteConsumedOpk has written the key file, and the handler goes on.    *)
OpkDeleted(u, f) ==
  /\ thread[u] = Null
  /\ fetch[u][f].pc = "opk"
  /\ opkDisk' = [opkDisk EXCEPT ![u] =
                   @ \ {Head(fetch[u][f].queue).x3dh.opkId}]
  /\ Decrypt(u, f, heap[u], fetch[u][f].ref)

(* Fault: nothing is saved when the loop is over.                          *)
unsaved(u, f) ==
  /\ Runs(u, f, "loop")
  /\ fetch[u][f].queue = <<>>
  /\ fetch' = [fetch EXCEPT ![u][f].pc = "log"]
  /\ UNCHANGED <<server, heap, sessions, opkMemory, thread, sending, files,
                 generated, written, faults, history>>

(* The loop is over: saveSessions.                                         *)
SaveSessions(u, f) ==
  /\ Runs(u, f, "loop")
  /\ fetch[u][f].queue = <<>>
  /\ disk' = [disk EXCEPT ![u] = Snapshot(sessions[u], heap[u])]
  /\ fetch' = [fetch EXCEPT ![u][f].pc = "log"]
  /\ UNCHANGED <<server, heap, sessions, opkMemory, thread, sending,
                 opkDisk, received, sentLog, generated, written, faults,
                 history>>

(* saveReceivedLog with what is new, then await the DELETEs.               *)
LogReceived(u, f) ==
  LET done == fetch[u][f].done
  IN  /\ Runs(u, f, "log")
      /\ received' = [received EXCEPT ![u] =
                        @ \o fresh(done, @)]
      /\ thread' = [thread EXCEPT ![u] = Null]
      /\ fetch' = [fetch EXCEPT ![u][f] =
                     IF done = <<>> THEN Idle ELSE [@ EXCEPT !.pc = "delete"]]
      /\ UNCHANGED <<server, heap, sessions, opkMemory, sending,
                     disk, opkDisk, sentLog, generated, written, faults,
                     history>>

(* One of the DELETEs of Promise.all ends; a failure is only logged.       *)
DeleteOne(u, f) ==
  /\ fetch[u][f].pc = "delete"
  /\ \E i \in DOMAIN fetch[u][f].done :
       LET left == RemoveAt(fetch[u][f].done, i)
       IN  /\ fetch' = [fetch EXCEPT ![u][f] =
                          IF left = <<>> THEN Idle ELSE [@ EXCEPT !.done = left]]
           /\ \/ /\ mailbox' = [mailbox EXCEPT ![u] =
                      delete_message(@, fetch[u][f].done[i])]
                 /\ UNCHANGED faults
              \/ MayHappen("delete") /\ UNCHANGED mailbox
  /\ UNCHANGED <<opkPool, heap, sessions, opkMemory, thread, sending, files,
                 generated, written, history>>

---------------------------------------------------------------------------
(* The users, and crashes.                                                 *)

(* msg:revoke of a text in the sent log, which the server may still have.  *)
Revoke(u) ==
  /\ thread[u] = Null
  /\ MayHappen("revoke")
  /\ \E text \in sentLog[u] :
       /\ mailbox' = [mailbox EXCEPT ![Peer(u)] =
                        delete_message(@, text)]
       /\ sentLog' = [sentLog EXCEPT ![u] = @ \ {text}]
       /\ withdrawn' = withdrawn \cup {text}
  /\ UNCHANGED <<opkPool, memory, disk, opkDisk, received, generated, written,
                 opened, dropped>>

(* msg:delete of a text in the received log.                               *)
Erase(u) ==
  /\ thread[u] = Null
  /\ MayHappen("erase")
  /\ \E text \in ToSet(received[u]) :
       /\ mailbox' = [mailbox EXCEPT ![u] =
                        delete_message(@, text)]
       /\ received' = [received EXCEPT ![u] =
                         Kept(@, ToSet(@) \ {text})]
       /\ withdrawn' = withdrawn \cup {text}
  /\ UNCHANGED <<opkPool, memory, disk, opkDisk, sentLog, generated, written,
                 opened, dropped>>

(* The client dies and is started again.  writeFileSync is not atomic: who *)
(* dies in it leaves a file that cannot be decrypted, which loadSessions   *)
(* reads as {} and loadReceivedLog as [].                                  *)
Crash(u) ==
  LET saving == \E f \in Polls : Runs(u, f, "loop") /\ fetch[u][f].queue = <<>>
      logging == \E f \in Polls : Runs(u, f, "log")
  IN  /\ MayHappen("crash")
      /\ \E file \in {disk[u]} \cup (IF saving THEN {NoSessions} ELSE {}) :
           /\ Restart(u, file, opkDisk[u])
           /\ disk' = [disk EXCEPT ![u] = file]
      /\ \E log \in {received[u]} \cup (IF logging THEN {<<>>} ELSE {}) :
           received' = [received EXCEPT ![u] = log]
      /\ UNCHANGED <<server, opkDisk, sentLog, generated, written, history>>

---------------------------------------------------------------------------
FetchStep(u, f) ==
  \/ ReadInSession(u, f) \/ DropHeaderless(u, f) \/ BeginSession(u, f)
  \/ OpkDeleted(u, f) \/ SaveSessions(u, f)
  \/ LogReceived(u, f) \/ DeleteOne(u, f)

Next == \E u \in User :
  \/ SendInSession(u) \/ RequestBundle(u) \/ SendWithBundle(u)
  \/ \E f \in Polls : StartFetch(u, f) \/ FetchStep(u, f)
  \/ Revoke(u) \/ Erase(u) \/ Crash(u)

Spec == Init /\ [][Next]_vars

(* The poll timer goes off every five seconds, a handler that started goes *)
(* on, and requests are answered.  That a user writes is not assumed.      *)
Fairness == \A u \in User :
  /\ WF_vars(SendWithBundle(u))
  /\ \A f \in Polls : WF_vars(StartFetch(u, f)) /\ WF_vars(FetchStep(u, f))

FairSpec == Spec /\ Fairness

---------------------------------------------------------------------------
(* Properties.                                                             *)

IsFile(file) ==
  /\ DOMAIN file \subseteq {"name", "uuid"}
  /\ \A k \in DOMAIN file : {file[k].Ns, file[k].Nr, file[k].PN} \subseteq Nat

(* The fields have the types the handlers rely on: the sessions refer to   *)
(* states that exist, the counters of saved states are numbers, the thread *)
(* belongs to a msg:fetch under way.                                       *)
TypeOK == \A u \in User :
  /\ TextsOf(mailbox[u]) \subseteq Text
  /\ ToSet(opkPool[u]) \cup opkMemory[u] \cup opkDisk[u] \subseteq OpkId
  /\ \A k \in DOMAIN sessions[u] : sessions[u][k] \in DOMAIN heap[u]
  /\ IsFile(disk[u])
  /\ thread[u] \in Polls \cup {Null}
  /\ thread[u] # Null => fetch[u][thread[u]].pc \in {"loop", "log"}
  /\ ToSet(received[u]) \cup sentLog[u] \cup opened[u] \cup ToSet(dropped[u])
       \subseteq Text
  /\ sending[u] \in BOOLEAN

(* When nothing goes wrong, msg:fetch gives up no message: whatever the    *)
(* polls of the two clients and their sends interleave, each message finds *)
(* a session that opens it.  main.js:109-111 says so "regardless of how    *)
(* the conversation was initiated".                                        *)
NothingDropped == \A u \in User : dropped[u] = <<>>

(* The received log is at all times the beginning of what the peer wrote,  *)
(* in the order it was written, with nothing twice.                        *)
ReceivedIsPrefix == \A u \in User :
  \A i \in DOMAIN received[u] :
    received[u][i] = [from |-> Peer(u), n |-> i - 1]

(* A text that was written gets into the reader's received log at last:    *)
(* every poll ends, and every later one goes over what is left.            *)
EventuallyReceived == \A u \in User : \A text \in Text :
  text \in TextsOf(mailbox[u]) ~> text \in ToSet(received[u])

(* The received log shows no message twice, though a message may be        *)
(* fetched by two polls at once or again after a restart.                  *)
ReceivedOnce == \A u \in User : IsInjective(received[u])

(* The server's only copy of a message goes when its reader has it in the  *)
(* received log, or when one of the users has withdrawn it, and never else:*)
(* neither a crash of the reader nor a second poll loses it in between.    *)
GoneOnlyWhenStored ==
  [][\A u \in User :
       TextsOf(mailbox[u]) \ TextsOf(mailbox'[u])
         \subseteq ToSet(received[u]) \cup withdrawn']_vars

(* The saved state that the next login would use for the peer.             *)
Effective(file) ==
  {file[k] : k \in {k \in DOMAIN file : k = "name" \/ "name" \notin DOMAIN file}}

(* When a delivered message is deleted, the session file is past it: main  *)
(* saves the sessions first, so that the key of a deleted message is not   *)
(* to be had from the state that the next login resumes.                   *)
SavedBeforeDeleted ==
  [][\A u \in User : \A m \in ToSet(mailbox[u]) \ ToSet(mailbox'[u]) :
       m.text \in withdrawn' \/
       \A st \in Effective(disk[u]) : ~Derivable(st, m.messageKey)]_vars

(* A session that was saved and the private one-time key it began with are *)
(* never on disk together: deleteConsumedOpk ends before the session is    *)
(* stored.                                                                 *)
ConsumedOpkGone == \A u \in User : \A k \in DOMAIN disk[u] :
  \A id \in opkDisk[u] : \A secret \in ToSet(disk[u][k].rootKey[1]) :
    OpkOf(u, id) \notin secret

(* main.js:322: "Save sessions first so a delete failure can't cause       *)
(* message loss."  What msg:fetch gives up is what it had opened before.   *)
NoLossByDeletion == \A u \in User : ToSet(dropped[u]) \subseteq opened[u]
============================================================================
