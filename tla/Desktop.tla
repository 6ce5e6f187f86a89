------------------------------ MODULE Desktop ------------------------------
(***************************************************************************)
(* One computer on which several accounts register, log in and out: the    *)
(* globals of client/desktop/electron/main.js, which follow the last       *)
(* login, the files of each account, and the lists that ChatApp.jsx shows. *)
(* A handler takes the account's name and key out of currentUser when it   *)
(* starts and uses the globals after its awaits.                           *)
(*                                                                         *)
(* Each account writes with one remote user.  An action is a stretch       *)
(* between awaits; the answer to an IPC call is delivered with the end of  *)
(* its handler, as these answers arrive in the order they were given.      *)
(***************************************************************************)
EXTENDS Naturals, FiniteSets

CONSTANTS
  Accounts,
  Null,
  Incoming,     \* bound: messages the remote user writes to each account
  Outgoing,     \* bound: messages each account writes
  Attempts,     \* bound: registrations begun for each name
  MaxTurns,     \* bound: logins, and ends of the program
  MaxRemovals   \* bound: messages erased or revoked

ASSUME DesktopAssumption ==
  /\ Null \notin Accounts
  /\ {Incoming, Outgoing, Attempts} \subseteq [Accounts -> Nat]

VARIABLES
  (* The server. *)
  registered,  \* registered[a]: Null, or the registration whose keys it has
  mailbox,     \* mailbox[a]: messages to a
  outbox,      \* outbox[a]: texts of a, not yet read
  (* The files of each account: its name, the file's suffix. *)
  files,
  (* main.js: currentUser, sessions, receivedLog, sentLog. *)
  main,
  (* The handlers under way, of each kind and account at most one. *)
  fetch, send, erase, revoke,
  (* The user interface. *)
  auth,        \* the submission of AuthScreen under way, or Null
  ui,          \* the user name in localStorage, or Null
  view,        \* what ChatApp shows
  (* Histories and counters. *)
  arrived,     \* arrived[a]: how many messages the remote user wrote to a
  written,     \* written[a]: how many messages a wrote
  attempts,    \* attempts[a]: registrations begun
  turns, removals,
  delivered,   \* texts the remote user has read
  withdrawn,   \* revocations that ended: the text, the id it was asked by,
               \* and whether the remote user had not read it
  crossed      \* logins that came while a handler of an account awaited

server == <<registered, mailbox, outbox, delivered, arrived>>
handlers == <<fetch, send, erase, revoke>>
counters == <<written, attempts, turns, removals>>
vars == <<server, files, main, handlers, auth, ui, view, counters,
          withdrawn, crossed>>

Text == UNION {[from : {a}, n : 0..(Outgoing[a] - 1)] : a \in Accounts}
Message == UNION {[to : {a}, n : 0..(Incoming[a] - 1), x3dh : BOOLEAN] :
                    a \in Accounts}

(* What the map sessions has for the remote user: whose state it is, and   *)
(* whether the key is the user's name or the uuid, see Messenger.          *)
State == [of : Accounts, named : BOOLEAN]

NoFiles == [keys |-> Null, salt |-> Null, sessions |-> Null,
            received |-> {}, sent |-> {}]
NoUser == [user |-> Null, sessions |-> Null, received |-> {}, sent |-> {}]
NoView == [stage |-> "none", received |-> {}, sent |-> {}]
Mounted == [NoView EXCEPT !.stage = "history"]
Idle == [pc |-> "idle", queue |-> {}, mine |-> FALSE]

Init ==
  /\ registered = [a \in Accounts |-> Null]
  /\ mailbox = [a \in Accounts |-> {}]
  /\ outbox = [a \in Accounts |-> {}]
  /\ files = [a \in Accounts |-> NoFiles]
  /\ main = NoUser
  /\ fetch = [a \in Accounts |-> Idle]
  /\ send = [a \in Accounts |-> Null]
  /\ erase = [a \in Accounts |-> Null]
  /\ revoke = [a \in Accounts |-> Null]
  /\ auth = Null /\ ui = Null /\ view = NoView
  /\ arrived = [a \in Accounts |-> 0]
  /\ written = [a \in Accounts |-> 0]
  /\ attempts = [a \in Accounts |-> 0]
  /\ turns = 0 /\ removals = 0
  /\ delivered = {} /\ withdrawn = {} /\ crossed = {}

(* The answers to calls of a ChatApp that is gone are not shown.           *)
Unmount ==
  /\ fetch' = [a \in Accounts |-> [fetch[a] EXCEPT !.mine = FALSE]]
  /\ send' = [a \in Accounts |->
                IF send[a] = Null THEN Null ELSE [send[a] EXCEPT !.mine = FALSE]]
  /\ erase' = [a \in Accounts |->
                IF erase[a] = Null THEN Null ELSE [erase[a] EXCEPT !.mine = FALSE]]
  /\ revoke' = [a \in Accounts |->
                IF revoke[a] = Null THEN Null ELSE [revoke[a] EXCEPT !.mine = FALSE]]

(* Rows or log entries without the one a view entry stands for.  Fault: the*)
(* filter lets it pass.                                                    *)
keepsAll(texts, entry) == texts

without(texts, entry) ==
  IF entry.id = "server" THEN texts \ {entry.text} ELSE texts

(* A handler of a that will go on to use the globals.                      *)
Awaits(a) ==
  \/ fetch[a].pc = "opk"
  \/ send[a] # Null \/ erase[a] # Null \/ revoke[a] # Null

---------------------------------------------------------------------------
(* AuthScreen.jsx: register and log in, or log in.                         *)

(* createUser up to its POST writes new keys and then their salt.  Bound:  *)
(* not while a handler of the same account is under way.                   *)
Register(a) ==
  LET g == attempts[a] + 1
  IN  /\ ui = Null /\ auth = Null
      /\ g <= Attempts[a]
      /\ ~Awaits(a)
      /\ attempts' = [attempts EXCEPT ![a] = g]
      /\ files' = [files EXCEPT ![a].keys = g]
      /\ auth' = [pc |-> "salt", of |-> a]
      /\ UNCHANGED <<server, main, handlers, ui, view, written, turns,
                     removals, withdrawn, crossed>>

(* Fault: a salt file that exists is left as it is.                        *)
saltOnce(a) == IF files[a].salt = Null THEN attempts[a] ELSE files[a].salt
localSalt(a) == attempts[a]

(* Under another salt the password gives another key: the session file and *)
(* the logs no longer open, which the loaders take for empty.              *)
WriteSalt ==
  /\ auth # Null /\ auth.pc = "salt"
  /\ files' = [files EXCEPT ![auth.of] =
                 [NoFiles EXCEPT !.keys = files[auth.of].keys,
                                 !.salt = localSalt(auth.of)]]
  /\ auth' = [auth EXCEPT !.pc = "post"]
  /\ UNCHANGED <<server, main, handlers, ui, view, counters, withdrawn, crossed>>

(* The server's side, where the name is UNIQUE.  The client hears of it    *)
(* and logs in; or it hears that the name is taken; or it hears nothing,   *)
(* whether or not the server has heard of it.                              *)
RegisterAnswer ==
  /\ auth # Null /\ auth.pc = "post"
  /\ LET a == auth.of
         free == registered[a] = Null
     IN  \/ /\ free
            /\ registered' = [registered EXCEPT ![a] = attempts[a]]
            /\ auth' \in {[auth EXCEPT !.pc = "login"], Null}
         \/ /\ auth' = Null
            /\ UNCHANGED registered
  /\ UNCHANGED <<mailbox, outbox, delivered, arrived, files, main, handlers,
                 ui, view, counters, withdrawn, crossed>>

(* The user submits the form to sign in.                                   *)
SignIn(a) ==
  /\ ui = Null /\ auth = Null
  /\ auth' = [pc |-> "login", of |-> a]
  /\ UNCHANGED <<server, files, main, handlers, ui, view, counters,
                 withdrawn, crossed>>

(* Fault: the received log is taken over from the last login.              *)
globalsKeepingLog(a) ==
  [user |-> a, sessions |-> files[a].sessions,
   received |-> main.received, sent |-> files[a].sent]

globals(a) ==
  [user |-> a, sessions |-> files[a].sessions,
   received |-> files[a].received, sent |-> files[a].sent]

(* The server knows the account and the key file opens under the salt.     *)
MayLogin(a) ==
  registered[a] # Null /\ files[a].keys # Null /\ files[a].keys = files[a].salt

(* Fault: the login is taken for granted.                                  *)
openAnyway(a) ==
  /\ ui' = a
  /\ view' = Mounted
  /\ main' = IF MayLogin(a) THEN globals(a) ELSE main

open(a) ==
  IF MayLogin(a)
  THEN ui' = a /\ view' = Mounted /\ main' = globals(a)
  ELSE UNCHANGED <<ui, view, main>>

(* The end of auth:login: all globals at once, and handleLogin.  What it   *)
(* awaits before that changes nothing of them.                             *)
Login ==
  /\ auth # Null /\ auth.pc = "login"
  /\ turns < MaxTurns
  /\ turns' = turns + 1
  /\ auth' = Null
  /\ open(auth.of)
  /\ crossed' = crossed \cup
       {IF x = auth.of THEN "same" ELSE "other" :
          x \in {x \in Accounts : MayLogin(auth.of) /\ Awaits(x)}}
  /\ UNCHANGED <<server, files, handlers, written, attempts, removals,
                 withdrawn>>

(* handleLogout tells the main process nothing.                            *)
Logout ==
  /\ ui # Null
  /\ ui' = Null
  /\ view' = NoView
  /\ Unmount
  /\ UNCHANGED <<server, files, main, auth, counters, withdrawn, crossed>>

(* The program ends, maybe between the two files of createUser or when the *)
(* server has done what msg:revoke asks, and is started again: localStorage*)
(* remembers the user, the main process does not.  An end within msg:fetch *)
(* is a matter of Messenger.                                               *)
Quit ==
  /\ turns < MaxTurns
  /\ turns' = turns + 1
  /\ \A a \in Accounts : fetch[a].pc = "idle"
  /\ \E done \in SUBSET {a \in Accounts : revoke[a] # Null} :
       outbox' = [a \in Accounts |->
                    IF a \in done THEN without(outbox[a], revoke[a].entry)
                    ELSE outbox[a]]
  /\ main' = NoUser
  /\ auth' = Null
  /\ view' = IF ui = Null THEN NoView ELSE Mounted
  /\ send' = [a \in Accounts |-> Null]
  /\ erase' = [a \in Accounts |-> Null]
  /\ revoke' = [a \in Accounts |-> Null]
  /\ UNCHANGED <<registered, mailbox, delivered, arrived, files, fetch, ui,
                 written, attempts, removals, withdrawn, crossed>>

---------------------------------------------------------------------------
(* msg:fetch, called by ChatApp when it opens and every five seconds.      *)

(* The answer is merged into the list.  Fault: it replaces the list.       *)
replaced(shown, messages) == messages
merged(shown, messages) == shown \cup messages

(* Each handler ends the same way for the view: its change is shown if the *)
(* ChatApp that called is still there.                                     *)
Show(handler, change) ==
  view' = IF handler.mine THEN change ELSE view

(* ChatApp's init asks for the received log first.                         *)
ShowReceivedLog ==
  /\ view.stage = "history"
  /\ view' = [view EXCEPT !.stage = "poll", !.received = main.received]
  /\ UNCHANGED <<server, files, main, handlers, auth, ui, counters, withdrawn,
                 crossed>>

(* ... and for the sent log last, which replaces what was shown.           *)
ShowSentLog ==
  /\ view.stage = "sent"
  /\ view' = [view EXCEPT !.stage = "open",
                          !.sent = {[text |-> t, id |-> "server"] : t \in main.sent}]
  /\ UNCHANGED <<server, files, main, handlers, auth, ui, counters, withdrawn,
                 crossed>>

(* After the loop over queue: what opened is stored, first the sessions.   *)
Store(a, opened, mine, state) ==
  LET fresh == opened \ main.received
      log == main.received \cup fresh
  IN  /\ main' = [main EXCEPT !.sessions = state, !.received = log]
      /\ files' = [files EXCEPT ![a].sessions = state,
                                ![a].received = IF fresh = {} THEN @ ELSE log]
      /\ fetch' = [fetch EXCEPT ![a] =
                      [pc |-> "delete", queue |-> opened, mine |-> mine]]

(* The account's keys are those the server hands out.                      *)
Fits(a) == files[a].keys = registered[a]

(* ChatApp polls when it opens and every five seconds; a poll that finds   *)
(* nothing changes nothing later.  Fault: there is no timer.               *)
atFirst(queue) == view.stage = "poll"

timeToPoll(queue) ==
  view.stage = "poll" \/ (view.stage \in {"sent", "open"} /\ queue # {})

(* A poll of the user logged in: the whole mailbox.  Under a session that  *)
(* is the account's own every later message opens.  Without a session the  *)
(* loop comes to a first message and awaits deleteConsumedOpk, or it drops *)
(* them all.                                                               *)
Poll(a) ==
  LET queue == mailbox[a]
      state == main.sessions
      opened == IF state # Null /\ state.of = a
                THEN {m \in queue : ~m.x3dh} ELSE {}
      BeginsSession == state = Null /\ \E m \in queue : m.x3dh
  IN  /\ ui = a /\ main.user = a
      /\ fetch[a].pc = "idle"
      /\ timeToPoll(queue)
      /\ IF BeginsSession
         THEN /\ fetch' = [fetch EXCEPT ![a] =
                              [pc |-> "opk", queue |-> queue, mine |-> TRUE]]
              /\ UNCHANGED <<main, files>>
         ELSE Store(a, opened, TRUE,
                    IF opened = {} THEN state ELSE [state EXCEPT !.named = TRUE])
      /\ UNCHANGED <<server, send, erase, revoke, auth, ui, view, counters,
                     withdrawn, crossed>>

(* Nobody is logged in, as after a restart: ChatApp is told of no messages.*)
PollNobody ==
  /\ main.user = Null
  /\ view.stage = "poll"
  /\ view' = [view EXCEPT !.stage = "sent"]
  /\ UNCHANGED <<server, files, main, handlers, auth, ui, counters, withdrawn,
                 crossed>>

(* deleteConsumedOpk is done: the state made before the await opens the    *)
(* message, and what follows it, and is filed in the sessions of now.      *)
OpkDeleted(a) ==
  /\ fetch[a].pc = "opk"
  /\ IF Fits(a)
     THEN Store(a, fetch[a].queue, fetch[a].mine, [of |-> a, named |-> TRUE])
     ELSE Store(a, {}, fetch[a].mine, main.sessions)
  /\ UNCHANGED <<server, send, erase, revoke, auth, ui, view, counters,
                 withdrawn, crossed>>

(* The DELETEs are answered.  ChatApp merges the answer; that of its first *)
(* poll lets it go on.                                                     *)
FetchEnd(a) ==
  LET stage == IF view.stage = "poll" THEN "sent" ELSE view.stage
  IN  /\ fetch[a].pc = "delete"
      /\ mailbox' = [mailbox EXCEPT ![a] = @ \ fetch[a].queue]
      /\ Show(fetch[a],
              [view EXCEPT !.stage = stage,
                           !.received = merged(@, fetch[a].queue)])
      /\ fetch' = [fetch EXCEPT ![a] = Idle]
      /\ UNCHANGED <<registered, outbox, delivered, arrived, files, main, send,
                     erase, revoke, auth, ui, counters, withdrawn, crossed>>

---------------------------------------------------------------------------
(* msg:send, and ChatWindow's handleSend.                                  *)

(* The message is posted, and the sent log and the sessions are saved under*)
(* the name the handler began with.  The answer has the server's id, which *)
(* the log keeps; ChatWindow gives the text it shows an id of its own.     *)
Transmit(a, text, state, handler) ==
  LET log == main.sent \cup {text}
  IN  /\ outbox' = [outbox EXCEPT ![a] = @ \cup {text}]
      /\ main' = [main EXCEPT !.sent = log, !.sessions = state]
      /\ files' = [files EXCEPT ![a].sent = log, ![a].sessions = state]
      /\ Show(handler,
              [view EXCEPT !.sent = @ \cup {[text |-> text, id |-> "random"]}])
      /\ UNCHANGED <<registered, mailbox, delivered, arrived, fetch, erase,
                     revoke, auth, ui, attempts, turns, removals, withdrawn,
                     crossed>>

(* A session under the name needs no bundle.  Two conversations begun at   *)
(* once, one by each side, are a matter of Messenger.                      *)
Send(a) ==
  LET text == [from |-> a, n |-> written[a]]
      state == main.sessions
      now == [text |-> text, mine |-> TRUE]
  IN  /\ ui = a /\ main.user = a
      /\ send[a] = Null
      /\ written[a] < Outgoing[a]
      /\ written' = [written EXCEPT ![a] = @ + 1]
      /\ IF state # Null /\ state.named
         THEN /\ Transmit(a, text, state, now)
              /\ UNCHANGED send
         ELSE /\ state # Null \/ mailbox[a] = {}
              /\ send' = [send EXCEPT ![a] = now]
              /\ UNCHANGED <<server, files, main, fetch, erase, revoke, auth,
                             ui, view, attempts, turns, removals, withdrawn,
                             crossed>>

(* The bundle is there: a session the globals have by now is used and filed*)
(* under the uuid, else one begins.                                        *)
SendWithBundle(a) ==
  /\ send[a] # Null
  /\ Transmit(a, send[a].text,
              IF main.sessions = Null THEN [of |-> a, named |-> FALSE]
              ELSE [main.sessions EXCEPT !.named = FALSE],
              send[a])
  /\ send' = [send EXCEPT ![a] = Null]
  /\ UNCHANGED written

---------------------------------------------------------------------------
(* msg:delete and msg:revoke, for a message that is shown.                 *)

StartErase(a) ==
  /\ ui = a /\ main.user = a
  /\ erase[a] = Null
  /\ removals < MaxRemovals /\ removals' = removals + 1
  /\ \E m \in view.received :
       erase' = [erase EXCEPT ![a] = [message |-> m, mine |-> TRUE]]
  /\ UNCHANGED <<server, files, main, fetch, send, revoke, auth, ui, view,
                 written, attempts, turns, withdrawn, crossed>>

(* Fault: the log is changed in memory only.                               *)
savedNot(a, log) == files
saveReceivedLog(a, log) == [files EXCEPT ![a].received = log]

(* The DELETE is answered: the globals of now are filtered and saved under *)
(* the name the handler began with.                                        *)
EraseEnd(a) ==
  LET log == main.received \ {erase[a].message}
  IN  /\ erase[a] # Null
      /\ mailbox' = [mailbox EXCEPT ![a] = @ \ {erase[a].message}]
      /\ main' = [main EXCEPT !.received = log]
      /\ files' = saveReceivedLog(a, log)
      /\ Show(erase[a], [view EXCEPT !.received = @ \ {erase[a].message}])
      /\ erase' = [erase EXCEPT ![a] = Null]
      /\ UNCHANGED <<registered, outbox, delivered, arrived, fetch, send,
                     revoke, auth, ui, counters, withdrawn, crossed>>

StartRevoke(a) ==
  /\ ui = a /\ main.user = a
  /\ revoke[a] = Null
  /\ removals < MaxRemovals /\ removals' = removals + 1
  /\ \E entry \in view.sent :
       revoke' = [revoke EXCEPT ![a] = [entry |-> entry, mine |-> TRUE]]
  /\ UNCHANGED <<server, files, main, fetch, send, erase, auth, ui, view,
                 written, attempts, turns, withdrawn, crossed>>

(* The server knows its own ids only; to any other it answers 404, which   *)
(* the handler takes for done.  Likewise the log.                          *)
RevokeEnd(a) ==
  LET entry == revoke[a].entry
      log == without(main.sent, entry)
  IN  /\ revoke[a] # Null
      /\ outbox' = [outbox EXCEPT ![a] = without(@, entry)]
      /\ main' = [main EXCEPT !.sent = log]
      /\ files' = [files EXCEPT ![a].sent = log]
      /\ Show(revoke[a], [view EXCEPT !.sent = @ \ {entry}])
      /\ withdrawn' = withdrawn \cup
           {[text |-> entry.text, id |-> entry.id,
             unread |-> entry.text \notin delivered]}
      /\ revoke' = [revoke EXCEPT ![a] = Null]
      /\ UNCHANGED <<registered, mailbox, delivered, arrived, fetch, send,
                     erase, auth, ui, counters, crossed>>

---------------------------------------------------------------------------
(* The remote user, through the server.                                    *)

HasRead(a) == \E t \in delivered : t.from = a

(* Its first message begins a session, unless it has read one of a.        *)
RemoteWrites(a) ==
  LET begins == arrived[a] = 0 /\ ~HasRead(a)
  IN  /\ registered[a] # Null
      /\ arrived[a] < Incoming[a]
      /\ begins => written[a] = 0
      /\ mailbox' = [mailbox EXCEPT ![a] = @ \cup
                       {[to |-> a, n |-> arrived[a], x3dh |-> begins]}]
      /\ arrived' = [arrived EXCEPT ![a] = @ + 1]
      /\ UNCHANGED <<registered, outbox, delivered, files, main, handlers, auth,
                     ui, view, counters, withdrawn, crossed>>

(* The remote client fetches a text, shows it and deletes it.              *)
RemoteReads(a) ==
  /\ \E text \in outbox[a] :
       /\ outbox' = [outbox EXCEPT ![a] = @ \ {text}]
       /\ delivered' = delivered \cup {text}
  /\ UNCHANGED <<registered, mailbox, arrived, files, main, handlers, auth, ui,
                 view, counters, withdrawn, crossed>>

---------------------------------------------------------------------------
Next ==
  \/ WriteSalt \/ RegisterAnswer \/ Login \/ Logout \/ Quit
  \/ ShowReceivedLog \/ PollNobody \/ ShowSentLog
  \/ \E a \in Accounts :
       \/ Register(a) \/ SignIn(a)
       \/ Poll(a) \/ OpkDeleted(a) \/ FetchEnd(a)
       \/ Send(a) \/ SendWithBundle(a)
       \/ StartErase(a) \/ EraseEnd(a) \/ StartRevoke(a) \/ RevokeEnd(a)
       \/ RemoteWrites(a) \/ RemoteReads(a)

Spec == Init /\ [][Next]_vars

(* The timer of ChatApp polls, a handler under way goes on, and its calls  *)
(* are answered.  Nothing is assumed of the users.                         *)
Fairness ==
  /\ WF_vars(ShowReceivedLog) /\ WF_vars(PollNobody) /\ WF_vars(ShowSentLog)
  /\ \A a \in Accounts :
       WF_vars(Poll(a)) /\ WF_vars(OpkDeleted(a)) /\ WF_vars(FetchEnd(a))

FairSpec == Spec /\ Fairness

---------------------------------------------------------------------------
(* Properties.                                                             *)

Entry == [text : Text, id : {"server", "random"}]
IsState(st) == st = Null \/ st \in State

(* The variables have their types, and main and user interface agree on    *)
(* who is logged in: a chat is open for the user of the last login, or, in *)
(* a program that was started again, for one whom main does not know.      *)
TypeOK ==
  /\ registered \in [Accounts -> Nat \cup {Null}]
  /\ \A a \in Accounts :
       /\ mailbox[a] \subseteq Message /\ outbox[a] \subseteq Text
       /\ {files[a].keys, files[a].salt} \subseteq Nat \cup {Null}
       /\ IsState(files[a].sessions)
       /\ files[a].received \subseteq Message /\ files[a].sent \subseteq Text
       /\ fetch[a].pc \in {"idle", "opk", "delete"}
       /\ fetch[a].queue \subseteq Message
  /\ main.user \in Accounts \cup {Null} /\ IsState(main.sessions)
  /\ main.received \subseteq Message /\ main.sent \subseteq Text
  /\ view.received \subseteq Message /\ view.sent \subseteq Entry
  /\ ui # Null => main.user \in {ui, Null}
  /\ (ui = Null) = (view.stage = "none")

(* What main.js keeps for a user on disk is that user's own: ratchet states*)
(* and both logs.  It holds as long as no login comes while a handler of   *)
(* another account awaits; then the handler goes on with the globals of    *)
(* the one and saves them under the name and key of the other.  A handler  *)
(* that awaits its DELETEs only does no harm.                              *)
FilesApart ==
  "other" \notin crossed => \A a \in Accounts :
    /\ files[a].sessions # Null => files[a].sessions.of = a
    /\ \A m \in files[a].received : m.to = a
    /\ \A t \in files[a].sent : t.from = a

(* While a user is logged in, the files are what memory has: nothing that  *)
(* the handlers of this or of earlier logins did is lost by a restart.     *)
MemoryIsOnDisk ==
  "other" \notin crossed /\ ui # Null /\ main.user = ui =>
    /\ files[ui].sessions = main.sessions
    /\ files[ui].received = main.received
    /\ files[ui].sent = main.sent

(* An account that was registered once has the keys on disk that the server*)
(* hands out for it, and the salt to open them, whatever answer was lost   *)
(* and whenever the program ended.  A registration that is tried again     *)
(* overwrites them before the server can refuse it.                        *)
KeysFit == \A a \in Accounts :
  registered[a] # Null /\ registered[a] = attempts[a] =>
    files[a].keys = registered[a] /\ files[a].salt = registered[a]

(* The lists of an open chat are the logs, each sent text shown once, but  *)
(* for sent texts that were taken off the list and are still in the log,   *)
(* since the id they were shown under is not the server's.                 *)
ViewMatchesLog ==
  LET a == ui
      shown == {e.text : e \in view.sent}
  IN  /\ crossed = {}
      /\ view.stage = "open" /\ main.user = ui
      /\ fetch[a].pc = "idle"
      => /\ view.received = main.received
         /\ Cardinality(view.sent) = Cardinality(shown)
         /\ shown \subseteq main.sent
         /\ \A t \in main.sent \ shown :
              \E w \in withdrawn : w.text = t /\ w.id = "random"

(* A text that its writer revoked under the server's id before it was read *)
(* is never read, and comes back into no log.                              *)
RevokedStaysGone ==
  "other" \notin crossed => \A w \in withdrawn : w.id = "server" =>
    /\ w.unread => w.text \notin delivered \cup outbox[w.text.from]
    /\ w.text \notin main.sent \cup files[w.text.from].sent

(* A message in the mailbox of the user who is logged in is shown at last, *)
(* unless the user logs out or the program ends, or a login has crossed a  *)
(* handler, which may have taken the message to where no one looks.        *)
EventuallyShown == \A a \in Accounts : \A n \in 0..(Incoming[a] - 1) :
  (\E m \in mailbox[a] : m.n = n) /\ ui = a /\ main.user = a /\ Fits(a)
    ~> \/ \E m \in view.received : m.to = a /\ m.n = n
       \/ ui # a \/ main.user # a \/ crossed # {}

(* main.js:182 keeps the server's id "so the sender can revoke later", and *)
(* main.js:215 takes a 404 for "already delivered": a text that was revoked*)
(* before it was read is not read afterwards.                              *)
RevokedBeforeRead == \A w \in withdrawn : w.unread => w.text \notin delivered
============================================================================
