--------------------------- MODULE Desktop_proofs ---------------------------
(***************************************************************************)
(* What Desktop promises for any number of accounts, messages, logins and  *)
(* registrations.  The parts of the invariant come in the order in which   *)
(* they rest on each other: the types; who is logged in and whose handlers *)
(* may still change the globals; the keys; the files; the texts; the view. *)
(***************************************************************************)
EXTENDS Desktop, FiniteSetTheorems, TLAPS

(* The types of the records, in full.                                      *)
Files == [keys : Nat \cup {Null}, salt : Nat \cup {Null},
          sessions : State \cup {Null},
          received : SUBSET Message, sent : SUBSET Text]
Globals == [user : Accounts \cup {Null}, sessions : State \cup {Null},
            received : SUBSET Message, sent : SUBSET Text]
Fetch == [pc : {"idle", "opk", "delete"}, queue : SUBSET Message, mine : BOOLEAN]
Withdrawal == [text : Text, id : {"server", "random"}, unread : BOOLEAN]
View == [stage : {"none", "history", "poll", "sent", "open"},
         received : SUBSET Message, sent : SUBSET Entry]

Types ==
  /\ registered \in [Accounts -> Nat \cup {Null}]
  /\ mailbox \in [Accounts -> SUBSET Message]
  /\ outbox \in [Accounts -> SUBSET Text]
  /\ files \in [Accounts -> Files]
  /\ main \in Globals
  /\ fetch \in [Accounts -> Fetch]
  /\ send \in [Accounts -> [text : Text, mine : BOOLEAN] \cup {Null}]
  /\ erase \in [Accounts -> [message : Message, mine : BOOLEAN] \cup {Null}]
  /\ revoke \in [Accounts -> [entry : Entry, mine : BOOLEAN] \cup {Null}]
  /\ auth \in [pc : {"salt", "post", "login"}, of : Accounts] \cup {Null}
  /\ ui \in Accounts \cup {Null}
  /\ view \in View
  /\ arrived \in [Accounts -> Nat]
  /\ written \in [Accounts -> Nat]
  /\ attempts \in [Accounts -> Nat]
  /\ delivered \subseteq Text
  /\ withdrawn \subseteq Withdrawal

(* Who is logged in.  The handlers that will show their answers are those  *)
(* of the user whose chat is open; and unless a login has come in between, *)
(* a handler that awaits goes on under the account it began with.          *)
Mine(a) ==
  \/ fetch[a].mine
  \/ send[a] # Null /\ send[a].mine
  \/ erase[a] # Null /\ erase[a].mine
  \/ revoke[a] # Null /\ revoke[a].mine

LoginOK ==
  /\ ui # Null => auth = Null /\ main.user \in {ui, Null}
  /\ (ui = Null) = (view.stage = "none")
  /\ \A a \in Accounts :
       /\ Mine(a) => ui = a /\ main.user = a
       /\ fetch[a].mine => view.stage # "history" /\ fetch[a].pc # "idle"
       /\ "other" \notin crossed /\ Awaits(a) => main.user = a

(* A registration that has begun leaves the keys of the last one behind,   *)
(* and the salt follows before the server hears of them.                   *)
KeysOK == \A a \in Accounts :
  /\ registered[a] # Null => registered[a] <= attempts[a]
  /\ auth # Null /\ auth.pc \in {"salt", "post"} /\ auth.of = a =>
       /\ files[a].keys = attempts[a]
       /\ auth.pc = "post" => files[a].salt = attempts[a]
       /\ registered[a] # Null => registered[a] < attempts[a]
  /\ registered[a] # Null /\ registered[a] = attempts[a] =>
       files[a].keys = registered[a] /\ files[a].salt = registered[a]

(* What travels belongs to the account it travels for, and without crossed *)
(* logins so does what is stored.                                          *)
OwnersOK ==
  /\ \A a \in Accounts :
       /\ \A m \in mailbox[a] \cup fetch[a].queue : m.to = a
       /\ \A t \in outbox[a] : t.from = a
       /\ send[a] # Null => send[a].text.from = a
  /\ "other" \notin crossed => \A a \in Accounts :
       /\ files[a].sessions # Null => files[a].sessions.of = a
       /\ \A m \in files[a].received : m.to = a
       /\ \A t \in files[a].sent : t.from = a
  /\ "other" \notin crossed =>
       /\ main.sessions # Null => main.sessions.of = main.user
       /\ \A m \in main.received : m.to = main.user
       /\ \A t \in main.sent : t.from = main.user

(* The texts that are anywhere but in a msg:send that awaits its bundle.   *)
Known(t) ==
  \/ t \in delivered \cup main.sent
  \/ \E a \in Accounts : t \in outbox[a] \cup files[a].sent
  \/ \E e \in view.sent : e.text = t
  \/ \E w \in withdrawn : w.text = t
  \/ \E a \in Accounts : revoke[a] # Null /\ revoke[a].entry.text = t

(* A text is new when it is written.                                       *)
TextsOK ==
  /\ \A t \in Text : Known(t) => t.n < written[t.from]
  /\ \A a \in Accounts : send[a] # Null =>
       send[a].text.n < written[a] /\ ~Known(send[a].text)

(* The texts shown are the user's, and those being revoked were shown.     *)
EntriesOK == "other" \notin crossed =>
  /\ \A e \in view.sent : e.text.from = ui
  /\ \A a \in Accounts : revoke[a] # Null => revoke[a].entry.text.from = a

(* The user's own handlers, in a program that has not crossed a login.     *)
Calm(a) == crossed = {} /\ ui = a /\ main.user = a

Log(a) ==
  files[a].received \cup (IF main.user = a THEN main.received ELSE {})

(* The messages fetched whose DELETEs are not answered yet: logged, and    *)
(* about to be shown.                                                      *)
Coming(a) ==
  IF fetch[a].pc = "delete" /\ fetch[a].mine THEN fetch[a].queue ELSE {}

(* A message that is anywhere was written.                                 *)
ArrivedOK ==
  /\ \A m \in main.received : m.n < arrived[m.to]
  /\ \A a \in Accounts :
       \A m \in mailbox[a] \cup files[a].received \cup fetch[a].queue :
         m.n < arrived[m.to]

(* No message is logged before it has left the mailbox for good, unless    *)
(* its DELETE is under way.                                                *)
MailboxOK == crossed = {} => \A a \in Accounts :
  /\ \A m \in mailbox[a] \cap Log(a) :
       fetch[a].pc = "delete" /\ m \in fetch[a].queue
  /\ fetch[a].pc = "opk" => fetch[a].queue \cap Log(a) = {}

(* What is shown and what is coming make up the log.                       *)
ReceivedViewOK == \A a \in Accounts : Calm(a) =>
  /\ fetch[a].pc = "opk" => fetch[a].mine
  /\ erase[a] # Null => erase[a].mine /\ erase[a].message \in view.received
  /\ view.stage = "history" => view.received = {}
  /\ view.stage # "history" =>
       /\ view.received \cup Coming(a) = main.received
       /\ view.received \cap Coming(a) = {}

(* What is shown of the sent log, each text once, and what is not shown    *)
(* was taken off the list under an id that is not the server's.            *)
SentViewOK == \A a \in Accounts : Calm(a) =>
  /\ send[a] # Null => send[a].mine
  /\ revoke[a] # Null =>
       /\ revoke[a].mine
       /\ revoke[a].entry.id = "server" => revoke[a].entry \in view.sent
  /\ \A e \in view.sent : e.text \in main.sent
  /\ \A e, f \in view.sent : e.text = f.text => e = f
  /\ view.stage # "open" => \A e \in view.sent : e.id = "random"
  /\ view.stage = "open" => \A t \in main.sent :
       \/ \E e \in view.sent : e.text = t
       \/ \E w \in withdrawn : w.text = t /\ w.id = "random"

---------------------------------------------------------------------------
(* Types.                                                                  *)

(* The constants a new state is made of have their types.                  *)
LEMMA Constants ==
  /\ NoFiles \in Files /\ NoUser \in Globals /\ NoView \in View
  /\ Mounted \in View /\ Idle \in Fetch
BY DEF NoFiles, Files, NoUser, Globals, NoView, View, Mounted, Idle, Fetch

(* A handler that ends shows a well-typed view.                            *)
LEMMA ShowType ==
  ASSUME NEW handler, NEW change \in View, view \in View, Show(handler, change)
  PROVE  view' \in View
BY DEF Show

(* Any of an account's files may be written alone, or two together.        *)
LEMMA FileTypes ==
  ASSUME files \in [Accounts -> Files], NEW a \in Accounts,
         NEW keys \in Nat, NEW state \in State \cup {Null},
         NEW received \in SUBSET Message, NEW sent \in SUBSET Text
  PROVE  /\ [files EXCEPT ![a].keys = keys] \in [Accounts -> Files]
         /\ [files EXCEPT ![a].received = received] \in [Accounts -> Files]
         /\ [files EXCEPT ![a].sent = sent] \in [Accounts -> Files]
         /\ [files EXCEPT ![a].sessions = state, ![a].received = received]
              \in [Accounts -> Files]
         /\ [files EXCEPT ![a].sent = sent, ![a].sessions = state]
              \in [Accounts -> Files]
BY DEF Files

(* The same of the globals.                                                *)
LEMMA GlobalTypes ==
  ASSUME main \in Globals, NEW state \in State \cup {Null},
         NEW received \in SUBSET Message, NEW sent \in SUBSET Text
  PROVE  /\ [main EXCEPT !.received = received] \in Globals
         /\ [main EXCEPT !.sent = sent] \in Globals
         /\ [main EXCEPT !.sessions = state, !.received = received] \in Globals
         /\ [main EXCEPT !.sent = sent, !.sessions = state] \in Globals
BY DEF Globals

(* Store writes what it is given.                                          *)
LEMMA StoreType ==
  ASSUME Types, NEW a \in Accounts, NEW opened \in SUBSET Message,
         NEW mine \in BOOLEAN, NEW state \in State \cup {Null},
         Store(a, opened, mine, state)
  PROVE  /\ main' \in Globals
         /\ files' \in [Accounts -> Files]
         /\ fetch' \in [Accounts -> Fetch]
<1> DEFINE fresh == opened \ main.received
           log == main.received \cup fresh
           saved == IF fresh = {} THEN files[a].received ELSE log
<1>1. log \in SUBSET Message /\ saved \in SUBSET Message
  BY DEF Types, Globals, Files
<1>2. main' = [main EXCEPT !.sessions = state, !.received = log]
  BY DEF Store
<1>3. files' = [files EXCEPT ![a].sessions = state, ![a].received = saved]
  BY DEF Types, Files, Store
<1>4. fetch' \in [Accounts -> Fetch]
  BY DEF Types, Store, Fetch
<1> HIDE DEF log, saved
<1> QED
  BY <1>1, <1>2, <1>3, <1>4, FileTypes, GlobalTypes DEF Types

(* So does Transmit.                                                       *)
LEMMA TransmitType ==
  ASSUME Types, NEW a \in Accounts, NEW text \in Text,
         NEW state \in State \cup {Null}, NEW handler,
         Transmit(a, text, state, handler)
  PROVE  /\ outbox' \in [Accounts -> SUBSET Text]
         /\ main' \in Globals
         /\ files' \in [Accounts -> Files]
         /\ view' \in View
<1> DEFINE log == main.sent \cup {text}
<1>1. [view EXCEPT !.sent = @ \cup {[text |-> text, id |-> "random"]}] \in View
  BY DEF Types, View, Entry
<1>2. view' \in View
  BY <1>1, ShowType DEF Transmit, Types
<1>3. outbox' \in [Accounts -> SUBSET Text] /\ log \in SUBSET Text
  BY DEF Types, Transmit, Globals
<1>4. /\ main' = [main EXCEPT !.sent = log, !.sessions = state]
      /\ files' = [files EXCEPT ![a].sent = log, ![a].sessions = state]
  BY DEF Transmit
<1> HIDE DEF log
<1>5. main' \in Globals
  BY <1>3, <1>4, GlobalTypes DEF Types
<1>6. files' \in [Accounts -> Files]
  <2>1. /\ files \in [Accounts -> Files] /\ {} \in SUBSET Message
        /\ log \in SUBSET Text /\ 0 \in Nat
    BY <1>3 DEF Types
  <2>2. [files EXCEPT ![a].sent = log, ![a].sessions = state] \in [Accounts -> Files]
    BY <2>1, FileTypes, Zenon
  <2> QED
    BY <1>4, <2>2
<1> QED
  BY <1>2, <1>3, <1>5, <1>6

(* The handlers that go on without ChatApp keep their types.               *)
LEMMA UnmountType ==
  ASSUME Types, Unmount
  PROVE  /\ fetch' \in [Accounts -> Fetch]
         /\ send' \in [Accounts -> [text : Text, mine : BOOLEAN] \cup {Null}]
         /\ erase' \in [Accounts -> [message : Message, mine : BOOLEAN] \cup {Null}]
         /\ revoke' \in [Accounts -> [entry : Entry, mine : BOOLEAN] \cup {Null}]
BY DEF Types, Unmount, Fetch

(* The text and the message that are written next.                         *)
LEMMA NextText ==
  ASSUME Types, NEW a \in Accounts, written[a] < Outgoing[a]
  PROVE  [from |-> a, n |-> written[a]] \in Text
<1>1. written[a] \in 0..(Outgoing[a] - 1)
  BY DesktopAssumption DEF Types
<1> QED
  BY <1>1 DEF Text

(* The remote user numbers its messages as far as the bound.               *)
LEMMA NextMessage ==
  ASSUME Types, NEW a \in Accounts, arrived[a] < Incoming[a], NEW x3dh \in BOOLEAN
  PROVE  [to |-> a, n |-> arrived[a], x3dh |-> x3dh] \in Message
<1>1. arrived[a] \in 0..(Incoming[a] - 1)
  BY DesktopAssumption DEF Types
<1> QED
  BY <1>1 DEF Message

(* The types are kept by every step.                                       *)
LEMMA TypesNext == ASSUME Types, Next PROVE Types'
<1> USE DEF Types
<1>1. CASE WriteSalt
  BY <1>1 DEF WriteSalt, localSalt, NoFiles, Files, server, handlers, counters
<1>2. CASE RegisterAnswer
  BY <1>2 DEF RegisterAnswer, handlers, counters
<1>3. CASE Login
  <2>1. auth.of \in Accounts /\ globals(auth.of) \in Globals
    BY <1>3 DEF Login, globals, Globals, Files
  <2>2. ui' \in Accounts \cup {Null} /\ view' \in View /\ main' \in Globals
    BY <1>3, <2>1, Constants DEF Login, open
  <2> QED
    BY <1>3, <2>2 DEF Login, server, handlers
<1>4. CASE Logout
  BY <1>4, UnmountType, Constants DEF Logout, server, counters
<1>5. CASE Quit
  <2>1. outbox' \in [Accounts -> SUBSET Text]
    BY <1>5 DEF Quit, without
  <2> QED
    BY <1>5, <2>1, Constants DEF Quit
<1>6. CASE ShowReceivedLog
  BY <1>6 DEF ShowReceivedLog, View, Globals, server, handlers, counters
<1>7. CASE PollNobody
  BY <1>7 DEF PollNobody, View, server, handlers, counters
<1>8. CASE ShowSentLog
  <2>1. {[text |-> t, id |-> "server"] : t \in main.sent} \in SUBSET Entry
    BY DEF Globals, Entry
  <2>2. view' \in View
    BY <1>8, <2>1 DEF ShowSentLog, View
  <2> QED
    BY <1>8, <2>2 DEF ShowSentLog, server, handlers, counters
<1>9. ASSUME NEW a \in Accounts, Register(a) PROVE Types'
  <2> DEFINE g == attempts[a] + 1
  <2>1. g \in Nat /\ attempts' = [attempts EXCEPT ![a] = g]
    BY <1>9 DEF Register
  <2>2. files' = [files EXCEPT ![a].keys = g]
    BY <1>9 DEF Register
  <2> HIDE DEF g
  <2>3. files' \in [Accounts -> Files]
    BY <2>1, <2>2, FileTypes
  <2> QED
    BY <1>9, <2>1, <2>3 DEF Register, server, handlers
<1>10. ASSUME NEW a \in Accounts, SignIn(a) PROVE Types'
  BY <1>10 DEF SignIn, server, handlers, counters
<1>11. ASSUME NEW a \in Accounts, Poll(a) PROVE Types'
  <2> DEFINE queue == mailbox[a]
             state == main.sessions
             opened == IF state # Null /\ state.of = a
                       THEN {m \in queue : ~m.x3dh} ELSE {}
             kept == IF opened = {} THEN state ELSE [state EXCEPT !.named = TRUE]
  <2>1. queue \in SUBSET Message /\ opened \in SUBSET Message
    OBVIOUS
  <2>2. kept \in State \cup {Null}
    BY DEF Globals, State
  <2>3. CASE Store(a, opened, TRUE, kept)
    <3>1. /\ main' \in Globals /\ files' \in [Accounts -> Files]
          /\ fetch' \in [Accounts -> Fetch]
      BY <2>1, <2>2, <2>3, StoreType
    <3> QED
      BY <1>11, <3>1 DEF Poll, server, counters
  <2>4. CASE /\ fetch' = [fetch EXCEPT ![a] =
                             [pc |-> "opk", queue |-> queue, mine |-> TRUE]]
             /\ UNCHANGED <<main, files>>
    BY <1>11, <2>1, <2>4 DEF Poll, Fetch, server, counters
  <2> QED
    BY <1>11, <2>3, <2>4 DEF Poll
<1>12. ASSUME NEW a \in Accounts, OpkDeleted(a) PROVE Types'
  <2>1. \E opened \in SUBSET Message, mine \in BOOLEAN, state \in State \cup {Null} :
          Store(a, opened, mine, state)
    <3>1. /\ fetch[a].queue \in SUBSET Message /\ fetch[a].mine \in BOOLEAN
          /\ main.sessions \in State \cup {Null}
      BY DEF Fetch, Globals
    <3>2. [of |-> a, named |-> TRUE] \in State /\ {} \in SUBSET Message
      BY DEF State
    <3> QED
      BY <1>12, <3>1, <3>2 DEF OpkDeleted
  <2>2. /\ main' \in Globals /\ files' \in [Accounts -> Files]
        /\ fetch' \in [Accounts -> Fetch]
    BY <2>1, StoreType
  <2> QED
    BY <1>12, <2>2 DEF OpkDeleted, server, counters
<1>13. ASSUME NEW a \in Accounts, FetchEnd(a) PROVE Types'
  <2>1. view' \in View
    BY <1>13 DEF FetchEnd, Show, View, merged, Fetch
  <2> QED
    BY <1>13, <2>1, Constants DEF FetchEnd, counters
<1>14. ASSUME NEW a \in Accounts, Send(a) PROVE Types'
  <2>1. [from |-> a, n |-> written[a]] \in Text
    BY <1>14, NextText DEF Send
  <2>2. main.sessions \in State \cup {Null}
    BY DEF Globals
  <2>3. written' \in [Accounts -> Nat]
    BY <1>14 DEF Send
  <2> DEFINE text == [from |-> a, n |-> written[a]]
             now == [text |-> text, mine |-> TRUE]
  <2>4. CASE Transmit(a, text, main.sessions, now) /\ UNCHANGED send
    <3>1. /\ outbox' \in [Accounts -> SUBSET Text] /\ main' \in Globals
          /\ files' \in [Accounts -> Files] /\ view' \in View
      BY <2>1, <2>2, <2>4, TransmitType
    <3> HIDE DEF text, now
    <3> QED
      BY <2>3, <2>4, <3>1 DEF Transmit
  <2>5. CASE /\ send' = [send EXCEPT ![a] = now]
             /\ UNCHANGED <<server, files, main, fetch, erase, revoke, auth,
                            ui, view, attempts, turns, removals, withdrawn,
                            crossed>>
    BY <2>1, <2>3, <2>5 DEF server
  <2> QED
    BY <1>14, <2>4, <2>5 DEF Send
<1>15. ASSUME NEW a \in Accounts, SendWithBundle(a) PROVE Types'
  <2> DEFINE state == IF main.sessions = Null THEN [of |-> a, named |-> FALSE]
                      ELSE [main.sessions EXCEPT !.named = FALSE]
  <2>1. state \in State
    BY DEF Globals, State
  <2>2. send[a].text \in Text
    BY <1>15 DEF SendWithBundle
  <2>3. Transmit(a, send[a].text, state, send[a])
    BY <1>15 DEF SendWithBundle
  <2>4. /\ outbox' \in [Accounts -> SUBSET Text] /\ main' \in Globals
        /\ files' \in [Accounts -> Files] /\ view' \in View
    BY <2>1, <2>2, <2>3, TransmitType
  <2> HIDE DEF state
  <2> QED
    BY <1>15, <2>3, <2>4 DEF SendWithBundle, Transmit
<1>16. ASSUME NEW a \in Accounts, StartErase(a) PROVE Types'
  BY <1>16 DEF StartErase, View, server
<1>17. ASSUME NEW a \in Accounts, EraseEnd(a) PROVE Types'
  <2> DEFINE log == main.received \ {erase[a].message}
  <2>1. log \in SUBSET Message
    BY DEF Globals
  <2>2. view' \in View
    BY <1>17 DEF EraseEnd, Show, View
  <2>3. main' \in Globals /\ files' \in [Accounts -> Files]
    BY <1>17, <2>1, FileTypes, GlobalTypes DEF EraseEnd, saveReceivedLog
  <2> QED
    BY <1>17, <2>2, <2>3 DEF EraseEnd, counters
<1>18. ASSUME NEW a \in Accounts, StartRevoke(a) PROVE Types'
  BY <1>18 DEF StartRevoke, View, server
<1>19. ASSUME NEW a \in Accounts, RevokeEnd(a) PROVE Types'
  <2>1. revoke[a].entry \in Entry
    BY <1>19 DEF RevokeEnd
  <2>2. withdrawn' \subseteq Withdrawal
    <3>1. [text |-> revoke[a].entry.text, id |-> revoke[a].entry.id,
           unread |-> revoke[a].entry.text \notin delivered] \in Withdrawal
      BY <2>1 DEF Withdrawal, Entry
    <3> QED
      BY <1>19, <3>1 DEF RevokeEnd
  <2>3. main' \in Globals /\ files' \in [Accounts -> Files]
    <3> DEFINE log == without(main.sent, revoke[a].entry)
    <3>1. log \in SUBSET Text
      BY DEF Globals, without
    <3>2. /\ main' = [main EXCEPT !.sent = log]
          /\ files' = [files EXCEPT ![a].sent = log]
      BY <1>19 DEF RevokeEnd
    <3> HIDE DEF log
    <3>3. main' \in Globals
      BY <3>1, <3>2, GlobalTypes
    <3>4. files' \in [Accounts -> Files]
      BY <3>1, <3>2, FileTypes
    <3> QED
      BY <3>3, <3>4
  <2>4. view' \in View
    BY <1>19 DEF RevokeEnd, Show, View
  <2>5. outbox' \in [Accounts -> SUBSET Text]
    BY <1>19 DEF RevokeEnd, without
  <2> QED
    BY <1>19, <2>2, <2>3, <2>4, <2>5 DEF RevokeEnd, counters
<1>20. ASSUME NEW a \in Accounts, RemoteWrites(a) PROVE Types'
  <2> DEFINE begins == arrived[a] = 0 /\ ~HasRead(a)
             m == [to |-> a, n |-> arrived[a], x3dh |-> begins]
  <2>1. m \in Message
    BY <1>20, NextMessage DEF RemoteWrites
  <2>2. mailbox' = [mailbox EXCEPT ![a] = @ \cup {m}]
    BY <1>20 DEF RemoteWrites
  <2> HIDE DEF m
  <2> QED
    BY <1>20, <2>1, <2>2 DEF RemoteWrites, handlers, counters
<1>21. ASSUME NEW a \in Accounts, RemoteReads(a) PROVE Types'
  BY <1>21 DEF RemoteReads, handlers, counters
<1> QED
  BY <1>1, <1>2, <1>3, <1>4, <1>5, <1>6, <1>7, <1>8, <1>9, <1>10, <1>11, <1>12,
     <1>13, <1>14, <1>15, <1>16, <1>17, <1>18, <1>19, <1>20, <1>21 DEF Next

(* The types hold at all times.                                            *)
LEMMA TypesInvariance == Spec => []Types
<1>1. Init => Types
  BY Constants DEF Init, Types
<1>2. Types /\ [Next]_vars => Types'
  BY TypesNext DEF Types, vars, server, handlers, counters
<1> QED
  BY <1>1, <1>2, PTL DEF Spec

---------------------------------------------------------------------------
(* What the parts that handlers share change, field by field.              *)

(* Store adds what opened to the globals.                                  *)
LEMMA StoreGlobals ==
  ASSUME Types, NEW a \in Accounts, NEW opened, NEW mine, NEW state,
         Store(a, opened, mine, state)
  PROVE  /\ main'.user = main.user /\ main'.sessions = state
         /\ main'.received = main.received \cup opened
         /\ main'.sent = main.sent
<1> DEFINE log == main.received \cup (opened \ main.received)
<1>1. log = main.received \cup opened
  BY DEF Types, Globals
<1>2. main' = [main EXCEPT !.sessions = state, !.received = log]
  BY DEF Store
<1> HIDE DEF log
<1> QED
  BY <1>1, <1>2 DEF Types, Globals

(* It writes the files of one account only.                                *)
LEMMA StoreFiles ==
  ASSUME Types, NEW a \in Accounts, NEW opened, NEW mine, NEW state,
         Store(a, opened, mine, state)
  PROVE  /\ files'[a].keys = files[a].keys /\ files'[a].salt = files[a].salt
         /\ files'[a].sessions = state /\ files'[a].sent = files[a].sent
         /\ \A b \in Accounts \ {a} : files'[b] = files[b]
<1> DEFINE log == main.received \cup (opened \ main.received)
           saved == IF opened \ main.received = {} THEN files[a].received ELSE log
<1>1. files' = [files EXCEPT ![a].sessions = state, ![a].received = saved]
  BY DEF Types, Files, Store
<1> HIDE DEF saved
<1> QED
  BY <1>1 DEF Types, Files

(* That account's received log is written if something is new.             *)
LEMMA StoreReceived ==
  ASSUME Types, NEW a \in Accounts, NEW opened, NEW mine, NEW state,
         Store(a, opened, mine, state)
  PROVE  files'[a].received =
           IF opened \subseteq main.received THEN files[a].received
           ELSE main.received \cup opened
<1> DEFINE log == main.received \cup (opened \ main.received)
           saved == IF opened \ main.received = {} THEN files[a].received ELSE log
<1>1. files' = [files EXCEPT ![a].sessions = state, ![a].received = saved]
  BY DEF Types, Files, Store
<1>2. saved = IF opened \subseteq main.received THEN files[a].received
              ELSE main.received \cup opened
  OBVIOUS
<1> HIDE DEF saved
<1> QED
  BY <1>1, <1>2 DEF Types, Files

(* What opened is to be deleted on the server.                             *)
LEMMA StoreFetch ==
  ASSUME Types, NEW a \in Accounts, NEW opened, NEW mine, NEW state,
         Store(a, opened, mine, state)
  PROVE  /\ fetch'[a].pc = "delete" /\ fetch'[a].queue = opened
         /\ \A b \in Accounts \ {a} : fetch'[b] = fetch[b]
BY DEF Types, Store

(* Transmit adds one text to the sent log in memory ...                    *)
LEMMA TransmitGlobals ==
  ASSUME Types, NEW a \in Accounts, NEW text, NEW state, NEW handler,
         Transmit(a, text, state, handler)
  PROVE  /\ main'.user = main.user /\ main'.sessions = state
         /\ main'.received = main.received
         /\ main'.sent = main.sent \cup {text}
BY DEF Transmit, Types, Globals

(* ... and writes that log under one account ...                           *)
LEMMA TransmitFiles ==
  ASSUME Types, NEW a \in Accounts, NEW text, NEW state, NEW handler,
         Transmit(a, text, state, handler)
  PROVE  /\ files'[a].keys = files[a].keys /\ files'[a].salt = files[a].salt
         /\ files'[a].sessions = state /\ files'[a].received = files[a].received
         /\ files'[a].sent = main.sent \cup {text}
         /\ \A b \in Accounts \ {a} : files'[b] = files[b]
<1> DEFINE log == main.sent \cup {text}
<1>1. files' = [files EXCEPT ![a].sent = log, ![a].sessions = state]
  BY DEF Transmit
<1> HIDE DEF log
<1>2. /\ files'[a].keys = files[a].keys /\ files'[a].salt = files[a].salt
      /\ files'[a].sessions = state /\ files'[a].received = files[a].received
      /\ files'[a].sent = log
      /\ \A b \in Accounts \ {a} : files'[b] = files[b]
  BY <1>1 DEF Types, Files
<1> QED
  BY <1>2 DEF log

(* ... posts the text ...                                                  *)
LEMMA TransmitOutbox ==
  ASSUME Types, NEW a \in Accounts, NEW text, NEW state, NEW handler,
         Transmit(a, text, state, handler)
  PROVE  /\ outbox'[a] = outbox[a] \cup {text}
         /\ \A b \in Accounts \ {a} : outbox'[b] = outbox[b]
BY DEF Transmit, Types

(* ... and shows it if the ChatApp that called is there.                   *)
LEMMA TransmitView ==
  ASSUME Types, NEW a \in Accounts, NEW text, NEW state, NEW handler,
         Transmit(a, text, state, handler)
  PROVE  /\ view'.stage = view.stage /\ view'.received = view.received
         /\ view'.sent = IF handler.mine
                         THEN view.sent \cup {[text |-> text, id |-> "random"]}
                         ELSE view.sent
<1> DEFINE entry == [text |-> text, id |-> "random"]
<1>1. view' = IF handler.mine THEN [view EXCEPT !.sent = @ \cup {entry}] ELSE view
  BY DEF Transmit, Show
<1> HIDE DEF entry
<1>2. /\ view'.stage = view.stage /\ view'.received = view.received
      /\ view'.sent = IF handler.mine THEN view.sent \cup {entry} ELSE view.sent
  BY <1>1 DEF Types, View
<1> QED
  BY <1>2 DEF entry

(* The state under which a poll stores is the one of the globals, but for  *)
(* the key it is filed under, or a new one of the account.                 *)
SameState(state, a) ==
  state # Null =>
    \/ state.of = a
    \/ main.sessions # Null /\ state.of = main.sessions.of

(* A poll goes on to await deleteConsumedOpk or stores messages of the     *)
(* mailbox at once.                                                        *)
LEMMA PollCases ==
  ASSUME Types, NEW a \in Accounts, Poll(a)
  PROVE  \/ /\ fetch' = [fetch EXCEPT ![a] =
                   [pc |-> "opk", queue |-> mailbox[a], mine |-> TRUE]]
            /\ UNCHANGED <<main, files>>
         \/ \E opened \in SUBSET Message, state \in State \cup {Null} :
              /\ Store(a, opened, TRUE, state) /\ opened \subseteq mailbox[a]
              /\ SameState(state, a)
<1> DEFINE queue == mailbox[a]
           state == main.sessions
           opened == IF state # Null /\ state.of = a
                     THEN {m \in queue : ~m.x3dh} ELSE {}
           kept == IF opened = {} THEN state ELSE [state EXCEPT !.named = TRUE]
<1>1. opened \in SUBSET Message /\ opened \subseteq mailbox[a]
  BY DEF Types
<1>2. kept \in State \cup {Null} /\ SameState(kept, a)
  BY DEF Types, Globals, State, SameState
<1>3. \/ Store(a, opened, TRUE, kept)
      \/ /\ fetch' = [fetch EXCEPT ![a] =
                          [pc |-> "opk", queue |-> mailbox[a], mine |-> TRUE]]
         /\ UNCHANGED <<main, files>>
  BY DEF Poll
<1> QED
  BY <1>1, <1>2, <1>3

(* After the await it stores what it fetched before, or nothing.           *)
LEMMA OpkDeletedCases ==
  ASSUME Types, NEW a \in Accounts, OpkDeleted(a)
  PROVE  \E opened \in SUBSET Message, state \in State \cup {Null} :
           /\ Store(a, opened, fetch[a].mine, state)
           /\ opened \subseteq fetch[a].queue
           /\ SameState(state, a)
<1>1. /\ [of |-> a, named |-> TRUE] \in State
      /\ SameState([of |-> a, named |-> TRUE], a)
  <2>1. [of |-> a, named |-> TRUE] \in State
    BY DEF State
  <2>2. [of |-> a, named |-> TRUE].of = a
    OBVIOUS
  <2> QED
    BY <2>1, <2>2 DEF SameState
<1>2. main.sessions \in State \cup {Null} /\ SameState(main.sessions, a)
  BY DEF Types, Globals, SameState
<1>3. fetch[a].queue \in SUBSET Message /\ {} \in SUBSET Message
  BY DEF Types, Fetch
<1> QED
  BY <1>1, <1>2, <1>3 DEF OpkDeleted

(* A text is sent at once or once the bundle has come.                     *)
LEMMA SendCases ==
  ASSUME Types, NEW a \in Accounts, Send(a),
         NEW text, text = [from |-> a, n |-> written[a]]
  PROVE  /\ text \in Text
         /\ written' = [written EXCEPT ![a] = @ + 1]
         /\ \/ /\ Transmit(a, text, main.sessions,
                           [text |-> text, mine |-> TRUE])
               /\ main.sessions \in State /\ UNCHANGED send
            \/ /\ send' = [send EXCEPT ![a] = [text |-> text, mine |-> TRUE]]
               /\ UNCHANGED <<server, files, main, fetch, erase, revoke, auth,
                              ui, view, attempts, turns, removals, withdrawn,
                              crossed>>
<1>1. text \in Text
  BY NextText DEF Send
<1> QED
  BY <1>1 DEF Send, Types, Globals

(* The text that awaited its bundle is sent, under a session of the        *)
(* account.                                                                *)
LEMMA SendWithBundleCases ==
  ASSUME Types, NEW a \in Accounts, SendWithBundle(a)
  PROVE  /\ send[a] # Null /\ send[a].text \in Text
         /\ \E state \in State :
              Transmit(a, send[a].text, state, send[a]) /\ SameState(state, a)
<1> DEFINE state == IF main.sessions = Null THEN [of |-> a, named |-> FALSE]
                    ELSE [main.sessions EXCEPT !.named = FALSE]
<1>1. state \in State
  BY DEF Types, Globals, State
<1>2. IF main.sessions = Null THEN state.of = a ELSE state.of = main.sessions.of
  BY DEF Types, Globals, State
<1>3. SameState(state, a)
  <2> HIDE DEF state
  <2> QED
    BY <1>2 DEF SameState
<1>4. send[a] # Null /\ Transmit(a, send[a].text, state, send[a])
  BY DEF SendWithBundle
<1>5. send[a].text \in Text
  BY <1>4 DEF Types
<1> QED
  BY <1>1, <1>3, <1>4, <1>5

(* A message is erased everywhere on the user's side.                      *)
LEMMA EraseEndGlobals ==
  ASSUME Types, NEW a \in Accounts, EraseEnd(a)
  PROVE  /\ main'.user = main.user /\ main'.sessions = main.sessions
         /\ main'.sent = main.sent
         /\ main'.received = main.received \ {erase[a].message}
         /\ erase[a] # Null /\ erase'[a] = Null
         /\ \A b \in Accounts \ {a} : erase'[b] = erase[b]
BY DEF EraseEnd, Types, Globals

(* It leaves the mailbox and one account's file.                           *)
LEMMA EraseEndFiles ==
  ASSUME Types, NEW a \in Accounts, EraseEnd(a)
  PROVE  /\ mailbox'[a] = mailbox[a] \ {erase[a].message}
         /\ files'[a].received = main.received \ {erase[a].message}
         /\ files'[a].sessions = files[a].sessions
         /\ files'[a].sent = files[a].sent
         /\ \A b \in Accounts \ {a} : mailbox'[b] = mailbox[b] /\ files'[b] = files[b]
<1> DEFINE log == main.received \ {erase[a].message}
<1>1. /\ files' = [files EXCEPT ![a].received = log]
      /\ mailbox' = [mailbox EXCEPT ![a] = @ \ {erase[a].message}]
  BY DEF EraseEnd, saveReceivedLog
<1> HIDE DEF log
<1>2. /\ files'[a].received = log
      /\ files'[a].sessions = files[a].sessions
      /\ files'[a].sent = files[a].sent
      /\ \A b \in Accounts \ {a} : files'[b] = files[b]
  BY <1>1 DEF Types, Files
<1> QED
  BY <1>1, <1>2 DEF Types, log

(* It leaves the list if the ChatApp that called is there.                 *)
LEMMA EraseEndView ==
  ASSUME Types, NEW a \in Accounts, EraseEnd(a)
  PROVE  /\ view'.stage = view.stage /\ view'.sent = view.sent
         /\ view'.received = IF erase[a].mine
                             THEN view.received \ {erase[a].message}
                             ELSE view.received
BY DEF EraseEnd, Show, Types, View

(* A text is taken back where its server id is known.                      *)
LEMMA RevokeEndGlobals ==
  ASSUME Types, NEW a \in Accounts, RevokeEnd(a)
  PROVE  /\ main'.user = main.user /\ main'.sessions = main.sessions
         /\ main'.received = main.received
         /\ main'.sent = without(main.sent, revoke[a].entry)
         /\ revoke[a] # Null /\ revoke'[a] = Null
         /\ \A b \in Accounts \ {a} : revoke'[b] = revoke[b]
BY DEF RevokeEnd, Types, Globals

(* The text leaves the outbox and one account's file.                      *)
LEMMA RevokeEndFiles ==
  ASSUME Types, NEW a \in Accounts, RevokeEnd(a)
  PROVE  /\ outbox'[a] = without(outbox[a], revoke[a].entry)
         /\ files'[a].sent = without(main.sent, revoke[a].entry)
         /\ files'[a].sessions = files[a].sessions
         /\ files'[a].received = files[a].received
         /\ \A b \in Accounts \ {a} : outbox'[b] = outbox[b] /\ files'[b] = files[b]
<1> DEFINE log == without(main.sent, revoke[a].entry)
           left == without(outbox[a], revoke[a].entry)
<1>1. files' = [files EXCEPT ![a].sent = log] /\ outbox' = [outbox EXCEPT ![a] = left]
  BY DEF RevokeEnd, Types
<1> HIDE DEF log, left
<1>2. /\ files'[a].sent = log
      /\ files'[a].sessions = files[a].sessions
      /\ files'[a].received = files[a].received
      /\ \A b \in Accounts \ {a} : files'[b] = files[b]
  BY <1>1 DEF Types, Files
<1> QED
  BY <1>1, <1>2 DEF Types, log, left

(* The entry leaves the list if the ChatApp that called is there.          *)
LEMMA RevokeEndView ==
  ASSUME Types, NEW a \in Accounts, RevokeEnd(a)
  PROVE  /\ view'.stage = view.stage /\ view'.received = view.received
         /\ view'.sent = IF revoke[a].mine THEN view.sent \ {revoke[a].entry}
                         ELSE view.sent
BY DEF RevokeEnd, Show, Types, View

---------------------------------------------------------------------------
(* Who is logged in.                                                       *)

(* A step that leaves the login alone and starts no handler but one of the *)
(* user logged in.                                                         *)
LEMMA SameLogin ==
  ASSUME Types, LoginOK, UNCHANGED <<ui, auth, crossed>>,
         main'.user = main.user,
         view'.stage \in {view.stage, "poll", "sent", "open"},
         view'.stage = "none" <=> view.stage = "none",
         \A a \in Accounts :
           /\ \/ fetch'[a] = fetch[a]
              \/ ~fetch'[a].mine
              \/ /\ fetch'[a].pc # "idle"
                 /\ fetch[a].mine \/ view'.stage # "history"
           /\ Mine(a)' => Mine(a) \/ (ui = a /\ main.user = a)
           /\ Awaits(a)' => Awaits(a) \/ main.user = a
  PROVE  LoginOK'
BY DEF LoginOK

(* Every step keeps main and user interface in agreement.                  *)
LEMMA LoginNext == ASSUME Types, LoginOK, Next PROVE LoginOK'
<1>1. CASE WriteSalt \/ RegisterAnswer
  BY <1>1
  DEF WriteSalt, RegisterAnswer, LoginOK, Mine, Awaits, handlers, counters
<1>2. CASE Login
  <2>1. CASE MayLogin(auth.of)
    <3>1. /\ ui = Null /\ auth # Null /\ auth.of \in Accounts
          /\ \A a \in Accounts : ~Mine(a)
      BY <1>2, DesktopAssumption DEF Login, LoginOK, Types
    <3>2. /\ ui' = auth.of /\ main'.user = auth.of /\ auth' = Null
          /\ view'.stage = "history" /\ UNCHANGED handlers
      BY <1>2, <2>1 DEF Login, open, globals, Mounted, NoView
    <3>3. ASSUME NEW a \in Accounts, Awaits(a), a # auth.of
          PROVE  "other" \in crossed'
      BY <1>2, <2>1, <3>3 DEF Login
    <3>4. \A a \in Accounts : Mine(a)' = Mine(a) /\ Awaits(a)' = Awaits(a)
      BY <3>2 DEF handlers, Mine, Awaits
    <3>5. \A a \in Accounts : ~fetch'[a].mine
      BY <3>1, <3>2 DEF handlers, Mine
    <3> QED
      BY <3>1, <3>2, <3>3, <3>4, <3>5, DesktopAssumption DEF LoginOK
  <2>2. CASE ~MayLogin(auth.of)
    <3>1. /\ UNCHANGED <<ui, view, main, handlers>> /\ auth' = Null
          /\ crossed' = crossed
      BY <1>2, <2>2 DEF Login, open
    <3> QED
      BY <3>1 DEF LoginOK, handlers, Mine, Awaits
  <2> QED
    BY <2>1, <2>2
<1>3. CASE Logout
  <2>1. \A a \in Accounts : ~Mine(a)' /\ ~fetch'[a].mine /\ (Awaits(a)' => Awaits(a))
    <3> SUFFICES ASSUME NEW a \in Accounts
                 PROVE  ~Mine(a)' /\ ~fetch'[a].mine /\ (Awaits(a)' => Awaits(a))
      OBVIOUS
    <3>1. fetch'[a].pc = fetch[a].pc /\ ~fetch'[a].mine
      BY <1>3 DEF Logout, Unmount, Types, Fetch
    <3>2. /\ send[a] = Null => send'[a] = Null
          /\ send[a] # Null => ~send'[a].mine
      BY <1>3 DEF Logout, Unmount, Types
    <3>3. /\ erase[a] = Null => erase'[a] = Null
          /\ erase[a] # Null => ~erase'[a].mine
      BY <1>3 DEF Logout, Unmount, Types
    <3>4. /\ revoke[a] = Null => revoke'[a] = Null
          /\ revoke[a] # Null => ~revoke'[a].mine
      BY <1>3 DEF Logout, Unmount, Types
    <3> QED
      BY <3>1, <3>2, <3>3, <3>4 DEF Mine, Awaits
  <2> QED
    BY <1>3, <2>1 DEF Logout, NoView, LoginOK
<1>4. CASE Quit
  <2>1. \A a \in Accounts : ~Awaits(a)'
    BY <1>4 DEF Quit, Awaits
  <2>2. \A a \in Accounts : fetch[a].mine => view.stage # "history"
    BY DEF LoginOK
  <2>3. \A a \in Accounts : Mine(a)' => fetch[a].mine
    BY <1>4 DEF Quit, Mine
  <2>4. /\ main'.user = Null /\ auth' = Null /\ ui' = ui /\ fetch' = fetch
        /\ view'.stage = IF ui = Null THEN "none" ELSE "history"
    BY <1>4 DEF Quit, NoUser, NoView, Mounted
  <2>5. \A a \in Accounts : ~fetch[a].mine
    BY <1>4 DEF Quit, LoginOK
  <2> QED
    BY <2>1, <2>3, <2>4, <2>5 DEF LoginOK
<1>5. CASE ShowReceivedLog \/ PollNobody \/ ShowSentLog
  <2>1. /\ view'.stage \in {"poll", "sent", "open"} /\ view.stage # "none"
        /\ UNCHANGED <<main, handlers, auth, ui, crossed>>
    BY <1>5 DEF ShowReceivedLog, PollNobody, ShowSentLog, Types, View
  <2> QED
    BY <2>1, SameLogin DEF handlers, Mine, Awaits
<1>6. ASSUME NEW a \in Accounts, Register(a) \/ SignIn(a) PROVE LoginOK'
  BY <1>6 DEF Register, SignIn, LoginOK, handlers, Mine, Awaits, counters
<1>7. ASSUME NEW a \in Accounts, Poll(a) PROVE LoginOK'
  <2>1. /\ ui = a /\ main.user = a /\ view.stage # "history"
        /\ UNCHANGED <<send, erase, revoke, auth, ui, view, crossed>>
    BY <1>7 DEF Poll, timeToPoll
  <2>2. /\ main'.user = main.user /\ fetch'[a].pc # "idle"
        /\ \A b \in Accounts \ {a} : fetch'[b] = fetch[b]
    <3>1. ASSUME NEW opened \in SUBSET Message, NEW state \in State \cup {Null},
                 Store(a, opened, TRUE, state)
          PROVE  /\ main'.user = main.user /\ fetch'[a].pc # "idle"
                 /\ \A b \in Accounts \ {a} : fetch'[b] = fetch[b]
      <4>1. /\ main'.user = main.user
            /\ fetch'[a].pc = "delete"
            /\ \A b \in Accounts \ {a} : fetch'[b] = fetch[b]
        BY <1>7, <3>1, StoreGlobals, StoreFiles, StoreFetch
      <4> QED
        BY <4>1
    <3>2. CASE /\ fetch' = [fetch EXCEPT ![a] =
                      [pc |-> "opk", queue |-> mailbox[a], mine |-> TRUE]]
               /\ UNCHANGED <<main, files>>
      BY <3>2 DEF Types
    <3> QED
      BY <1>7, <3>1, <3>2, PollCases
  <2> QED
    BY <2>1, <2>2, SameLogin DEF Mine, Awaits
<1>8. ASSUME NEW a \in Accounts, OpkDeleted(a) PROVE LoginOK'
  <2>1. UNCHANGED <<send, erase, revoke, auth, ui, view, crossed>>
    BY <1>8 DEF OpkDeleted
  <2>2. /\ main'.user = main.user
        /\ \A b \in Accounts \ {a} : fetch'[b] = fetch[b]
        /\ fetch'[a].pc = "delete" /\ fetch'[a].mine = fetch[a].mine
    <3>1. fetch[a].mine \in BOOLEAN
      BY DEF Types, Fetch
    <3>2. PICK opened \in SUBSET Message, state \in State \cup {Null} :
            Store(a, opened, fetch[a].mine, state)
      BY <1>8, OpkDeletedCases
    <3> QED
      <4>1. /\ main'.user = main.user
            /\ fetch'[a].pc = "delete"
            /\ \A b \in Accounts \ {a} : fetch'[b] = fetch[b]
        BY <1>8, <3>1, <3>2, StoreGlobals, StoreFiles, StoreFetch
      <4>2. fetch'[a].mine = fetch[a].mine
        BY <3>2 DEF Store, Types
      <4> QED
        BY <4>1, <4>2
  <2>3. fetch[a].pc = "opk"
    BY <1>8 DEF OpkDeleted
  <2> QED
    BY <2>1, <2>2, <2>3, SameLogin DEF Mine, Awaits, LoginOK
<1>9. ASSUME NEW a \in Accounts, FetchEnd(a) PROVE LoginOK'
  <2>1. /\ UNCHANGED <<main, send, erase, revoke, auth, ui, crossed>>
        /\ fetch'[a] = Idle /\ \A b \in Accounts \ {a} : fetch'[b] = fetch[b]
    BY <1>9 DEF FetchEnd, Types
  <2>2. /\ view'.stage \in {view.stage, "sent"}
        /\ view'.stage = "none" <=> view.stage = "none"
    BY <1>9 DEF FetchEnd, Show, Types, View
  <2> QED
    BY <2>1, <2>2, SameLogin DEF Mine, Awaits, Idle
<1>10. ASSUME NEW a \in Accounts, Send(a) PROVE LoginOK'
  <2>1. ui = a /\ main.user = a
    BY <1>10 DEF Send
  <2>2. /\ UNCHANGED <<fetch, erase, revoke, auth, ui, crossed>>
        /\ main'.user = main.user /\ view'.stage = view.stage
        /\ \A b \in Accounts \ {a} : send'[b] = send[b]
    <3> DEFINE text == [from |-> a, n |-> written[a]]
    <3> DEFINE now == [text |-> text, mine |-> TRUE]
    <3>1. CASE /\ Transmit(a, text, main.sessions, now)
               /\ main.sessions \in State /\ UNCHANGED send
      <4>1. text \in Text
        BY <1>10, SendCases
      <4> HIDE DEF text, now
      <4> QED
        BY <3>1, <4>1, TransmitGlobals, TransmitFiles, TransmitView DEF Transmit
    <3> QED
      BY <1>10, <3>1, SendCases DEF Types
  <2> QED
    BY <2>1, <2>2, SameLogin DEF Mine, Awaits
<1>11. ASSUME NEW a \in Accounts, SendWithBundle(a) PROVE LoginOK'
  <2>1. send'[a] = Null /\ \A b \in Accounts \ {a} : send'[b] = send[b]
    BY <1>11 DEF SendWithBundle, Types
  <2>2. /\ UNCHANGED <<fetch, erase, revoke, auth, ui, crossed>>
        /\ main'.user = main.user /\ view'.stage = view.stage
    <3>1. PICK state \in State : Transmit(a, send[a].text, state, send[a])
      BY <1>11, SendWithBundleCases
    <3> QED
      BY <1>11, <3>1, SendWithBundleCases, TransmitGlobals, TransmitFiles,
         TransmitView
      DEF Transmit
  <2> QED
    BY <2>1, <2>2, SameLogin DEF Mine, Awaits
<1>12. ASSUME NEW a \in Accounts, StartErase(a) \/ StartRevoke(a) PROVE LoginOK'
  <2>1. /\ ui = a /\ main.user = a
        /\ UNCHANGED <<main, fetch, send, auth, ui, view, crossed>>
        /\ \A b \in Accounts \ {a} : erase'[b] = erase[b] /\ revoke'[b] = revoke[b]
    BY <1>12 DEF StartErase, StartRevoke, Types
  <2> QED
    BY <2>1, SameLogin DEF Mine, Awaits
<1>13. ASSUME NEW a \in Accounts, EraseEnd(a) PROVE LoginOK'
  <2>1. /\ UNCHANGED <<fetch, send, revoke, auth, ui, crossed>>
        /\ erase'[a] = Null /\ \A b \in Accounts \ {a} : erase'[b] = erase[b]
        /\ main'.user = main.user /\ view'.stage = view.stage
    BY <1>13 DEF EraseEnd, Show, Types, Globals, View
  <2> QED
    BY <2>1, SameLogin DEF Mine, Awaits
<1>14. ASSUME NEW a \in Accounts, RevokeEnd(a) PROVE LoginOK'
  <2>1. /\ UNCHANGED <<fetch, send, erase, auth, ui, crossed>>
        /\ revoke'[a] = Null /\ \A b \in Accounts \ {a} : revoke'[b] = revoke[b]
        /\ main'.user = main.user /\ view'.stage = view.stage
    BY <1>14 DEF RevokeEnd, Show, Types, Globals, View
  <2> QED
    BY <2>1, SameLogin DEF Mine, Awaits
<1>15. ASSUME NEW a \in Accounts, RemoteWrites(a) \/ RemoteReads(a) PROVE LoginOK'
  BY <1>15 DEF RemoteWrites, RemoteReads, LoginOK, handlers, Mine, Awaits
<1> QED
  BY <1>1, <1>2, <1>3, <1>4, <1>5, <1>6, <1>7, <1>8, <1>9, <1>10, <1>11, <1>12,
     <1>13, <1>14, <1>15 DEF Next

---------------------------------------------------------------------------
(* The keys.                                                               *)

(* A step that leaves keys, salts and registrations alone and begins no    *)
(* registration.                                                           *)
LEMMA SameKeys ==
  ASSUME KeysOK, UNCHANGED <<registered, attempts>>,
         auth' # Null /\ auth'.pc \in {"salt", "post"} => auth' = auth,
         \A a \in Accounts :
           files'[a].keys = files[a].keys /\ files'[a].salt = files[a].salt
  PROVE  KeysOK'
BY DEF KeysOK

(* Every step keeps the key file fit.                                      *)
LEMMA KeysNext == ASSUME Types, LoginOK, KeysOK, Next PROVE KeysOK'
<1>1. CASE WriteSalt
  <2> DEFINE a == auth.of
  <2>1. /\ auth # Null /\ auth.pc = "salt" /\ a \in Accounts
        /\ auth' = [auth EXCEPT !.pc = "post"]
        /\ UNCHANGED <<registered, attempts>>
    BY <1>1 DEF WriteSalt, Types, server, counters
  <2>2. auth'.pc = "post" /\ auth'.of = a
    BY <2>1 DEF Types
  <2>3. /\ files'[a].keys = files[a].keys /\ files'[a].salt = attempts[a]
        /\ \A b \in Accounts \ {a} : files'[b] = files[b]
    BY <1>1, <2>1 DEF WriteSalt, localSalt, NoFiles, Types
  <2> HIDE DEF a
  <2>4. /\ files[a].keys = attempts[a] /\ attempts[a] \in Nat
        /\ registered[a] # Null => registered[a] < attempts[a]
    BY <2>1 DEF KeysOK, Types, a
  <2>5. registered[a] # Null => registered[a] # attempts[a]
    BY <2>4 DEF Types
  <2> QED
    BY <2>1, <2>2, <2>3, <2>4, <2>5 DEF KeysOK
<1>2. CASE RegisterAnswer
  <2> DEFINE a == auth.of
  <2>1. /\ auth # Null /\ auth.pc = "post" /\ a \in Accounts
        /\ auth' # Null => auth' = [auth EXCEPT !.pc = "login"]
        /\ UNCHANGED <<files, attempts>>
        /\ \/ registered' = registered
           \/ registered' = [registered EXCEPT ![a] = attempts[a]]
    BY <1>2 DEF RegisterAnswer, Types, counters
  <2>2. auth' # Null => auth'.pc = "login"
    BY <2>1 DEF Types
  <2>3. CASE registered' = registered
    BY <2>1, <2>2, <2>3 DEF KeysOK
  <2>4. CASE registered' = [registered EXCEPT ![a] = attempts[a]]
    <3>1. /\ registered'[a] = attempts[a] /\ attempts[a] \in Nat
          /\ \A b \in Accounts \ {a} : registered'[b] = registered[b]
      BY <2>1, <2>4 DEF Types
    <3>2. files[a].keys = attempts[a] /\ files[a].salt = attempts[a]
      BY <2>1 DEF KeysOK
    <3> HIDE DEF a
    <3> QED
      BY <2>1, <2>2, <3>1, <3>2 DEF KeysOK
  <2> QED
    BY <2>1, <2>3, <2>4
<1>3. CASE Login \/ Logout \/ Quit \/ ShowReceivedLog \/ PollNobody \/ ShowSentLog
  <2>1. UNCHANGED <<files, registered, attempts>> /\ auth' \in {auth, Null}
    BY <1>3 DEF Login, Logout, Quit, ShowReceivedLog, PollNobody, ShowSentLog,
                server, counters
  <2> QED
    BY <2>1, SameKeys
<1>4. ASSUME NEW a \in Accounts, Register(a) PROVE KeysOK'
  <2> DEFINE g == attempts[a] + 1
  <2>1. /\ attempts' = [attempts EXCEPT ![a] = g]
        /\ files' = [files EXCEPT ![a].keys = g]
        /\ auth' = [pc |-> "salt", of |-> a] /\ UNCHANGED registered
    BY <1>4 DEF Register, server
  <2>2. /\ attempts'[a] = attempts[a] + 1 /\ files'[a].keys = attempts'[a]
        /\ \A b \in Accounts \ {a} : attempts'[b] = attempts[b] /\ files'[b] = files[b]
    BY <1>4, <2>1 DEF Types, Files
  <2>3. /\ registered[a] # Null => registered[a] \in Nat /\ registered[a] <= attempts[a]
        /\ attempts[a] \in Nat
    BY <1>4 DEF Types, KeysOK
  <2>4. auth'.pc = "salt" /\ auth'.of = a
    BY <2>1
  <2>5. /\ registered[a] # Null =>
             /\ registered[a] <= attempts'[a] /\ registered[a] < attempts'[a]
             /\ registered[a] # attempts'[a]
    BY <2>2, <2>3
  <2> QED
    BY <2>1, <2>2, <2>4, <2>5 DEF KeysOK
<1>5. ASSUME NEW a \in Accounts, Poll(a) PROVE KeysOK'
  <2>1. UNCHANGED <<registered, attempts, auth>>
    BY <1>5 DEF Poll, server, counters
  <2>2. CASE UNCHANGED files
    BY <2>1, <2>2, SameKeys
  <2>3. ASSUME NEW opened \in SUBSET Message, NEW state \in State \cup {Null},
               Store(a, opened, TRUE, state)
        PROVE  KeysOK'
    BY <1>5, <2>1, <2>3, StoreGlobals, StoreFiles, StoreFetch, SameKeys
  <2> QED
    BY <1>5, <2>2, <2>3, PollCases
<1>6. ASSUME NEW a \in Accounts, OpkDeleted(a) PROVE KeysOK'
  <2>1. UNCHANGED <<registered, attempts, auth>>
    BY <1>6 DEF OpkDeleted, server, counters
  <2>2. PICK opened \in SUBSET Message, state \in State \cup {Null} :
          Store(a, opened, fetch[a].mine, state)
    BY <1>6, OpkDeletedCases
  <2> QED
    BY <1>6, <2>1, <2>2, StoreGlobals, StoreFiles, StoreFetch, SameKeys
<1>7. ASSUME NEW a \in Accounts, Send(a) PROVE KeysOK'
  <2> DEFINE text == [from |-> a, n |-> written[a]]
             now == [text |-> text, mine |-> TRUE]
  <2>1. CASE /\ Transmit(a, text, main.sessions, now)
             /\ main.sessions \in State /\ UNCHANGED send
    <3>1. text \in Text
      BY <1>7, SendCases
    <3> HIDE DEF text, now
    <3> QED
      BY <1>7, <2>1, <3>1, TransmitGlobals, TransmitFiles, TransmitView,
         SameKeys
      DEF Transmit
  <2>2. CASE UNCHANGED <<registered, files, attempts, auth>>
    BY <2>2, SameKeys
  <2> QED
    BY <1>7, <2>1, <2>2, SendCases DEF server
<1>8. ASSUME NEW a \in Accounts, SendWithBundle(a) PROVE KeysOK'
  <2>1. PICK state \in State : Transmit(a, send[a].text, state, send[a])
    BY <1>8, SendWithBundleCases
  <2> QED
    BY <1>8, <2>1, SendWithBundleCases, TransmitGlobals, TransmitFiles,
       TransmitView, SameKeys
    DEF Transmit
<1>9. ASSUME NEW a \in Accounts, EraseEnd(a) \/ RevokeEnd(a) PROVE KeysOK'
  <2>1. /\ UNCHANGED <<registered, attempts, auth>>
        /\ \E log : \/ files' = [files EXCEPT ![a].received = log]
                    \/ files' = [files EXCEPT ![a].sent = log]
    BY <1>9 DEF EraseEnd, saveReceivedLog, RevokeEnd, counters
  <2>2. \A b \in Accounts :
          files'[b].keys = files[b].keys /\ files'[b].salt = files[b].salt
    BY <1>9, <2>1 DEF Types, Files
  <2> QED
    BY <2>1, <2>2, SameKeys
<1>10. ASSUME NEW a \in Accounts,
              \/ SignIn(a) \/ FetchEnd(a) \/ StartErase(a) \/ StartRevoke(a)
              \/ RemoteWrites(a) \/ RemoteReads(a)
       PROVE  KeysOK'
  <2>1. /\ UNCHANGED <<files, registered, attempts>>
        /\ auth' = auth \/ auth' = [pc |-> "login", of |-> a]
    BY <1>10 DEF SignIn, FetchEnd, StartErase, StartRevoke, RemoteWrites,
                 RemoteReads, server, counters
  <2> QED
    BY <2>1, SameKeys
<1> QED
  BY <1>1, <1>2, <1>3, <1>4, <1>5, <1>6, <1>7, <1>8, <1>9, <1>10 DEF Next

---------------------------------------------------------------------------
(* Whose files they are.                                                   *)

(* The globals belong to a, unless a login has crossed a handler.          *)
GlobalsOf(a) == "other" \notin crossed => main.user = a

(* Store files messages of the account under its name.                     *)
LEMMA StoreOwners ==
  ASSUME Types, OwnersOK, NEW a \in Accounts, GlobalsOf(a),
         NEW opened \in SUBSET Message, NEW mine, NEW state \in State \cup {Null},
         Store(a, opened, mine, state), SameState(state, a),
         opened \subseteq mailbox[a] \cup fetch[a].queue,
         UNCHANGED <<mailbox, outbox, send, crossed>>
  PROVE  OwnersOK'
<1>1. /\ main'.user = main.user /\ main'.sessions = state
      /\ main'.received = main.received \cup opened
      /\ main'.sent = main.sent
      /\ fetch'[a].queue = opened
      /\ \A b \in Accounts \ {a} : fetch'[b] = fetch[b]
  BY StoreGlobals, StoreFetch
<1>2. /\ files'[a].sessions = state /\ files'[a].sent = files[a].sent
      /\ files'[a].received = files[a].received \/
           files'[a].received = main.received \cup opened
      /\ \A b \in Accounts \ {a} : files'[b] = files[b]
  <2>1. files'[a].received = IF opened \subseteq main.received THEN files[a].received
                             ELSE main.received \cup opened
    BY StoreReceived
  <2>2. /\ files'[a].sessions = state /\ files'[a].sent = files[a].sent
        /\ \A b \in Accounts \ {a} : files'[b] = files[b]
    BY StoreFiles
  <2> QED
    BY <2>1, <2>2
<1>3. \A m \in opened : m.to = a
  BY DEF OwnersOK
<1>4. \A b \in Accounts :
        /\ \A m \in mailbox'[b] \cup fetch'[b].queue : m.to = b
        /\ \A t \in outbox'[b] : t.from = b
        /\ send'[b] # Null => send'[b].text.from = b
  BY <1>1, <1>3 DEF OwnersOK
<1>5. "other" \notin crossed /\ state # Null => state.of = a
  BY DEF OwnersOK, SameState, GlobalsOf
<1> QED
  BY <1>1, <1>2, <1>3, <1>4, <1>5 DEF OwnersOK, GlobalsOf

(* Likewise Transmit.                                                      *)
LEMMA TransmitOwners ==
  ASSUME Types, OwnersOK, NEW a \in Accounts, GlobalsOf(a),
         NEW text \in Text, text.from = a,
         NEW state \in State, SameState(state, a), NEW handler,
         Transmit(a, text, state, handler),
         \A b \in Accounts : send'[b] \in {send[b], Null}
  PROVE  OwnersOK'
<1>1. /\ main'.user = main.user /\ main'.sessions = state
      /\ main'.received = main.received
      /\ main'.sent = main.sent \cup {text}
      /\ files'[a].sessions = state /\ files'[a].received = files[a].received
      /\ files'[a].sent = main.sent \cup {text}
      /\ outbox'[a] = outbox[a] \cup {text}
      /\ \A b \in Accounts \ {a} : files'[b] = files[b] /\ outbox'[b] = outbox[b]
  BY TransmitGlobals, TransmitFiles, TransmitOutbox
<1>2. UNCHANGED <<mailbox, fetch, crossed>>
  BY DEF Transmit
<1>3. \A b \in Accounts :
        /\ \A m \in mailbox'[b] \cup fetch'[b].queue : m.to = b
        /\ \A t \in outbox'[b] : t.from = b
        /\ send'[b] # Null => send'[b].text.from = b
  BY <1>1, <1>2 DEF OwnersOK
<1>4. "other" \notin crossed /\ state # Null => state.of = a
  BY DEF OwnersOK, SameState, GlobalsOf
<1> QED
  BY <1>1, <1>2, <1>3, <1>4 DEF OwnersOK, GlobalsOf

(* A handler that awaits works on its own account's globals.               *)
LEMMA AwaitsGlobals ==
  ASSUME LoginOK, NEW a \in Accounts, Awaits(a)
  PROVE  GlobalsOf(a)
BY DEF LoginOK, GlobalsOf

(* Every step keeps what is an account's with that account.                *)
LEMMA OwnersNext == ASSUME Types, LoginOK, OwnersOK, Next PROVE OwnersOK'
<1>1. CASE WriteSalt
  <2>1. /\ auth.of \in Accounts
        /\ UNCHANGED <<server, main, handlers, crossed>>
    BY <1>1 DEF WriteSalt, Types
  <2>2. \A a \in Accounts :
          \/ files'[a] = files[a]
          \/ /\ files'[a].sessions = Null
             /\ files'[a].received = {} /\ files'[a].sent = {}
    BY <1>1, <2>1 DEF WriteSalt, NoFiles, Types
  <2> QED
    BY <2>1, <2>2 DEF OwnersOK, server, handlers
<1>2. CASE RegisterAnswer
  BY <1>2 DEF RegisterAnswer, OwnersOK, handlers
<1>3. CASE Login
  <2>1. /\ UNCHANGED <<server, files, handlers>> /\ crossed \subseteq crossed'
        /\ \/ main' = main
           \/ auth.of \in Accounts /\ main' = globals(auth.of)
    BY <1>3 DEF Login, open, Types
  <2> QED
    BY <2>1 DEF OwnersOK, server, handlers, globals
<1>4. CASE Logout
  <2>1. UNCHANGED <<server, files, main, crossed>>
    BY <1>4 DEF Logout
  <2>2. \A a \in Accounts :
          /\ fetch'[a].queue = fetch[a].queue
          /\ send'[a] # Null => send[a] # Null /\ send'[a].text = send[a].text
    BY <1>4 DEF Logout, Unmount, Types, Fetch
  <2> QED
    BY <2>1, <2>2 DEF OwnersOK, server
<1>5. CASE Quit
  <2>1. /\ UNCHANGED <<mailbox, files, fetch, crossed>> /\ main' = NoUser
        /\ \A a \in Accounts : outbox'[a] \subseteq outbox[a] /\ send'[a] = Null
    BY <1>5 DEF Quit, without
  <2>2. /\ main'.sessions = Null /\ main'.received = {} /\ main'.sent = {}
    BY <2>1 DEF NoUser
  <2> QED
    BY <2>1, <2>2 DEF OwnersOK
<1>6. CASE ShowReceivedLog \/ PollNobody \/ ShowSentLog
  BY <1>6
  DEF ShowReceivedLog, PollNobody, ShowSentLog, OwnersOK, server, handlers
<1>7. ASSUME NEW a \in Accounts, Register(a) PROVE OwnersOK'
  <2>1. UNCHANGED <<server, main, handlers, crossed>>
    BY <1>7 DEF Register
  <2>2. \A b \in Accounts :
          /\ files'[b].sessions = files[b].sessions
          /\ files'[b].received = files[b].received
          /\ files'[b].sent = files[b].sent
    BY <1>7 DEF Register, Types, Files
  <2> QED
    BY <2>1, <2>2 DEF OwnersOK, server, handlers
<1>8. ASSUME NEW a \in Accounts, Poll(a) PROVE OwnersOK'
  <2>1. UNCHANGED <<mailbox, outbox, send, crossed>> /\ GlobalsOf(a)
    BY <1>8 DEF Poll, server, GlobalsOf
  <2>2. CASE /\ fetch' = [fetch EXCEPT ![a] =
                    [pc |-> "opk", queue |-> mailbox[a], mine |-> TRUE]]
             /\ UNCHANGED <<main, files>>
    <3>1. /\ fetch'[a].queue = mailbox[a]
          /\ \A b \in Accounts \ {a} : fetch'[b] = fetch[b]
      BY <2>2 DEF Types
    <3> QED
      BY <2>1, <2>2, <3>1 DEF OwnersOK
  <2>3. ASSUME NEW opened \in SUBSET Message, NEW state \in State \cup {Null},
               Store(a, opened, TRUE, state), opened \subseteq mailbox[a],
               SameState(state, a)
        PROVE  OwnersOK'
    BY <1>8, <2>1, <2>3, StoreOwners
  <2> QED
    BY <1>8, <2>2, <2>3, PollCases
<1>9. ASSUME NEW a \in Accounts, OpkDeleted(a) PROVE OwnersOK'
  <2>1. UNCHANGED <<mailbox, outbox, send, crossed>> /\ Awaits(a)
    BY <1>9 DEF OpkDeleted, server, Awaits
  <2>2. PICK opened \in SUBSET Message, state \in State \cup {Null} :
          /\ Store(a, opened, fetch[a].mine, state)
          /\ opened \subseteq fetch[a].queue
          /\ SameState(state, a)
    BY <1>9, OpkDeletedCases
  <2> QED
    BY <1>9, <2>1, <2>2, StoreOwners, AwaitsGlobals
<1>10. ASSUME NEW a \in Accounts, FetchEnd(a) PROVE OwnersOK'
  <2>1. /\ UNCHANGED <<outbox, files, main, send, crossed>>
        /\ \A b \in Accounts :
             /\ mailbox'[b] \subseteq mailbox[b]
             /\ fetch'[b].queue \subseteq fetch[b].queue
    BY <1>10 DEF FetchEnd, Types, Idle
  <2> QED
    BY <2>1 DEF OwnersOK
<1>11. ASSUME NEW a \in Accounts, Send(a) PROVE OwnersOK'
  <2> DEFINE text == [from |-> a, n |-> written[a]]
             now == [text |-> text, mine |-> TRUE]
  <2>1. text \in Text /\ text.from = a /\ now.text = text /\ GlobalsOf(a)
    BY <1>11, SendCases DEF Send, GlobalsOf
  <2>2. CASE /\ Transmit(a, text, main.sessions, now)
             /\ main.sessions \in State /\ UNCHANGED send
    <3>1. SameState(main.sessions, a)
      BY <2>2 DEF SameState
    <3> HIDE DEF text, now
    <3> QED
      BY <1>11, <2>1, <2>2, <3>1, TransmitOwners
  <2>3. CASE /\ send' = [send EXCEPT ![a] = now]
             /\ UNCHANGED <<server, files, main, fetch, crossed>>
    <3> HIDE DEF text, now
    <3>1. send'[a].text.from = a /\ \A b \in Accounts \ {a} : send'[b] = send[b]
      BY <2>1, <2>3 DEF Types
    <3> QED
      BY <2>3, <3>1 DEF OwnersOK, server
  <2> QED
    BY <1>11, <2>2, <2>3, SendCases
<1>12. ASSUME NEW a \in Accounts, SendWithBundle(a) PROVE OwnersOK'
  <2>1. PICK state \in State :
          Transmit(a, send[a].text, state, send[a]) /\ SameState(state, a)
    BY <1>12, SendWithBundleCases
  <2>2. /\ send[a] # Null /\ send[a].text \in Text
        /\ \A b \in Accounts : send'[b] \in {send[b], Null}
    BY <1>12, SendWithBundleCases DEF SendWithBundle, Types
  <2>3. send[a].text.from = a /\ GlobalsOf(a)
    BY <2>2, AwaitsGlobals DEF OwnersOK, Awaits
  <2> QED
    BY <1>12, <2>1, <2>2, <2>3, TransmitOwners
<1>13. ASSUME NEW a \in Accounts, EraseEnd(a) PROVE OwnersOK'
  <2>1. UNCHANGED <<outbox, fetch, send, crossed>>
    BY <1>13 DEF EraseEnd
  <2>2. GlobalsOf(a)
    BY <1>13, EraseEndGlobals, EraseEndFiles, AwaitsGlobals DEF Awaits
  <2>3. /\ main'.user = main.user /\ main'.sessions = main.sessions
        /\ main'.sent = main.sent /\ main'.received \subseteq main.received
        /\ files'[a].received \subseteq main.received
        /\ files'[a].sessions = files[a].sessions
        /\ files'[a].sent = files[a].sent
        /\ mailbox'[a] \subseteq mailbox[a]
        /\ \A b \in Accounts \ {a} : mailbox'[b] = mailbox[b] /\ files'[b] = files[b]
    BY <1>13, EraseEndGlobals, EraseEndFiles
  <2> QED
    BY <2>1, <2>2, <2>3 DEF OwnersOK, GlobalsOf
<1>14. ASSUME NEW a \in Accounts, RevokeEnd(a) PROVE OwnersOK'
  <2>1. UNCHANGED <<mailbox, fetch, send, crossed>>
    BY <1>14 DEF RevokeEnd
  <2>2. GlobalsOf(a)
    BY <1>14, RevokeEndGlobals, RevokeEndFiles, AwaitsGlobals DEF Awaits
  <2>3. /\ main'.user = main.user /\ main'.sessions = main.sessions
        /\ main'.received = main.received /\ main'.sent \subseteq main.sent
        /\ files'[a].sent \subseteq main.sent
        /\ files'[a].sessions = files[a].sessions
        /\ files'[a].received = files[a].received
        /\ outbox'[a] \subseteq outbox[a]
        /\ \A b \in Accounts \ {a} : outbox'[b] = outbox[b] /\ files'[b] = files[b]
    BY <1>14, RevokeEndGlobals, RevokeEndFiles DEF without
  <2> QED
    BY <2>1, <2>2, <2>3 DEF OwnersOK, GlobalsOf
<1>15. ASSUME NEW a \in Accounts, SignIn(a) \/ StartErase(a) \/ StartRevoke(a)
       PROVE  OwnersOK'
  BY <1>15 DEF SignIn, StartErase, StartRevoke, OwnersOK, server, handlers
<1>16. ASSUME NEW a \in Accounts, RemoteWrites(a) PROVE OwnersOK'
  <2>1. UNCHANGED <<outbox, files, main, handlers, crossed>>
    BY <1>16 DEF RemoteWrites
  <2>2. \A b \in Accounts : \A m \in mailbox'[b] : m \in mailbox[b] \/ m.to = b
    BY <1>16 DEF RemoteWrites, Types
  <2> QED
    BY <2>1, <2>2 DEF OwnersOK, handlers
<1>17. ASSUME NEW a \in Accounts, RemoteReads(a) PROVE OwnersOK'
  <2>1. /\ UNCHANGED <<mailbox, files, main, handlers, crossed>>
        /\ \A b \in Accounts : outbox'[b] \subseteq outbox[b]
    BY <1>17 DEF RemoteReads, Types
  <2> QED
    BY <2>1 DEF OwnersOK, handlers
<1> QED
  BY <1>1, <1>2, <1>3, <1>4, <1>5, <1>6, <1>7, <1>8, <1>9, <1>10, <1>11, <1>12,
     <1>13, <1>14, <1>15, <1>16, <1>17 DEF Next

---------------------------------------------------------------------------
(* The files and the memory.                                               *)

OnDisk(a) ==
  /\ files[a].sessions = main.sessions
  /\ files[a].received = main.received
  /\ files[a].sent = main.sent

(* Every step keeps the user's files equal to the globals.                 *)
LEMMA DiskNext ==
  ASSUME Types, LoginOK, MemoryIsOnDisk, Next PROVE MemoryIsOnDisk'
<1> SUFFICES ASSUME "other" \notin crossed', ui' # Null, main'.user = ui'
             PROVE  OnDisk(ui)'
  BY DEF MemoryIsOnDisk, OnDisk
<1>1. "other" \notin crossed /\ ui # Null /\ main.user = ui => OnDisk(ui) /\ ui \in Accounts
  BY DEF MemoryIsOnDisk, OnDisk, Types
<1>2. ASSUME UNCHANGED <<files, main, ui, crossed>> PROVE OnDisk(ui)'
  BY <1>1, <1>2 DEF OnDisk
<1>3. CASE Login
  <2>1. \/ UNCHANGED <<ui, main>>
        \/ ui' = auth.of /\ main' = globals(auth.of)
    BY <1>3 DEF Login, open
  <2>2. files' = files /\ "other" \notin crossed
    BY <1>3 DEF Login
  <2> QED
    BY <1>1, <2>1, <2>2 DEF OnDisk, globals
<1>4. CASE WriteSalt \/ Logout \/ Quit
  <2>1. CASE WriteSalt
    BY <2>1 DEF WriteSalt, LoginOK
  <2>2. CASE Logout
    BY <2>2 DEF Logout
  <2>3. CASE Quit
    BY <2>3, DesktopAssumption DEF Quit, NoUser
  <2> QED
    BY <1>4, <2>1, <2>2, <2>3
<1>5. CASE RegisterAnswer \/ ShowReceivedLog \/ PollNobody \/ ShowSentLog
  BY <1>2, <1>5 DEF RegisterAnswer, ShowReceivedLog, PollNobody, ShowSentLog
<1>6. ASSUME NEW a \in Accounts, NEW opened, NEW mine, NEW state,
             Store(a, opened, mine, state), UNCHANGED <<ui, crossed>>, GlobalsOf(a)
      PROVE  OnDisk(ui)'
  <2>1. /\ main'.user = main.user /\ main'.sessions = state
        /\ main'.received = main.received \cup opened
        /\ main'.sent = main.sent
    BY <1>6, StoreGlobals
  <2>2. ui = a /\ OnDisk(a)
    BY <1>1, <1>6, <2>1 DEF GlobalsOf
  <2>3. files'[a].sessions = state /\ files'[a].sent = files[a].sent
    BY <1>6, StoreFiles
  <2>4. files'[a].received =
          IF opened \subseteq main.received THEN files[a].received
          ELSE main.received \cup opened
    BY <1>6, StoreReceived
  <2>5. files'[a].received = main.received \cup opened
    BY <2>2, <2>4 DEF OnDisk
  <2> QED
    BY <1>6, <2>1, <2>2, <2>3, <2>5 DEF OnDisk
<1>7. ASSUME NEW a \in Accounts, NEW text, NEW state, NEW handler,
             Transmit(a, text, state, handler), GlobalsOf(a)
      PROVE  OnDisk(ui)'
  <2>1. /\ main'.user = main.user /\ main'.sessions = state
        /\ main'.received = main.received
        /\ main'.sent = main.sent \cup {text}
    BY <1>7, TransmitGlobals
  <2>2. /\ files'[a].sessions = state /\ files'[a].received = files[a].received
        /\ files'[a].sent = main.sent \cup {text}
    BY <1>7, TransmitFiles
  <2>3. UNCHANGED <<ui, crossed>>
    BY <1>7 DEF Transmit
  <2>4. ui = a /\ OnDisk(a)
    BY <1>1, <1>7, <2>1, <2>3 DEF GlobalsOf
  <2> QED
    BY <2>1, <2>2, <2>3, <2>4 DEF OnDisk
<1>8. ASSUME NEW a \in Accounts, Poll(a) PROVE OnDisk(ui)'
  <2>1. UNCHANGED <<ui, crossed>> /\ GlobalsOf(a)
    BY <1>8 DEF Poll, GlobalsOf
  <2>2. CASE UNCHANGED <<main, files>>
    BY <1>2, <2>1, <2>2
  <2>3. ASSUME NEW opened \in SUBSET Message, NEW state \in State \cup {Null},
               Store(a, opened, TRUE, state)
        PROVE  OnDisk(ui)'
    BY <1>6, <1>8, <2>1, <2>3
  <2> QED
    BY <1>8, <2>2, <2>3, PollCases
<1>9. ASSUME NEW a \in Accounts, OpkDeleted(a) PROVE OnDisk(ui)'
  <2>1. UNCHANGED <<ui, crossed>> /\ Awaits(a)
    BY <1>9 DEF OpkDeleted, Awaits
  <2> QED
    BY <1>6, <1>9, <2>1, OpkDeletedCases, AwaitsGlobals
<1>10. ASSUME NEW a \in Accounts, Send(a) PROVE OnDisk(ui)'
  <2> DEFINE text == [from |-> a, n |-> written[a]]
             now == [text |-> text, mine |-> TRUE]
  <2>1. GlobalsOf(a)
    BY <1>10 DEF Send, GlobalsOf
  <2>2. \/ Transmit(a, text, main.sessions, now)
        \/ UNCHANGED <<files, main, ui, crossed>>
    BY <1>10, SendCases
  <2> HIDE DEF text, now
  <2> QED
    BY <1>2, <1>7, <1>10, <2>1, <2>2
<1>11. ASSUME NEW a \in Accounts, SendWithBundle(a) PROVE OnDisk(ui)'
  <2>1. Awaits(a) /\ \E state \in State : Transmit(a, send[a].text, state, send[a])
    BY <1>11, SendWithBundleCases DEF Awaits
  <2> QED
    BY <1>7, <1>11, <2>1, AwaitsGlobals
<1>12. ASSUME NEW a \in Accounts, EraseEnd(a) PROVE OnDisk(ui)'
  <2>1. UNCHANGED <<ui, crossed>> /\ Awaits(a)
    BY <1>12 DEF EraseEnd, Awaits
  <2>2. main'.user = main.user
    BY <1>12, EraseEndGlobals
  <2>3. ui = a /\ OnDisk(a)
    BY <1>1, <1>12, <2>1, <2>2, AwaitsGlobals DEF GlobalsOf
  <2>4. /\ files'[a].received = main.received \ {erase[a].message}
        /\ files'[a].sessions = files[a].sessions
        /\ files'[a].sent = files[a].sent
    BY <1>12, EraseEndFiles
  <2>5. /\ main'.sessions = main.sessions /\ main'.sent = main.sent
        /\ main'.received = main.received \ {erase[a].message}
    BY <1>12, EraseEndGlobals
  <2> QED
    BY <2>1, <2>3, <2>4, <2>5 DEF OnDisk
<1>13. ASSUME NEW a \in Accounts, RevokeEnd(a) PROVE OnDisk(ui)'
  <2>1. UNCHANGED <<ui, crossed>> /\ Awaits(a)
    BY <1>13 DEF RevokeEnd, Awaits
  <2>2. main'.user = main.user
    BY <1>13, RevokeEndGlobals
  <2>3. ui = a /\ OnDisk(a)
    BY <1>1, <1>13, <2>1, <2>2, AwaitsGlobals DEF GlobalsOf
  <2>4. /\ files'[a].sent = without(main.sent, revoke[a].entry)
        /\ files'[a].sessions = files[a].sessions
        /\ files'[a].received = files[a].received
    BY <1>13, RevokeEndFiles
  <2>5. /\ main'.sessions = main.sessions /\ main'.received = main.received
        /\ main'.sent = without(main.sent, revoke[a].entry)
    BY <1>13, RevokeEndGlobals
  <2> QED
    BY <2>1, <2>3, <2>4, <2>5 DEF OnDisk
<1>14. ASSUME NEW a \in Accounts,
              \/ Register(a) \/ SignIn(a) \/ FetchEnd(a) \/ StartErase(a)
              \/ StartRevoke(a) \/ RemoteWrites(a) \/ RemoteReads(a)
       PROVE  OnDisk(ui)'
  BY <1>2, <1>14 DEF Register, SignIn, FetchEnd, StartErase, StartRevoke,
                     RemoteWrites, RemoteReads
<1> QED
  BY <1>3, <1>4, <1>5, <1>8, <1>9, <1>10, <1>11, <1>12, <1>13, <1>14 DEF Next

---------------------------------------------------------------------------
(* The texts that are shown, and those that are revoked.                   *)

(* A transmission shows a text of the account that asked for it.           *)
LEMMA TransmitEntries ==
  ASSUME Types, LoginOK, EntriesOK, NEW a \in Accounts, NEW text, text.from = a,
         NEW state, NEW handler, handler.mine => ui = a,
         Transmit(a, text, state, handler)
  PROVE  EntriesOK'
<1>1. /\ view'.sent = IF handler.mine
                      THEN view.sent \cup {[text |-> text, id |-> "random"]}
                      ELSE view.sent
  BY TransmitView
<1>2. \A e \in view'.sent : e \in view.sent \/ (e.text = text /\ ui = a)
  BY <1>1
<1> QED
  BY <1>2 DEF Transmit, EntriesOK

(* Every step keeps the texts shown and those being revoked the user's     *)
(* own.                                                                    *)
LEMMA EntriesNext ==
  ASSUME Types, LoginOK, OwnersOK, EntriesOK, Next PROVE EntriesOK'
<1>1. CASE Login
  <2>1. \/ UNCHANGED <<ui, view>>
        \/ view' = Mounted
    BY <1>1 DEF Login, open
  <2>2. UNCHANGED revoke /\ crossed \subseteq crossed'
    BY <1>1 DEF Login, handlers
  <2> QED
    BY <2>1, <2>2 DEF EntriesOK, Mounted, NoView
<1>2. CASE Logout
  <2>1. view' = NoView /\ UNCHANGED crossed
    BY <1>2 DEF Logout
  <2>2. \A a \in Accounts :
          revoke'[a] # Null => revoke[a] # Null /\ revoke'[a].entry = revoke[a].entry
    BY <1>2 DEF Logout, Unmount, Types
  <2> QED
    BY <2>1, <2>2 DEF EntriesOK, NoView
<1>3. CASE Quit
  BY <1>3 DEF Quit, EntriesOK, NoView, Mounted
<1>4. CASE ShowSentLog
  <2>1. /\ UNCHANGED <<ui, crossed, revoke>> /\ ui # Null
        /\ \A e \in view'.sent : e.text \in main.sent
    BY <1>4 DEF ShowSentLog, Types, View, handlers, LoginOK
  <2>2. "other" \notin crossed => \A t \in main.sent : t.from = ui
    <3>1. \A t \in main.sent : t.from \in Accounts
      BY DEF Types, Globals, Text
    <3> QED
      BY <2>1, <3>1, DesktopAssumption DEF OwnersOK, LoginOK
  <2> QED
    BY <2>1, <2>2 DEF EntriesOK
<1>5. CASE ShowReceivedLog \/ PollNobody
  BY <1>5 DEF ShowReceivedLog, PollNobody, EntriesOK, Types, View, handlers
<1>6. ASSUME NEW a \in Accounts, FetchEnd(a) PROVE EntriesOK'
  BY <1>6 DEF FetchEnd, Show, EntriesOK, Types, View
<1>7. ASSUME NEW a \in Accounts, Send(a) PROVE EntriesOK'
  <2> DEFINE text == [from |-> a, n |-> written[a]]
             now == [text |-> text, mine |-> TRUE]
  <2>1. text.from = a /\ ui = a
    BY <1>7 DEF Send
  <2>2. CASE Transmit(a, text, main.sessions, now)
    <3> HIDE DEF text, now
    <3> QED
      BY <1>7, <2>1, <2>2, TransmitEntries
  <2>3. CASE UNCHANGED <<view, ui, revoke, crossed>>
    BY <2>3 DEF EntriesOK
  <2> QED
    BY <1>7, <2>2, <2>3, SendCases
<1>8. ASSUME NEW a \in Accounts, SendWithBundle(a) PROVE EntriesOK'
  <2>1. send[a] # Null /\ \E state \in State : Transmit(a, send[a].text, state, send[a])
    BY <1>8, SendWithBundleCases
  <2>2. send[a].text.from = a /\ (send[a].mine => ui = a)
    BY <2>1 DEF OwnersOK, LoginOK, Mine
  <2> QED
    BY <1>8, <2>1, <2>2, TransmitEntries
<1>9. ASSUME NEW a \in Accounts, EraseEnd(a) PROVE EntriesOK'
  BY <1>9, EraseEndView DEF EraseEnd, EntriesOK
<1>10. ASSUME NEW a \in Accounts, StartRevoke(a) PROVE EntriesOK'
  <2>1. PICK entry \in view.sent :
          revoke' = [revoke EXCEPT ![a] = [entry |-> entry, mine |-> TRUE]]
    BY <1>10 DEF StartRevoke
  <2>2. revoke'[a].entry = entry /\ \A b \in Accounts \ {a} : revoke'[b] = revoke[b]
    BY <1>10, <2>1 DEF Types
  <2> QED
    BY <1>10, <2>2 DEF StartRevoke, EntriesOK
<1>11. ASSUME NEW a \in Accounts, RevokeEnd(a) PROVE EntriesOK'
  <2>1. view'.sent \subseteq view.sent
    BY <1>11, RevokeEndView
  <2>2. \A b \in Accounts : revoke'[b] # Null => revoke'[b] = revoke[b]
    BY <1>11, RevokeEndGlobals
  <2> QED
    BY <1>11, <2>1, <2>2 DEF RevokeEnd, EntriesOK
<1>12. CASE UNCHANGED <<view, ui, revoke, crossed>>
  BY <1>12 DEF EntriesOK
<1>13. ASSUME WriteSalt \/ RegisterAnswer \/ \E a \in Accounts :
                \/ Register(a) \/ SignIn(a) \/ Poll(a) \/ OpkDeleted(a)
                \/ StartErase(a) \/ RemoteWrites(a) \/ RemoteReads(a)
       PROVE  EntriesOK'
  BY <1>12, <1>13
  DEF WriteSalt, RegisterAnswer, Register, SignIn, Poll, OpkDeleted,
                      StartErase, RemoteWrites, RemoteReads, handlers
<1> QED
  BY <1>1, <1>2, <1>3, <1>4, <1>5, <1>6, <1>7, <1>8, <1>9, <1>10, <1>11, <1>13
  DEF Next

(* What is known somewhere.  Each place by itself.                         *)
LEMMA KnownIn ==
  ASSUME NEW t
  PROVE  /\ t \in delivered \cup main.sent => Known(t)
         /\ \A a \in Accounts : t \in outbox[a] \cup files[a].sent => Known(t)
         /\ \A e \in view.sent : Known(e.text)
         /\ \A w \in withdrawn : Known(w.text)
         /\ \A a \in Accounts : revoke[a] # Null => Known(revoke[a].entry.text)
BY DEF Known

(* A step that makes no text known and lets no account write.              *)
LEMMA SameTexts ==
  ASSUME Types, TextsOK, written' = written,
         \A t \in Text : Known(t)' => Known(t),
         \A a \in Accounts : send'[a] # Null =>
           send[a] # Null /\ send'[a].text = send[a].text
  PROVE  TextsOK'
<1>1. \A a \in Accounts : send[a] # Null => send[a].text \in Text
  BY DEF Types
<1> QED
  BY <1>1 DEF TextsOK

(* A transmission makes its text known, and no other.                      *)
LEMMA TransmitKnown ==
  ASSUME Types, NEW a \in Accounts, NEW text, NEW state, NEW handler,
         Transmit(a, text, state, handler), NEW t, Known(t)'
  PROVE  Known(t) \/ t = text
<1>1. UNCHANGED <<delivered, withdrawn, revoke>>
  BY DEF Transmit
<1>2. main'.sent = main.sent \cup {text}
  BY TransmitGlobals
<1>3. /\ files'[a].sent = main.sent \cup {text}
      /\ \A b \in Accounts \ {a} : files'[b] = files[b]
  BY TransmitFiles
<1>4. /\ outbox'[a] = outbox[a] \cup {text}
      /\ \A b \in Accounts \ {a} : outbox'[b] = outbox[b]
  BY TransmitOutbox
<1>5. view'.sent = IF handler.mine
                   THEN view.sent \cup {[text |-> text, id |-> "random"]}
                   ELSE view.sent
  BY TransmitView
<1>6. CASE t \in delivered' \cup main'.sent
  BY <1>1, <1>2, <1>6 DEF Known
<1>7. ASSUME NEW b \in Accounts, t \in outbox'[b] \cup files'[b].sent
      PROVE  Known(t) \/ t = text
  BY <1>3, <1>4, <1>7 DEF Known
<1>8. ASSUME NEW e \in view'.sent, e.text = t PROVE Known(t) \/ t = text
  <2>1. e \in view.sent \/ e.text = text
    BY <1>5
  <2> QED
    BY <1>8, <2>1 DEF Known
<1>9. CASE \/ \E w \in withdrawn' : w.text = t
           \/ \E b \in Accounts : revoke'[b] # Null /\ revoke'[b].entry.text = t
  BY <1>1, <1>9 DEF Known
<1> QED
  BY <1>6, <1>7, <1>8, <1>9 DEF Known

(* Every step keeps the next text unknown.                                 *)
LEMMA TextsNext ==
  ASSUME Types, OwnersOK, TextsOK, Next PROVE TextsOK'
<1>1. CASE UNCHANGED <<delivered, outbox, withdrawn, written, send>>
           /\ (\A a \in Accounts : files'[a].sent \subseteq files[a].sent)
           /\ (\A t \in main'.sent : Known(t))
           /\ (\A e \in view'.sent : Known(e.text))
           /\ (\A a \in Accounts : revoke'[a] # Null => Known(revoke'[a].entry.text))
  <2>1. \A t \in Text : Known(t)' => Known(t)
    BY <1>1 DEF Known
  <2> QED
    BY <1>1, <2>1, SameTexts
<1>2. /\ \A t \in main.sent : Known(t)
      /\ \A e \in view.sent : Known(e.text)
      /\ \A a \in Accounts : revoke[a] # Null => Known(revoke[a].entry.text)
  BY KnownIn
<1>3. CASE WriteSalt
  <2>1. auth.of \in Accounts /\ \A a \in Accounts : files'[a].sent \subseteq files[a].sent
    BY <1>3 DEF WriteSalt, NoFiles, Types
  <2> QED
    BY <1>1, <1>2, <1>3, <2>1 DEF WriteSalt, server, handlers, counters
<1>4. CASE RegisterAnswer
  BY <1>1, <1>2, <1>4 DEF RegisterAnswer, handlers, counters
<1>5. CASE Login
  <2>1. \/ main' = main /\ view' = view
        \/ auth.of \in Accounts /\ main' = globals(auth.of) /\ view' = Mounted
    BY <1>5 DEF Login, open, Types
  <2>2. (\A t \in main'.sent : Known(t)) /\ \A e \in view'.sent : Known(e.text)
    BY <1>2, <2>1, KnownIn DEF globals, Mounted, NoView
  <2> QED
    BY <1>1, <1>2, <1>5, <2>2 DEF Login, server, handlers
<1>6. CASE Logout
  <2>1. \A a \in Accounts :
          /\ send'[a] # Null => send[a] # Null /\ send'[a].text = send[a].text
          /\ revoke'[a] # Null => revoke[a] # Null /\ revoke'[a].entry = revoke[a].entry
    BY <1>6 DEF Logout, Unmount, Types
  <2>2. UNCHANGED <<delivered, outbox, withdrawn, written, main, files>> /\ view'.sent = {}
    BY <1>6 DEF Logout, NoView, server, counters
  <2>3. \A t \in Text : Known(t)' => Known(t)
    BY <2>1, <2>2 DEF Known
  <2> QED
    BY <2>1, <2>2, <2>3, SameTexts
<1>7. CASE Quit
  <2>1. /\ UNCHANGED <<delivered, withdrawn, written, files>>
        /\ view'.sent = {} /\ main'.sent = {}
        /\ \A a \in Accounts :
             /\ outbox'[a] \subseteq outbox[a]
             /\ send'[a] = Null /\ revoke'[a] = Null
    BY <1>7 DEF Quit, NoView, Mounted, NoUser, without
  <2>2. \A t \in Text : Known(t)' => Known(t)
    BY <2>1 DEF Known
  <2> QED
    BY <2>1, <2>2, SameTexts
<1>8. CASE ShowReceivedLog \/ PollNobody
  <2>1. view'.sent = view.sent
    BY <1>8 DEF ShowReceivedLog, PollNobody, Types, View
  <2> QED
    BY <1>1, <1>2, <1>8, <2>1
    DEF ShowReceivedLog, PollNobody, server, handlers, counters
<1>9. CASE ShowSentLog
  <2>1. \A e \in view'.sent : e.text \in main.sent
    BY <1>9 DEF ShowSentLog, Types, View
  <2> QED
    BY <1>1, <1>2, <1>9, <2>1 DEF ShowSentLog, server, handlers, counters
<1>10. ASSUME NEW a \in Accounts, Register(a) PROVE TextsOK'
  <2>1. \A b \in Accounts : files'[b].sent = files[b].sent
    BY <1>10 DEF Register, Types, Files
  <2> QED
    BY <1>1, <1>2, <1>10, <2>1 DEF Register, server, handlers
<1>11. ASSUME NEW a \in Accounts, NEW opened, NEW mine, NEW state,
              Store(a, opened, mine, state),
              UNCHANGED <<server, send, revoke, view, written, withdrawn>>
       PROVE  TextsOK'
  <2>1. main'.sent = main.sent
    BY <1>11, StoreGlobals
  <2>2. files'[a].sent = files[a].sent /\ \A b \in Accounts \ {a} : files'[b] = files[b]
    BY <1>11, StoreFiles
  <2> QED
    BY <1>1, <1>2, <1>11, <2>1, <2>2 DEF server
<1>12. ASSUME NEW a \in Accounts, Poll(a) PROVE TextsOK'
  <2>1. UNCHANGED <<server, send, revoke, view, written, withdrawn>>
    BY <1>12 DEF Poll, counters
  <2>2. CASE UNCHANGED <<main, files>>
    BY <1>1, <1>2, <2>1, <2>2 DEF server
  <2>3. ASSUME NEW opened \in SUBSET Message, NEW state \in State \cup {Null},
               Store(a, opened, TRUE, state)
        PROVE  TextsOK'
    BY <1>11, <1>12, <2>1, <2>3
  <2> QED
    BY <1>12, <2>2, <2>3, PollCases
<1>13. ASSUME NEW a \in Accounts, OpkDeleted(a) PROVE TextsOK'
  <2>1. UNCHANGED <<server, send, revoke, view, written, withdrawn>>
    BY <1>13 DEF OpkDeleted, counters
  <2> QED
    BY <1>11, <1>13, <2>1, OpkDeletedCases
<1>14. ASSUME NEW a \in Accounts, FetchEnd(a) PROVE TextsOK'
  <2>1. view'.sent = view.sent
    BY <1>14 DEF FetchEnd, Show, Types, View
  <2> QED
    BY <1>1, <1>2, <1>14, <2>1 DEF FetchEnd, counters
<1>15. ASSUME NEW a \in Accounts, Send(a) PROVE TextsOK'
  <2> DEFINE text == [from |-> a, n |-> written[a]]
             now == [text |-> text, mine |-> TRUE]
  <2>1. /\ send[a] = Null /\ text \in Text /\ text.from = a
        /\ text.n = written[a]
        /\ now.text = text /\ written[a] \in Nat
        /\ written'[a] = written[a] + 1
        /\ \A b \in Accounts \ {a} : written'[b] = written[b]
    BY <1>15, SendCases DEF Send, Types
  <2>2. /\ \A t \in Text : Known(t) => t.n < written[t.from]
        /\ \A t \in Text : t.from \in Accounts /\ t.n \in Nat
        /\ \A b \in Accounts : written[b] \in Nat /\ written'[b] >= written[b]
        /\ \A b \in Accounts : send[b] # Null =>
             /\ send[b].text \in Text /\ send[b].text.from = b
             /\ send[b].text.n < written[b] /\ ~Known(send[b].text)
    <3>1. \A t \in Text : t.from \in Accounts /\ t.n \in Nat
      BY DEF Text
    <3> QED
      BY <2>1, <3>1 DEF TextsOK, OwnersOK, Types
  <2>3. ASSUME \A t \in Text : Known(t)' => Known(t) \/ t = text, UNCHANGED send
        PROVE  TextsOK'
    <3> HIDE DEF text, now
    <3>1. \A t \in Text : Known(t)' => t.n < written'[t.from]
      BY <2>1, <2>2, <2>3
    <3>2. ASSUME NEW b \in Accounts, send[b] # Null
          PROVE  send[b].text.n < written'[b] /\ ~Known(send[b].text)'
      BY <2>1, <2>2, <2>3, <3>2
    <3> QED
      BY <2>3, <3>1, <3>2 DEF TextsOK
  <2>4. CASE Transmit(a, text, main.sessions, now) /\ UNCHANGED send
    <3> HIDE DEF text, now
    <3> QED
      BY <1>15, <2>3, <2>4, TransmitKnown
  <2>5. CASE /\ send' = [send EXCEPT ![a] = now]
             /\ UNCHANGED <<server, files, main, fetch, erase, revoke, auth,
                            ui, view, attempts, turns, removals, withdrawn,
                            crossed>>
    <3> HIDE DEF text, now
    <3>1. \A t \in Text : Known(t)' = Known(t)
      BY <2>5 DEF Known, server
    <3>2. send'[a].text = text /\ \A b \in Accounts \ {a} : send'[b] = send[b]
      BY <2>1, <2>5 DEF Types
    <3>3. ~Known(text) /\ text.n < written'[a]
      BY <2>1, <2>2
    <3>4. \A t \in Text : Known(t)' => t.n < written'[t.from]
      BY <2>1, <2>2, <3>1
    <3>5. ASSUME NEW b \in Accounts, send'[b] # Null
          PROVE  send'[b].text.n < written'[b] /\ ~Known(send'[b].text)
      BY <2>1, <2>2, <3>2, <3>3, <3>5
    <3>6. \A b \in Accounts : send'[b] # Null => send'[b].text \in Text
      BY <2>1, <2>2, <3>2
    <3> QED
      BY <3>1, <3>4, <3>5, <3>6 DEF TextsOK
  <2> QED
    BY <1>15, <2>4, <2>5, SendCases
<1>16. ASSUME NEW a \in Accounts, SendWithBundle(a) PROVE TextsOK'
  <2>1. /\ send[a] # Null /\ send[a].text \in Text
        /\ \E state \in State : Transmit(a, send[a].text, state, send[a])
    BY <1>16, SendWithBundleCases
  <2>2. /\ written' = written /\ send'[a] = Null
        /\ \A b \in Accounts \ {a} : send'[b] = send[b]
    BY <1>16 DEF SendWithBundle, Types
  <2>3. \A t : Known(t)' => Known(t) \/ t = send[a].text
    BY <1>16, <2>1, TransmitKnown
  <2>4. \A b \in Accounts : send[b] # Null =>
          /\ send[b].text.from = b /\ send[b].text.n < written[b]
          /\ ~Known(send[b].text)
    BY DEF TextsOK, OwnersOK
  <2>5. \A t \in Text : Known(t)' => t.n < written'[t.from]
    BY <1>16, <2>1, <2>2, <2>3, <2>4 DEF TextsOK
  <2>6. ASSUME NEW b \in Accounts, send'[b] # Null
        PROVE  send'[b].text.n < written'[b] /\ ~Known(send[b].text)'
    <3>1. b # a /\ send'[b] = send[b]
      BY <1>16, <2>2, <2>6
    <3>2. send[b].text # send[a].text
      BY <1>16, <2>1, <2>4, <2>6, <3>1
    <3> QED
      BY <2>2, <2>3, <2>4, <2>6, <3>1, <3>2
  <2> QED
    BY <2>5, <2>6 DEF TextsOK
<1>17. ASSUME NEW a \in Accounts, EraseEnd(a) PROVE TextsOK'
  <2>1. main'.sent = main.sent
    BY <1>17, EraseEndGlobals
  <2>2. files'[a].sent = files[a].sent /\ \A b \in Accounts \ {a} : files'[b] = files[b]
    BY <1>17, EraseEndFiles
  <2>3. view'.sent = view.sent
    BY <1>17, EraseEndView
  <2> QED
    BY <1>1, <1>2, <1>17, <2>1, <2>2, <2>3 DEF EraseEnd, counters
<1>18. ASSUME NEW a \in Accounts, StartRevoke(a) PROVE TextsOK'
  <2>1. PICK entry \in view.sent :
          revoke' = [revoke EXCEPT ![a] = [entry |-> entry, mine |-> TRUE]]
    BY <1>18 DEF StartRevoke
  <2>2. revoke'[a].entry = entry /\ \A b \in Accounts \ {a} : revoke'[b] = revoke[b]
    BY <1>18, <2>1 DEF Types
  <2>3. \A b \in Accounts : revoke'[b] # Null => Known(revoke'[b].entry.text)
    BY <1>2, <2>2
  <2> QED
    BY <1>1, <1>2, <1>18, <2>3 DEF StartRevoke, server
<1>19. ASSUME NEW a \in Accounts, RevokeEnd(a) PROVE TextsOK'
  <2> DEFINE entry == revoke[a].entry
  <2>1. /\ main'.sent \subseteq main.sent /\ revoke[a] # Null
        /\ \A b \in Accounts : revoke'[b] # Null => revoke'[b] = revoke[b]
    BY <1>19, RevokeEndGlobals DEF without
  <2>2. /\ \A t \in files'[a].sent : Known(t)
        /\ \A b \in Accounts \ {a} : files'[b] = files[b]
        /\ \A b \in Accounts : outbox'[b] \subseteq outbox[b]
    BY <1>2, <1>19, RevokeEndFiles DEF without
  <2>3. view'.sent \subseteq view.sent
    BY <1>19, RevokeEndView
  <2>4. /\ UNCHANGED <<delivered, written, send>>
        /\ \A w \in withdrawn' : w \in withdrawn \/ w.text = entry.text
    BY <1>19 DEF RevokeEnd, counters
  <2>5. Known(entry.text)
    BY <1>19, <2>1, KnownIn
  <2>6. \A t \in Text : Known(t)' => Known(t)
    BY <2>1, <2>2, <2>3, <2>4, <2>5 DEF Known
  <2> QED
    BY <2>4, <2>6, SameTexts
<1>20. ASSUME NEW a \in Accounts, RemoteReads(a) PROVE TextsOK'
  <2>1. /\ UNCHANGED <<files, main, send, revoke, view, written, withdrawn>>
        /\ \A b \in Accounts : outbox'[b] \subseteq outbox[b]
        /\ \A t \in delivered' : t \in delivered \/ t \in outbox[a]
    BY <1>20 DEF RemoteReads, Types, handlers, counters
  <2>2. \A t \in Text : Known(t)' => Known(t)
    BY <1>20, <2>1 DEF Known
  <2> QED
    BY <2>1, <2>2, SameTexts
<1>21. ASSUME NEW a \in Accounts, SignIn(a) \/ StartErase(a) \/ RemoteWrites(a)
       PROVE  TextsOK'
  BY <1>1, <1>2, <1>21
  DEF SignIn, StartErase, RemoteWrites, server, handlers, counters
<1> QED
  BY <1>3, <1>4, <1>5, <1>6, <1>7, <1>8, <1>9, <1>10, <1>12, <1>13, <1>14, <1>15,
     <1>16, <1>17, <1>18, <1>19, <1>20, <1>21 DEF Next

---------------------------------------------------------------------------
(* What is revoked under the server's id stays gone.                       *)

(* A withdrawal that a step leaves effective.                              *)
StaysGone(w) ==
  /\ w.unread => w.text \notin delivered \cup outbox[w.text.from]
  /\ w.text \notin main.sent \cup files[w.text.from].sent

(* A step that brings texts to the server or into a log only if they were  *)
(* there or are new.                                                       *)
LEMMA NothingBack ==
  ASSUME Types, RevokedStaysGone, withdrawn' = withdrawn, crossed \subseteq crossed',
         NEW new, \A w \in withdrawn : w.text \notin new,
         delivered' = delivered,
         main'.sent \subseteq main.sent \cup new,
         \A a \in Accounts :
           /\ outbox'[a] \subseteq outbox[a] \cup new
           /\ files'[a].sent \subseteq files[a].sent \cup main.sent \cup new
  PROVE  RevokedStaysGone'
<1>1. \A w \in withdrawn : w.text.from \in Accounts
  BY DEF Types, Withdrawal, Text
<1> QED
  BY <1>1 DEF RevokedStaysGone

(* No step brings a revoked text back.                                     *)
LEMMA RevokedNext ==
  ASSUME Types, LoginOK, OwnersOK, EntriesOK, TextsOK, RevokedStaysGone, Next
  PROVE  RevokedStaysGone'
<1> \A w \in withdrawn : w.text \notin {}
  OBVIOUS
<1>1. \A w \in withdrawn : w.text \in Text /\ w.text.from \in Accounts
  BY DEF Types, Withdrawal, Text
<1>2. CASE /\ UNCHANGED <<delivered, outbox, withdrawn, crossed>>
           /\ main'.sent = main.sent
           /\ \A a \in Accounts : files'[a].sent \subseteq files[a].sent
  <2>1. /\ main'.sent \subseteq main.sent \cup {}
        /\ \A a \in Accounts :
             /\ outbox'[a] \subseteq outbox[a] \cup {}
             /\ files'[a].sent \subseteq files[a].sent \cup main.sent \cup {}
    BY <1>2
  <2> QED
    BY <1>2, <2>1, NothingBack
<1>3. CASE WriteSalt
  <2>1. auth.of \in Accounts /\ \A a \in Accounts : files'[a].sent \subseteq files[a].sent
    BY <1>3 DEF WriteSalt, NoFiles, Types
  <2> QED
    BY <1>2, <1>3, <2>1 DEF WriteSalt, server
<1>4. CASE Login
  <2>1. \/ main' = main
        \/ auth.of \in Accounts /\ main' = globals(auth.of)
    BY <1>4 DEF Login, open, Types
  <2>2. /\ UNCHANGED <<delivered, outbox, withdrawn, files>>
        /\ crossed \subseteq crossed'
    BY <1>4 DEF Login, server
  <2>3. CASE main' = main
    BY <2>2, <2>3 DEF RevokedStaysGone
  <2>4. CASE auth.of \in Accounts /\ main' = globals(auth.of)
    <3> SUFFICES ASSUME "other" \notin crossed', NEW w \in withdrawn, w.id = "server"
                 PROVE  StaysGone(w)'
      BY <2>2 DEF RevokedStaysGone, StaysGone
    <3>1. StaysGone(w)
      BY <2>2 DEF RevokedStaysGone, StaysGone
    <3>2. main'.sent = files[auth.of].sent
      BY <2>4 DEF globals
    <3>3. w.text \notin main'.sent
      BY <1>1, <2>2, <2>4, <3>1, <3>2 DEF OwnersOK, StaysGone
    <3> QED
      BY <2>2, <3>1, <3>3 DEF StaysGone
  <2> QED
    BY <2>1, <2>3, <2>4
<1>5. CASE Logout \/ RegisterAnswer
  BY <1>2, <1>5 DEF Logout, RegisterAnswer, server
<1>6. CASE Quit
  <2>1. /\ UNCHANGED <<delivered, withdrawn, files, crossed>> /\ main'.sent = {}
        /\ \A a \in Accounts : outbox'[a] \subseteq outbox[a]
    BY <1>6 DEF Quit, NoUser, without
  <2> QED
    BY <2>1, NothingBack
<1>7. CASE ShowReceivedLog \/ PollNobody \/ ShowSentLog
  BY <1>2, <1>7 DEF ShowReceivedLog, PollNobody, ShowSentLog, server
<1>8. ASSUME NEW a \in Accounts, Register(a) PROVE RevokedStaysGone'
  <2>1. \A b \in Accounts : files'[b].sent = files[b].sent
    BY <1>8 DEF Register, Types, Files
  <2> QED
    BY <1>2, <1>8, <2>1 DEF Register, server
<1>9. ASSUME NEW a \in Accounts, NEW opened, NEW mine, NEW state,
             Store(a, opened, mine, state), UNCHANGED <<server, withdrawn, crossed>>
      PROVE  RevokedStaysGone'
  <2>1. main'.sent = main.sent
    BY <1>9, StoreGlobals
  <2>2. files'[a].sent = files[a].sent /\ \A b \in Accounts \ {a} : files'[b] = files[b]
    BY <1>9, StoreFiles
  <2> QED
    BY <1>2, <1>9, <2>1, <2>2 DEF server
<1>10. ASSUME NEW a \in Accounts, Poll(a) PROVE RevokedStaysGone'
  <2>1. UNCHANGED <<server, withdrawn, crossed>>
    BY <1>10 DEF Poll
  <2>2. CASE UNCHANGED <<main, files>>
    BY <1>2, <2>1, <2>2 DEF server
  <2>3. ASSUME NEW opened \in SUBSET Message, NEW state \in State \cup {Null},
               Store(a, opened, TRUE, state)
        PROVE  RevokedStaysGone'
    BY <1>9, <1>10, <2>1, <2>3
  <2> QED
    BY <1>10, <2>2, <2>3, PollCases
<1>11. ASSUME NEW a \in Accounts, OpkDeleted(a) PROVE RevokedStaysGone'
  <2>1. UNCHANGED <<server, withdrawn, crossed>>
    BY <1>11 DEF OpkDeleted
  <2> QED
    BY <1>9, <1>11, <2>1, OpkDeletedCases
<1>12. ASSUME NEW a \in Accounts, NEW text, NEW state, NEW handler,
              Transmit(a, text, state, handler), \A w \in withdrawn : w.text # text
       PROVE  RevokedStaysGone'
  <2>1. UNCHANGED <<delivered, withdrawn, crossed>>
    BY <1>12 DEF Transmit
  <2>2. main'.sent = main.sent \cup {text}
    BY <1>12, TransmitGlobals
  <2>3. /\ files'[a].sent = main.sent \cup {text}
        /\ \A b \in Accounts \ {a} : files'[b] = files[b]
    BY <1>12, TransmitFiles
  <2>4. /\ outbox'[a] = outbox[a] \cup {text}
        /\ \A b \in Accounts \ {a} : outbox'[b] = outbox[b]
    BY <1>12, TransmitOutbox
  <2> DEFINE new == {text}
  <2>5. /\ \A w \in withdrawn : w.text \notin new
        /\ main'.sent \subseteq main.sent \cup new
        /\ \A b \in Accounts :
             /\ outbox'[b] \subseteq outbox[b] \cup new
             /\ files'[b].sent \subseteq files[b].sent \cup main.sent \cup new
    BY <1>12, <2>2, <2>3, <2>4
  <2> HIDE DEF new
  <2> QED
    BY <2>1, <2>5, NothingBack
<1>13. ASSUME NEW a \in Accounts, Send(a) PROVE RevokedStaysGone'
  <2> DEFINE text == [from |-> a, n |-> written[a]]
             now == [text |-> text, mine |-> TRUE]
  <2>1. text \in Text /\ text.from = a /\ text.n = written[a] /\ written[a] \in Nat
    BY <1>13, SendCases DEF Types
  <2>2. \A w \in withdrawn : w.text # text
    <3> HIDE DEF text
    <3>1. ~Known(text)
      BY <2>1 DEF TextsOK
    <3> QED
      BY <3>1, KnownIn
  <2>3. CASE Transmit(a, text, main.sessions, now)
    <3> HIDE DEF text, now
    <3> QED
      BY <1>12, <1>13, <2>2, <2>3
  <2>4. CASE UNCHANGED <<server, files, main, withdrawn, crossed>>
    BY <1>2, <2>4 DEF server
  <2> QED
    BY <1>13, <2>3, <2>4, SendCases
<1>14. ASSUME NEW a \in Accounts, SendWithBundle(a) PROVE RevokedStaysGone'
  <2>1. send[a] # Null /\ \E state \in State : Transmit(a, send[a].text, state, send[a])
    BY <1>14, SendWithBundleCases
  <2>2. \A w \in withdrawn : w.text # send[a].text
    BY <1>14, <2>1, KnownIn DEF TextsOK
  <2> QED
    BY <1>12, <1>14, <2>1, <2>2
<1>15. ASSUME NEW a \in Accounts, EraseEnd(a) PROVE RevokedStaysGone'
  <2>1. main'.sent = main.sent
    BY <1>15, EraseEndGlobals
  <2>2. files'[a].sent = files[a].sent /\ \A b \in Accounts \ {a} : files'[b] = files[b]
    BY <1>15, EraseEndFiles
  <2> QED
    BY <1>2, <1>15, <2>1, <2>2 DEF EraseEnd
<1>16. ASSUME NEW a \in Accounts, RevokeEnd(a) PROVE RevokedStaysGone'
  <2> DEFINE entry == revoke[a].entry
  <2>1. /\ main'.sent = without(main.sent, entry) /\ revoke[a] # Null
    BY <1>16, RevokeEndGlobals
  <2>2. /\ outbox'[a] = without(outbox[a], entry)
        /\ files'[a].sent = without(main.sent, entry)
        /\ \A b \in Accounts \ {a} : outbox'[b] = outbox[b] /\ files'[b] = files[b]
    BY <1>16, RevokeEndFiles
  <2>3. UNCHANGED <<delivered, crossed>>
    BY <1>16 DEF RevokeEnd
  <2>4. \A w \in withdrawn' :
          \/ w \in withdrawn
          \/ /\ w.text = entry.text /\ w.id = entry.id
             /\ w.unread <=> entry.text \notin delivered
    <3> DEFINE new == [text |-> entry.text, id |-> entry.id,
                       unread |-> entry.text \notin delivered]
    <3>1. withdrawn' = withdrawn \cup {new}
      BY <1>16 DEF RevokeEnd
    <3>2. /\ new.text = entry.text /\ new.id = entry.id
          /\ new.unread <=> entry.text \notin delivered
      OBVIOUS
    <3> HIDE DEF new
    <3> QED
      BY <3>1, <3>2
  <2> HIDE DEF entry
  <2> SUFFICES ASSUME "other" \notin crossed, NEW w \in withdrawn', w.id = "server"
               PROVE  StaysGone(w)'
    BY <2>3 DEF RevokedStaysGone, StaysGone
  <2>5. CASE w \in withdrawn
    <3>1. StaysGone(w) /\ w.text.from \in Accounts
      BY <1>1, <2>5 DEF RevokedStaysGone, StaysGone
    <3> QED
      BY <2>1, <2>2, <2>3, <3>1 DEF StaysGone, without
  <2>6. CASE /\ w.text = entry.text /\ w.id = entry.id
             /\ w.unread <=> entry.text \notin delivered
    <3>1. entry.text.from = a
      BY <1>16, <2>1 DEF EntriesOK, entry
    <3>2. entry.text \notin main'.sent \cup files'[a].sent \cup outbox'[a]
      BY <2>1, <2>2, <2>6 DEF without
    <3> QED
      BY <2>3, <2>6, <3>1, <3>2 DEF StaysGone
  <2> QED
    BY <2>4, <2>5, <2>6
<1>17. ASSUME NEW a \in Accounts, RemoteReads(a) PROVE RevokedStaysGone'
  <2>1. PICK text \in outbox[a] :
          /\ outbox' = [outbox EXCEPT ![a] = @ \ {text}]
          /\ delivered' = delivered \cup {text}
    BY <1>17 DEF RemoteReads
  <2>2. /\ UNCHANGED <<files, main, withdrawn, crossed>> /\ text.from = a
        /\ \A b \in Accounts : outbox'[b] \subseteq outbox[b]
    BY <1>17, <2>1 DEF RemoteReads, OwnersOK, Types
  <2> SUFFICES ASSUME "other" \notin crossed, NEW w \in withdrawn, w.id = "server"
               PROVE  StaysGone(w)'
    BY <2>2 DEF RevokedStaysGone, StaysGone
  <2>3. StaysGone(w) /\ w.text.from \in Accounts
    BY <1>1 DEF RevokedStaysGone, StaysGone
  <2>4. w.unread => w.text # text
    BY <2>1, <2>2, <2>3 DEF StaysGone
  <2> QED
    BY <2>1, <2>2, <2>3, <2>4 DEF StaysGone
<1>18. ASSUME NEW a \in Accounts,
              \/ SignIn(a) \/ FetchEnd(a) \/ StartErase(a) \/ StartRevoke(a)
              \/ RemoteWrites(a)
       PROVE  RevokedStaysGone'
  BY <1>2, <1>18
  DEF SignIn, FetchEnd, StartErase, StartRevoke, RemoteWrites, server
<1> QED
  BY <1>3, <1>4, <1>5, <1>6, <1>7, <1>8, <1>10, <1>11, <1>13, <1>14, <1>15, <1>16,
     <1>17, <1>18 DEF Next

---------------------------------------------------------------------------
(* Where a message is.                                                     *)

(* Every step leaves the next message unknown.                             *)
LEMMA ArrivedNext == ASSUME Types, OwnersOK, ArrivedOK, Next PROVE ArrivedOK'
<1>1. CASE /\ UNCHANGED arrived
           /\ \A m \in main'.received : m.n < arrived[m.to]
           /\ \A a \in Accounts :
                /\ mailbox'[a] \subseteq mailbox[a]
                /\ \A m \in files'[a].received : m.n < arrived[m.to]
                /\ \A m \in fetch'[a].queue : m.n < arrived[m.to]
  BY <1>1 DEF ArrivedOK
<1>2. /\ \A m \in main.received : m.n < arrived[m.to]
      /\ \A a \in Accounts : \A m \in mailbox[a] : m.n < arrived[m.to]
      /\ \A a \in Accounts : \A m \in files[a].received : m.n < arrived[m.to]
      /\ \A a \in Accounts : \A m \in fetch[a].queue : m.n < arrived[m.to]
  BY DEF ArrivedOK
<1>3. CASE WriteSalt
  <2>1. /\ auth.of \in Accounts
        /\ \A a \in Accounts : files'[a].received \subseteq files[a].received
    BY <1>3 DEF WriteSalt, NoFiles, Types
  <2> QED
    BY <1>1, <1>2, <1>3, <2>1 DEF WriteSalt, server, handlers
<1>4. CASE Login
  <2>1. \/ main' = main
        \/ auth.of \in Accounts /\ main' = globals(auth.of)
    BY <1>4 DEF Login, open, Types
  <2>2. \A m \in main'.received : m.n < arrived[m.to]
    BY <1>2, <2>1 DEF globals
  <2> QED
    BY <1>1, <1>2, <1>4, <2>2 DEF Login, server, handlers
<1>5. CASE Logout
  <2>1. \A a \in Accounts : fetch'[a].queue = fetch[a].queue
    BY <1>5 DEF Logout, Unmount, Types, Fetch
  <2> QED
    BY <1>1, <1>2, <1>5, <2>1 DEF Logout, server
<1>6. CASE Quit
  BY <1>1, <1>2, <1>6 DEF Quit, NoUser
<1>7. CASE RegisterAnswer \/ ShowReceivedLog \/ PollNobody \/ ShowSentLog
  BY <1>1, <1>2, <1>7
  DEF RegisterAnswer, ShowReceivedLog, PollNobody, ShowSentLog, server, handlers
<1>8. ASSUME NEW a \in Accounts, Register(a) PROVE ArrivedOK'
  <2>1. \A b \in Accounts : files'[b].received = files[b].received
    BY <1>8 DEF Register, Types, Files
  <2> QED
    BY <1>1, <1>2, <1>8, <2>1 DEF Register, server, handlers
<1>9. ASSUME NEW a \in Accounts, NEW opened, NEW mine, NEW state,
             Store(a, opened, mine, state), UNCHANGED <<mailbox, arrived>>,
             opened \subseteq mailbox[a] \cup fetch[a].queue
      PROVE  ArrivedOK'
  <2>1. main'.received = main.received \cup opened
    BY <1>9, StoreGlobals
  <2>2. files'[a].received =
          IF opened \subseteq main.received THEN files[a].received
          ELSE main.received \cup opened
    BY <1>9, StoreReceived
  <2>3. \A b \in Accounts \ {a} : files'[b] = files[b]
    BY <1>9, StoreFiles
  <2>4. fetch'[a].queue = opened /\ \A b \in Accounts \ {a} : fetch'[b] = fetch[b]
    BY <1>9, StoreFetch
  <2>5. \A m \in opened : m.n < arrived[m.to]
    BY <1>2, <1>9
  <2>6. \A m \in main'.received : m.n < arrived[m.to]
    BY <1>2, <2>1, <2>5
  <2>7. \A m \in files'[a].received : m.n < arrived[m.to]
    BY <1>2, <1>9, <2>2, <2>5
  <2> QED
    BY <1>1, <1>2, <1>9, <2>3, <2>4, <2>5, <2>6, <2>7
<1>10. ASSUME NEW a \in Accounts, Poll(a) PROVE ArrivedOK'
  <2>1. UNCHANGED <<mailbox, arrived>>
    BY <1>10 DEF Poll, server
  <2>2. CASE /\ fetch' = [fetch EXCEPT ![a] =
                    [pc |-> "opk", queue |-> mailbox[a], mine |-> TRUE]]
             /\ UNCHANGED <<main, files>>
    <3>1. \A b \in Accounts : fetch'[b].queue \in {fetch[b].queue, mailbox[b]}
      BY <1>10, <2>2 DEF Types
    <3> QED
      BY <1>1, <1>2, <2>1, <2>2, <3>1
  <2>3. ASSUME NEW opened \in SUBSET Message, NEW state \in State \cup {Null},
               Store(a, opened, TRUE, state), opened \subseteq mailbox[a]
        PROVE  ArrivedOK'
    BY <1>9, <1>10, <2>1, <2>3
  <2> QED
    BY <1>10, <2>2, <2>3, PollCases
<1>11. ASSUME NEW a \in Accounts, OpkDeleted(a) PROVE ArrivedOK'
  <2>1. UNCHANGED <<mailbox, arrived>>
    BY <1>11 DEF OpkDeleted, server
  <2>2. PICK opened \in SUBSET Message, state \in State \cup {Null} :
          /\ Store(a, opened, fetch[a].mine, state)
          /\ opened \subseteq fetch[a].queue
    BY <1>11, OpkDeletedCases
  <2> QED
    BY <1>9, <1>11, <2>1, <2>2
<1>12. ASSUME NEW a \in Accounts, FetchEnd(a) PROVE ArrivedOK'
  <2>1. /\ UNCHANGED <<arrived, files, main>>
        /\ \A b \in Accounts :
             /\ mailbox'[b] \subseteq mailbox[b]
             /\ fetch'[b].queue \subseteq fetch[b].queue
    BY <1>12 DEF FetchEnd, Types, Idle
  <2> QED
    BY <1>1, <1>2, <2>1
<1>13. ASSUME NEW a \in Accounts, NEW text, NEW state, NEW handler,
              Transmit(a, text, state, handler)
       PROVE  ArrivedOK'
  <2>1. main'.received = main.received
    BY <1>13, TransmitGlobals
  <2>2. /\ files'[a].received = files[a].received
        /\ \A b \in Accounts \ {a} : files'[b] = files[b]
    BY <1>13, TransmitFiles
  <2> QED
    BY <1>1, <1>2, <1>13, <2>1, <2>2 DEF Transmit
<1>14. ASSUME NEW a \in Accounts, Send(a) PROVE ArrivedOK'
  <2> DEFINE text == [from |-> a, n |-> written[a]]
             now == [text |-> text, mine |-> TRUE]
  <2>1. \/ Transmit(a, text, main.sessions, now)
        \/ UNCHANGED <<server, files, main, fetch>>
    BY <1>14, SendCases
  <2> HIDE DEF text, now
  <2> QED
    BY <1>1, <1>2, <1>13, <1>14, <2>1 DEF server
<1>15. ASSUME NEW a \in Accounts, SendWithBundle(a) PROVE ArrivedOK'
  BY <1>13, <1>15, SendWithBundleCases
<1>16. ASSUME NEW a \in Accounts, EraseEnd(a) PROVE ArrivedOK'
  <2>1. main'.received \subseteq main.received
    BY <1>16, EraseEndGlobals
  <2>2. /\ files'[a].received \subseteq main.received
        /\ \A b \in Accounts \ {a} : files'[b] = files[b]
        /\ \A b \in Accounts : mailbox'[b] \subseteq mailbox[b]
    BY <1>16, EraseEndFiles
  <2> QED
    BY <1>1, <1>2, <1>16, <2>1, <2>2 DEF EraseEnd
<1>17. ASSUME NEW a \in Accounts, RevokeEnd(a) PROVE ArrivedOK'
  <2>1. main'.received = main.received
    BY <1>17, RevokeEndGlobals
  <2>2. /\ files'[a].received = files[a].received
        /\ \A b \in Accounts \ {a} : files'[b] = files[b]
    BY <1>17, RevokeEndFiles
  <2> QED
    BY <1>1, <1>2, <1>17, <2>1, <2>2 DEF RevokeEnd
<1>18. ASSUME NEW a \in Accounts, RemoteWrites(a) PROVE ArrivedOK'
  <2> DEFINE m == [to |-> a, n |-> arrived[a], x3dh |-> arrived[a] = 0 /\ ~HasRead(a)]
  <2>1. /\ UNCHANGED <<files, main, fetch>>
        /\ mailbox' = [mailbox EXCEPT ![a] = @ \cup {m}]
        /\ arrived' = [arrived EXCEPT ![a] = @ + 1]
    BY <1>18 DEF RemoteWrites, handlers
  <2>2. m.to = a /\ m.n = arrived[a]
    OBVIOUS
  <2> HIDE DEF m
  <2>3. \A b \in Accounts : arrived[b] \in Nat /\ arrived'[b] \in Nat
                           /\ arrived[b] <= arrived'[b]
                           /\ arrived[a] < arrived'[a]
    BY <1>18, <2>1 DEF Types
  <2>4. \A x \in Message : x.to \in Accounts /\ x.n \in Nat
    BY DEF Message
  <2>5. \A x \in Message : x.n < arrived[x.to] => x.n < arrived'[x.to]
    BY <2>3, <2>4
  <2>6. \A b \in Accounts :
          /\ mailbox[b] \subseteq Message /\ files[b].received \subseteq Message
          /\ fetch[b].queue \subseteq Message
    BY DEF Types, Files, Fetch
  <2>7. \A b \in Accounts : \A x \in mailbox'[b] : x \in mailbox[b] \/ x = m
    BY <1>18, <2>1 DEF Types
  <2>8. \A b \in Accounts : \A x \in mailbox'[b] : x.n < arrived'[x.to]
    BY <1>2, <1>18, <2>2, <2>3, <2>5, <2>6, <2>7
  <2>9. main.received \subseteq Message
    BY DEF Types, Globals
  <2> QED
    BY <1>2, <2>1, <2>5, <2>6, <2>8, <2>9 DEF ArrivedOK
<1>19. ASSUME NEW a \in Accounts,
              SignIn(a) \/ StartErase(a) \/ StartRevoke(a) \/ RemoteReads(a)
       PROVE  ArrivedOK'
  BY <1>1, <1>2, <1>19
  DEF SignIn, StartErase, StartRevoke, RemoteReads, server, handlers
<1> QED
  BY <1>3, <1>4, <1>5, <1>6, <1>7, <1>8, <1>10, <1>11, <1>12, <1>14, <1>15, <1>16,
     <1>17, <1>18, <1>19 DEF Next

(* A step that logs nothing and leaves the polls alone.                    *)
LEMMA SameMailbox ==
  ASSUME MailboxOK, crossed \subseteq crossed',
         \A a \in Accounts :
           /\ mailbox'[a] \subseteq mailbox[a] /\ Log(a)' \subseteq Log(a)
           /\ fetch'[a].pc = fetch[a].pc /\ fetch'[a].queue = fetch[a].queue
  PROVE  MailboxOK'
BY DEF MailboxOK

(* What a poll stores was in nobody's log.                                 *)
LEMMA StoreMailbox ==
  ASSUME Types, MailboxOK, NEW a \in Accounts, crossed = {} => main.user = a,
         NEW opened, NEW mine, NEW state, Store(a, opened, mine, state),
         UNCHANGED <<mailbox, crossed>>, fetch[a].pc # "delete"
  PROVE  MailboxOK'
<1>1. main'.user = main.user /\ main'.received = main.received \cup opened
  BY StoreGlobals
<1>2. files'[a].received = IF opened \subseteq main.received THEN files[a].received
                           ELSE main.received \cup opened
  BY StoreReceived
<1>3. \A b \in Accounts \ {a} : files'[b] = files[b]
  BY StoreFiles
<1>4. /\ fetch'[a].pc = "delete" /\ fetch'[a].queue = opened
      /\ \A b \in Accounts \ {a} : fetch'[b] = fetch[b]
  BY StoreFetch
<1> SUFFICES ASSUME crossed = {} PROVE MailboxOK'
  BY DEF MailboxOK
<1>5. Log(a)' \subseteq Log(a) \cup opened
  BY <1>1, <1>2 DEF Log
<1>6. \A b \in Accounts \ {a} : Log(b)' = Log(b)
  BY <1>1, <1>3 DEF Log
<1>7. mailbox[a] \cap Log(a) = {}
  BY DEF MailboxOK
<1>8. \A m \in mailbox'[a] \cap Log(a)' : m \in fetch'[a].queue
  BY <1>4, <1>5, <1>7
<1> QED
  BY <1>4, <1>6, <1>8 DEF MailboxOK

(* Every step keeps mailbox and log apart.                                 *)
LEMMA MailboxNext ==
  ASSUME Types, LoginOK, OwnersOK, ArrivedOK, MailboxOK, Next PROVE MailboxOK'
<1>1. CASE /\ UNCHANGED <<mailbox, fetch, main, crossed>>
           /\ \A a \in Accounts : files'[a].received \subseteq files[a].received
  BY <1>1, SameMailbox DEF Log
<1>2. CASE WriteSalt
  <2>1. /\ auth.of \in Accounts
        /\ \A a \in Accounts : files'[a].received \subseteq files[a].received
    BY <1>2 DEF WriteSalt, NoFiles, Types
  <2> QED
    BY <1>1, <1>2, <2>1 DEF WriteSalt, server, handlers
<1>3. CASE Login
  <2>1. UNCHANGED <<mailbox, fetch, files>> /\ crossed \subseteq crossed'
    BY <1>3 DEF Login, server, handlers
  <2>2. \/ main' = main
        \/ /\ auth.of \in Accounts
           /\ main'.user = auth.of /\ main'.received = files[auth.of].received
    BY <1>3 DEF Login, open, Types, globals
  <2>3. \A a \in Accounts : Log(a)' \subseteq Log(a)
    BY <2>1, <2>2 DEF Log
  <2> QED
    BY <2>1, <2>3, SameMailbox
<1>4. CASE Logout
  <2>1. /\ UNCHANGED <<mailbox, main, files, crossed>>
        /\ \A a \in Accounts : fetch'[a].pc = fetch[a].pc /\ fetch'[a].queue = fetch[a].queue
    BY <1>4 DEF Logout, Unmount, Types, Fetch, server
  <2> QED
    BY <2>1, SameMailbox DEF Log
<1>5. CASE Quit
  <2>1. UNCHANGED <<mailbox, files, fetch, crossed>> /\ main'.received = {}
    BY <1>5 DEF Quit, NoUser
  <2> QED
    BY <2>1, SameMailbox DEF Log
<1>6. CASE RegisterAnswer \/ ShowReceivedLog \/ PollNobody \/ ShowSentLog
  BY <1>1, <1>6
  DEF RegisterAnswer, ShowReceivedLog, PollNobody, ShowSentLog, server, handlers
<1>7. ASSUME NEW a \in Accounts, Register(a) PROVE MailboxOK'
  <2>1. \A b \in Accounts : files'[b].received = files[b].received
    BY <1>7 DEF Register, Types, Files
  <2> QED
    BY <1>1, <1>7, <2>1 DEF Register, server, handlers
<1>8. ASSUME NEW a \in Accounts, Poll(a) PROVE MailboxOK'
  <2>1. /\ UNCHANGED <<mailbox, crossed>> /\ main.user = a
        /\ fetch[a].pc = "idle"
    BY <1>8 DEF Poll, server
  <2>2. CASE /\ fetch' = [fetch EXCEPT ![a] =
                    [pc |-> "opk", queue |-> mailbox[a], mine |-> TRUE]]
             /\ UNCHANGED <<main, files>>
    <3>1. /\ fetch'[a].pc = "opk" /\ fetch'[a].queue = mailbox[a]
          /\ \A b \in Accounts \ {a} : fetch'[b] = fetch[b]
      BY <1>8, <2>2 DEF Types
    <3>2. \A b \in Accounts : Log(b)' = Log(b)
      BY <2>2 DEF Log
    <3>3. crossed = {} => mailbox[a] \cap Log(a) = {}
      BY <1>8, <2>1 DEF MailboxOK
    <3> QED
      BY <2>1, <3>1, <3>2, <3>3 DEF MailboxOK
  <2>3. ASSUME NEW opened \in SUBSET Message, NEW state \in State \cup {Null},
               Store(a, opened, TRUE, state)
        PROVE  MailboxOK'
    BY <1>8, <2>1, <2>3, StoreMailbox
  <2> QED
    BY <1>8, <2>2, <2>3, PollCases
<1>9. ASSUME NEW a \in Accounts, OpkDeleted(a) PROVE MailboxOK'
  <2>1. UNCHANGED <<mailbox, crossed>> /\ fetch[a].pc = "opk" /\ Awaits(a)
    BY <1>9 DEF OpkDeleted, server, Awaits
  <2>2. crossed = {} => main.user = a
    BY <1>9, <2>1, AwaitsGlobals DEF GlobalsOf
  <2> QED
    BY <1>9, <2>1, <2>2, OpkDeletedCases, StoreMailbox
<1>10. ASSUME NEW a \in Accounts, FetchEnd(a) PROVE MailboxOK'
  <2>1. /\ UNCHANGED <<files, main, crossed>> /\ fetch[a].pc = "delete"
        /\ mailbox'[a] = mailbox[a] \ fetch[a].queue /\ fetch'[a].pc = "idle"
        /\ \A b \in Accounts \ {a} : mailbox'[b] = mailbox[b] /\ fetch'[b] = fetch[b]
    BY <1>10 DEF FetchEnd, Types, Idle
  <2>2. \A b \in Accounts : Log(b)' = Log(b)
    BY <2>1 DEF Log
  <2>3. crossed = {} => mailbox'[a] \cap Log(a) = {}
    BY <1>10, <2>1 DEF MailboxOK
  <2> QED
    BY <2>1, <2>2, <2>3 DEF MailboxOK
<1>11. ASSUME NEW a \in Accounts, NEW text, NEW state, NEW handler,
              Transmit(a, text, state, handler)
       PROVE  MailboxOK'
  <2>1. main'.received = main.received /\ main'.user = main.user
    BY <1>11, TransmitGlobals
  <2>2. /\ files'[a].received = files[a].received
        /\ \A b \in Accounts \ {a} : files'[b] = files[b]
    BY <1>11, TransmitFiles
  <2>3. UNCHANGED <<mailbox, fetch, crossed>>
    BY <1>11 DEF Transmit
  <2>4. \A b \in Accounts : Log(b)' = Log(b)
    BY <2>1, <2>2 DEF Log
  <2> QED
    BY <2>3, <2>4, SameMailbox
<1>12. ASSUME NEW a \in Accounts, Send(a) PROVE MailboxOK'
  <2> DEFINE text == [from |-> a, n |-> written[a]]
             now == [text |-> text, mine |-> TRUE]
  <2>1. \/ Transmit(a, text, main.sessions, now)
        \/ UNCHANGED <<server, files, main, fetch, crossed>>
    BY <1>12, SendCases
  <2> HIDE DEF text, now
  <2> QED
    BY <1>1, <1>11, <1>12, <2>1 DEF server
<1>13. ASSUME NEW a \in Accounts, SendWithBundle(a) PROVE MailboxOK'
  BY <1>11, <1>13, SendWithBundleCases
<1>14. ASSUME NEW a \in Accounts, EraseEnd(a) PROVE MailboxOK'
  <2>1. UNCHANGED <<fetch, crossed>> /\ Awaits(a)
    BY <1>14 DEF EraseEnd, Awaits
  <2>2. main'.received \subseteq main.received /\ main'.user = main.user
    BY <1>14, EraseEndGlobals
  <2>3. /\ files'[a].received \subseteq main.received
        /\ \A b \in Accounts \ {a} : files'[b] = files[b]
        /\ \A b \in Accounts : mailbox'[b] \subseteq mailbox[b]
    BY <1>14, EraseEndFiles
  <2>4. crossed = {} => main.user = a
    BY <1>14, <2>1, AwaitsGlobals DEF GlobalsOf
  <2>5. crossed = {} => \A b \in Accounts : Log(b)' \subseteq Log(b)
    BY <2>2, <2>3, <2>4 DEF Log
  <2> QED
    BY <2>1, <2>3, <2>5 DEF MailboxOK
<1>15. ASSUME NEW a \in Accounts, RevokeEnd(a) PROVE MailboxOK'
  <2>1. main'.received = main.received /\ main'.user = main.user
    BY <1>15, RevokeEndGlobals
  <2>2. /\ files'[a].received = files[a].received
        /\ \A b \in Accounts \ {a} : files'[b] = files[b]
    BY <1>15, RevokeEndFiles
  <2>3. UNCHANGED <<mailbox, fetch, crossed>>
    BY <1>15 DEF RevokeEnd
  <2>4. \A b \in Accounts : Log(b)' = Log(b)
    BY <2>1, <2>2 DEF Log
  <2> QED
    BY <2>3, <2>4, SameMailbox
<1>16. ASSUME NEW a \in Accounts, RemoteWrites(a) PROVE MailboxOK'
  <2> DEFINE m == [to |-> a, n |-> arrived[a], x3dh |-> arrived[a] = 0 /\ ~HasRead(a)]
  <2>1. /\ UNCHANGED <<files, main, fetch, crossed>>
        /\ mailbox' = [mailbox EXCEPT ![a] = @ \cup {m}]
    BY <1>16 DEF RemoteWrites, handlers
  <2>2. m.to = a /\ m.n = arrived[a]
    OBVIOUS
  <2> HIDE DEF m
  <2>3. \A b \in Accounts : arrived[b] \in Nat
    BY DEF Types
  <2>4. \A b \in Accounts : \A x \in Log(b) \cup fetch[b].queue : x.n < arrived[x.to]
    BY DEF ArrivedOK, Log
  <2>5. m \notin Log(a)
    BY <1>16, <2>2, <2>3, <2>4
  <2>6. \A b \in Accounts : Log(b)' = Log(b)
    BY <2>1 DEF Log
  <2>7. /\ mailbox'[a] = mailbox[a] \cup {m}
        /\ \A b \in Accounts \ {a} : mailbox'[b] = mailbox[b]
    BY <1>16, <2>1 DEF Types
  <2>8. \A b \in Accounts : mailbox'[b] \cap Log(b) = mailbox[b] \cap Log(b)
    BY <2>5, <2>7
  <2> QED
    BY <2>1, <2>6, <2>8 DEF MailboxOK
<1>17. ASSUME NEW a \in Accounts,
              SignIn(a) \/ StartErase(a) \/ StartRevoke(a) \/ RemoteReads(a)
       PROVE  MailboxOK'
  BY <1>1, <1>17
  DEF SignIn, StartErase, StartRevoke, RemoteReads, server, handlers
<1> QED
  BY <1>2, <1>3, <1>4, <1>5, <1>6, <1>7, <1>8, <1>9, <1>10, <1>12, <1>13, <1>14,
     <1>15, <1>16, <1>17 DEF Next

---------------------------------------------------------------------------
(* The list of received messages.                                          *)

(* A step that leaves the list, the log and the handlers alone.            *)
LEMMA SameReceived ==
  ASSUME ReceivedViewOK, UNCHANGED <<fetch, erase>>,
         main'.received = main.received, view'.received = view.received,
         \/ view'.stage = view.stage
         \/ view.stage # "history" /\ view'.stage # "history",
         \A a \in Accounts : Calm(a)' => Calm(a)
  PROVE  ReceivedViewOK'
BY DEF ReceivedViewOK, Coming

(* What is stored is coming.                                               *)
LEMMA StoreReceivedView ==
  ASSUME Types, ReceivedViewOK, NEW a \in Accounts, crossed = {} => main.user = a,
         NEW opened, NEW mine, NEW state, Store(a, opened, mine, state),
         UNCHANGED <<view, erase, ui, crossed>>,
         fetch[a].pc # "delete",
         crossed = {} => opened \cap main.received = {},
         Calm(a) => mine /\ view.stage # "history"
  PROVE  ReceivedViewOK'
<1>1. main'.user = main.user /\ main'.received = main.received \cup opened
  BY StoreGlobals
<1>2. /\ fetch'[a].pc = "delete" /\ fetch'[a].queue = opened
      /\ fetch'[a].mine = mine
  BY DEF Types, Store
<1> SUFFICES ASSUME NEW b \in Accounts, Calm(b)
             PROVE  /\ fetch'[b].pc = "opk" => fetch'[b].mine
                    /\ erase[b] # Null =>
                         erase[b].mine /\ erase[b].message \in view.received
                    /\ view.stage = "history" => view.received = {}
                    /\ view.stage # "history" =>
                         /\ view.received \cup Coming(b)' = main'.received
                         /\ view.received \cap Coming(b)' = {}
  BY <1>1 DEF ReceivedViewOK, Calm
<1>3. b = a
  BY DEF Calm
<1>4. Coming(b) = {} /\ Coming(b)' = opened
  BY <1>2, <1>3 DEF Coming
<1>5. view.received = main.received
  BY <1>3, <1>4 DEF ReceivedViewOK
<1> QED
  BY <1>1, <1>2, <1>3, <1>4, <1>5 DEF ReceivedViewOK, Calm

(* The list and what is coming make up the log after every step.           *)
LEMMA ReceivedViewNext ==
  ASSUME Types, LoginOK, OwnersOK, MailboxOK, ReceivedViewOK, Next
  PROVE  ReceivedViewOK'
<1>1. CASE UNCHANGED <<fetch, erase, main, view, ui, crossed>>
  BY <1>1, SameReceived DEF Calm
<1>2. CASE WriteSalt \/ RegisterAnswer
  BY <1>1, <1>2 DEF WriteSalt, RegisterAnswer, handlers
<1>3. CASE Login
  <2>1. /\ auth # Null /\ auth.of \in Accounts /\ ui = Null
        /\ UNCHANGED <<fetch, erase>>
    BY <1>3 DEF Login, LoginOK, Types, handlers
  <2>2. CASE MayLogin(auth.of)
    <3>1. view' = Mounted /\ ui' = auth.of
      BY <1>3, <2>2 DEF Login, open
    <3>2. crossed' = {} => \A x \in Accounts : ~Awaits(x)
      BY <1>3, <2>2 DEF Login
    <3>3. crossed' = {} => \A x \in Accounts : fetch[x].pc # "opk" /\ erase[x] = Null
      BY <3>2 DEF Awaits
    <3>4. view'.stage = "history" /\ view'.received = {}
      BY <3>1 DEF Mounted, NoView
    <3> QED
      BY <2>1, <3>3, <3>4 DEF ReceivedViewOK, Calm
  <2>3. CASE ~MayLogin(auth.of)
    BY <1>3, <2>1, <2>3, DesktopAssumption DEF Login, open, ReceivedViewOK, Calm
  <2> QED
    BY <2>2, <2>3
<1>4. CASE Logout \/ Quit
  <2>1. ui' = Null \/ main'.user = Null
    BY <1>4 DEF Logout, Quit, NoUser
  <2> QED
    BY <2>1, DesktopAssumption DEF ReceivedViewOK, Calm
<1>5. CASE ShowReceivedLog
  <2>1. /\ UNCHANGED <<fetch, erase, main, ui, crossed>>
        /\ view.stage = "history"
        /\ view'.stage = "poll" /\ view'.received = main.received
    BY <1>5 DEF ShowReceivedLog, Types, View, handlers
  <2>2. \A a \in Accounts : Coming(a)' = {}
    BY <2>1 DEF Coming, LoginOK
  <2> QED
    BY <2>1, <2>2 DEF ReceivedViewOK, Calm
<1>6. CASE PollNobody
  BY <1>6, DesktopAssumption DEF PollNobody, ReceivedViewOK, Calm
<1>7. CASE ShowSentLog
  <2>1. /\ UNCHANGED <<fetch, erase, main, ui, crossed>> /\ view.stage = "sent"
        /\ view'.stage = "open" /\ view'.received = view.received
    BY <1>7 DEF ShowSentLog, Types, View, handlers
  <2> QED
    BY <2>1, SameReceived DEF Calm
<1>8. ASSUME NEW a \in Accounts, Poll(a) PROVE ReceivedViewOK'
  <2>1. /\ UNCHANGED <<view, erase, ui, crossed>> /\ view.stage # "history"
        /\ ui = a /\ main.user = a /\ fetch[a].pc = "idle"
    BY <1>8 DEF Poll, timeToPoll
  <2>2. CASE /\ fetch' = [fetch EXCEPT ![a] =
                    [pc |-> "opk", queue |-> mailbox[a], mine |-> TRUE]]
             /\ UNCHANGED <<main, files>>
    <3>1. fetch'[a].pc = "opk" /\ fetch'[a].mine
      BY <1>8, <2>2 DEF Types
    <3>2. Coming(a)' = {} /\ Coming(a) = {}
      BY <2>1, <3>1 DEF Coming
    <3>3. \A b \in Accounts : Calm(b)' => Calm(b) /\ b = a
      BY <2>1, <2>2 DEF Calm
    <3> QED
      BY <2>1, <2>2, <3>1, <3>2, <3>3 DEF ReceivedViewOK
  <2>3. ASSUME NEW opened \in SUBSET Message, NEW state \in State \cup {Null},
               Store(a, opened, TRUE, state), opened \subseteq mailbox[a]
        PROVE  ReceivedViewOK'
    <3>1. crossed = {} => opened \cap main.received = {}
      BY <1>8, <2>1, <2>3 DEF MailboxOK, Log
    <3> QED
      BY <1>8, <2>1, <2>3, <3>1, StoreReceivedView
  <2> QED
    BY <1>8, <2>2, <2>3, PollCases
<1>9. ASSUME NEW a \in Accounts, OpkDeleted(a) PROVE ReceivedViewOK'
  <2>1. /\ UNCHANGED <<view, erase, ui, crossed>> /\ fetch[a].pc = "opk"
        /\ Awaits(a)
    BY <1>9 DEF OpkDeleted, Awaits
  <2>2. crossed = {} => main.user = a
    BY <1>9, <2>1, AwaitsGlobals DEF GlobalsOf
  <2>3. PICK opened \in SUBSET Message, state \in State \cup {Null} :
          /\ Store(a, opened, fetch[a].mine, state)
          /\ opened \subseteq fetch[a].queue
    BY <1>9, OpkDeletedCases
  <2>4. crossed = {} => opened \cap main.received = {}
    BY <1>9, <2>1, <2>2, <2>3 DEF MailboxOK, Log
  <2>5. Calm(a) => fetch[a].mine /\ view.stage # "history"
    BY <1>9, <2>1 DEF ReceivedViewOK, LoginOK
  <2> QED
    BY <1>9, <2>1, <2>2, <2>3, <2>4, <2>5, StoreReceivedView
<1>10. ASSUME NEW a \in Accounts, FetchEnd(a) PROVE ReceivedViewOK'
  <2>1. /\ UNCHANGED <<main, erase, ui, crossed>> /\ fetch[a].pc = "delete"
        /\ fetch'[a] = Idle
        /\ \A b \in Accounts \ {a} : fetch'[b] = fetch[b]
    BY <1>10 DEF FetchEnd, Types
  <2>2. CASE fetch[a].mine
    <3>1. /\ view'.received = view.received \cup fetch[a].queue
          /\ view'.stage = IF view.stage = "poll" THEN "sent" ELSE view.stage
      BY <1>10, <2>2 DEF FetchEnd, Show, merged, Types, View
    <3>2. ui = a /\ view.stage # "history"
      BY <1>10, <2>2 DEF LoginOK, Mine
    <3>3. Coming(a) = fetch[a].queue /\ Coming(a)' = {}
      BY <2>1, <2>2 DEF Coming, Idle
    <3>4. \A b \in Accounts : Calm(b)' => Calm(b) /\ b = a
      BY <2>1, <3>2 DEF Calm
    <3>5. fetch'[a].pc # "opk"
      BY <2>1 DEF Idle
    <3> QED
      BY <2>1, <3>1, <3>2, <3>3, <3>4, <3>5 DEF ReceivedViewOK
  <2>3. CASE ~fetch[a].mine
    <3>1. view' = view
      BY <1>10, <2>3 DEF FetchEnd, Show
    <3>2. \A b \in Accounts : /\ Coming(b)' = Coming(b)
                              /\ fetch'[b] = fetch[b] \/ fetch'[b].pc = "idle"
      BY <2>1, <2>3 DEF Coming, Idle
    <3> QED
      BY <2>1, <3>1, <3>2 DEF ReceivedViewOK, Calm
  <2> QED
    BY <2>2, <2>3
<1>11. ASSUME NEW a \in Accounts, NEW text, NEW state, NEW handler,
              Transmit(a, text, state, handler)
       PROVE  ReceivedViewOK'
  <2>1. UNCHANGED <<fetch, erase, ui, crossed>>
    BY <1>11 DEF Transmit
  <2>2. main'.user = main.user /\ main'.received = main.received
    BY <1>11, TransmitGlobals
  <2>3. view'.stage = view.stage /\ view'.received = view.received
    BY <1>11, TransmitView
  <2> QED
    BY <2>1, <2>2, <2>3, SameReceived DEF Calm
<1>12. ASSUME NEW a \in Accounts, Send(a) PROVE ReceivedViewOK'
  <2> DEFINE text == [from |-> a, n |-> written[a]]
             now == [text |-> text, mine |-> TRUE]
  <2>1. \/ Transmit(a, text, main.sessions, now)
        \/ UNCHANGED <<fetch, erase, main, view, ui, crossed>>
    BY <1>12, SendCases
  <2> HIDE DEF text, now
  <2> QED
    BY <1>1, <1>11, <1>12, <2>1
<1>13. ASSUME NEW a \in Accounts, SendWithBundle(a) PROVE ReceivedViewOK'
  BY <1>11, <1>13, SendWithBundleCases
<1>14. ASSUME NEW a \in Accounts, StartErase(a) PROVE ReceivedViewOK'
  <2>1. PICK m \in view.received :
          erase' = [erase EXCEPT ![a] = [message |-> m, mine |-> TRUE]]
    BY <1>14 DEF StartErase
  <2>2. /\ erase'[a].mine /\ erase'[a].message = m
        /\ \A b \in Accounts \ {a} : erase'[b] = erase[b]
    BY <1>14, <2>1 DEF Types
  <2>3. UNCHANGED <<fetch, main, view, ui, crossed>>
    BY <1>14 DEF StartErase
  <2> QED
    BY <2>2, <2>3 DEF ReceivedViewOK, Calm, Coming
<1>15. ASSUME NEW a \in Accounts, EraseEnd(a) PROVE ReceivedViewOK'
  <2>1. UNCHANGED <<fetch, ui, crossed>> /\ Awaits(a)
    BY <1>15 DEF EraseEnd, Awaits
  <2>2. /\ main'.user = main.user /\ erase[a] # Null /\ erase'[a] = Null
        /\ main'.received = main.received \ {erase[a].message}
    BY <1>15, EraseEndGlobals
  <2>3. /\ view'.stage = view.stage
        /\ view'.received = IF erase[a].mine
                            THEN view.received \ {erase[a].message}
                            ELSE view.received
    BY <1>15, EraseEndView
  <2>4. crossed = {} => main.user = a
    BY <1>15, <2>1, AwaitsGlobals DEF GlobalsOf
  <2>5. \A b \in Accounts : Calm(b)' => Calm(b) /\ b = a
    BY <2>1, <2>2, <2>4 DEF Calm
  <2>6. Coming(a)' = Coming(a)
    BY <2>1 DEF Coming
  <2> QED
    BY <2>1, <2>2, <2>3, <2>5, <2>6 DEF ReceivedViewOK
<1>16. ASSUME NEW a \in Accounts, RevokeEnd(a) PROVE ReceivedViewOK'
  <2>1. UNCHANGED <<fetch, erase, ui, crossed>>
    BY <1>16 DEF RevokeEnd
  <2>2. main'.user = main.user /\ main'.received = main.received
    BY <1>16, RevokeEndGlobals
  <2>3. view'.stage = view.stage /\ view'.received = view.received
    BY <1>16, RevokeEndView
  <2> QED
    BY <2>1, <2>2, <2>3, SameReceived DEF Calm
<1>17. ASSUME NEW a \in Accounts,
              \/ Register(a) \/ SignIn(a) \/ StartRevoke(a)
              \/ RemoteWrites(a) \/ RemoteReads(a)
       PROVE  ReceivedViewOK'
  BY <1>1, <1>17
  DEF Register, SignIn, StartRevoke, RemoteWrites, RemoteReads, handlers
<1> QED
  BY <1>2, <1>3, <1>4, <1>5, <1>6, <1>7, <1>8, <1>9, <1>10, <1>12, <1>13, <1>14,
     <1>15, <1>16, <1>17 DEF Next

---------------------------------------------------------------------------
(* The list of sent messages.                                              *)

(* A step that leaves the list and the log alone and lets no handler begin *)
(* but one that will show its answer.                                      *)
LEMMA SameSent ==
  ASSUME SentViewOK, UNCHANGED revoke, withdrawn \subseteq withdrawn',
         main'.sent = main.sent, view'.sent = view.sent,
         view'.stage = "open" <=> view.stage = "open",
         \A a \in Accounts : send'[a] # Null => send'[a].mine \/ send'[a] = send[a],
         \A a \in Accounts : Calm(a)' => Calm(a)
  PROVE  SentViewOK'
BY DEF SentViewOK

(* A new text goes to the log and the list alike.                          *)
LEMMA TransmitSentView ==
  ASSUME Types, SentViewOK, NEW a \in Accounts, crossed = {} => main.user = a,
         NEW text, NEW state, NEW handler, Transmit(a, text, state, handler),
         ~Known(text), Calm(a) => handler.mine,
         \A b \in Accounts : send'[b] # Null => send'[b] = send[b]
  PROVE  SentViewOK'
<1>1. UNCHANGED <<revoke, withdrawn, ui, crossed>>
  BY DEF Transmit
<1>2. main'.user = main.user /\ main'.sent = main.sent \cup {text}
  BY TransmitGlobals
<1>3. /\ view'.stage = view.stage
      /\ view'.sent = IF handler.mine
                      THEN view.sent \cup {[text |-> text, id |-> "random"]}
                      ELSE view.sent
  BY TransmitView
<1>4. \A b \in Accounts : Calm(b)' => Calm(b) /\ b = a
  BY <1>1, <1>2 DEF Calm
<1>5. \A e \in view.sent : e.text # text
  BY KnownIn
<1> DEFINE new == [text |-> text, id |-> "random"]
<1>6. new.text = text /\ new.id = "random"
  OBVIOUS
<1>7. Calm(a) => view'.sent = view.sent \cup {new}
  BY <1>3
<1> HIDE DEF new
<1> SUFFICES ASSUME Calm(a)
             PROVE  /\ send'[a] # Null => send'[a].mine
                    /\ revoke[a] # Null =>
                         /\ revoke[a].mine
                         /\ revoke[a].entry.id = "server" => revoke[a].entry \in view'.sent
                    /\ \A e \in view'.sent : e.text \in main'.sent
                    /\ \A e, f \in view'.sent : e.text = f.text => e = f
                    /\ view.stage # "open" => \A e \in view'.sent : e.id = "random"
                    /\ view.stage = "open" => \A t \in main'.sent :
                         \/ \E e \in view'.sent : e.text = t
                         \/ \E w \in withdrawn : w.text = t /\ w.id = "random"
  BY <1>1, <1>3, <1>4 DEF SentViewOK
<1>8. /\ send[a] # Null => send[a].mine
      /\ revoke[a] # Null =>
           /\ revoke[a].mine
           /\ revoke[a].entry.id = "server" => revoke[a].entry \in view.sent
  BY DEF SentViewOK
<1>9. /\ \A e \in view.sent : e.text \in main.sent
      /\ \A e, f \in view.sent : e.text = f.text => e = f
      /\ view.stage # "open" => \A e \in view.sent : e.id = "random"
      /\ view.stage = "open" => \A t \in main.sent :
           \/ \E e \in view.sent : e.text = t
           \/ \E w \in withdrawn : w.text = t /\ w.id = "random"
  BY DEF SentViewOK
<1> QED
  BY <1>2, <1>5, <1>6, <1>7, <1>8, <1>9

(* What is shown of the sent log is in it, and what is not was withdrawn   *)
(* under a random id, after every step.                                    *)
LEMMA SentViewNext ==
  ASSUME Types, LoginOK, TextsOK, SentViewOK, Next PROVE SentViewOK'
<1>1. CASE UNCHANGED <<send, revoke, main, view, ui, crossed, withdrawn>>
  BY <1>1, SameSent DEF Calm
<1>2. CASE WriteSalt \/ RegisterAnswer
  BY <1>1, <1>2 DEF WriteSalt, RegisterAnswer, handlers
<1>3. CASE Login
  <2>1. /\ auth # Null /\ auth.of \in Accounts /\ ui = Null
        /\ UNCHANGED <<send, revoke>>
    BY <1>3 DEF Login, LoginOK, Types, handlers
  <2>2. CASE MayLogin(auth.of)
    <3>1. view' = Mounted /\ ui' = auth.of
      BY <1>3, <2>2 DEF Login, open
    <3>2. crossed' = {} => \A x \in Accounts : ~Awaits(x)
      BY <1>3, <2>2 DEF Login
    <3>3. crossed' = {} => \A x \in Accounts : send[x] = Null /\ revoke[x] = Null
      BY <3>2 DEF Awaits
    <3>4. view'.stage = "history" /\ view'.sent = {}
      BY <3>1 DEF Mounted, NoView
    <3> QED
      BY <2>1, <3>3, <3>4 DEF SentViewOK, Calm
  <2>3. CASE ~MayLogin(auth.of)
    BY <1>3, <2>1, <2>3, DesktopAssumption DEF Login, open, SentViewOK, Calm
  <2> QED
    BY <2>2, <2>3
<1>4. CASE Logout \/ Quit
  <2>1. ui' = Null \/ main'.user = Null
    BY <1>4 DEF Logout, Quit, NoUser
  <2> QED
    BY <2>1, DesktopAssumption DEF SentViewOK, Calm
<1>5. CASE ShowReceivedLog
  <2>1. /\ UNCHANGED <<send, revoke, main, ui, crossed, withdrawn>>
        /\ view.stage = "history" /\ view'.stage = "poll"
        /\ view'.sent = view.sent
    BY <1>5 DEF ShowReceivedLog, Types, View, handlers
  <2> QED
    BY <2>1, SameSent DEF Calm
<1>6. CASE PollNobody
  BY <1>6, DesktopAssumption DEF PollNobody, SentViewOK, Calm
<1>7. CASE ShowSentLog
  <2> DEFINE list == {[text |-> t, id |-> "server"] : t \in main.sent}
  <2>1. /\ UNCHANGED <<send, revoke, main, ui, crossed, withdrawn>>
        /\ view.stage = "sent" /\ view'.stage = "open" /\ view'.sent = list
    BY <1>7 DEF ShowSentLog, Types, View, handlers
  <2>2. /\ \A e \in list : e.text \in main.sent
        /\ \A e, f \in list : e.text = f.text => e = f
        /\ \A t \in main.sent : \E e \in list : e.text = t
    <3>1. \A e \in list : e.text \in main.sent /\ e = [text |-> e.text, id |-> "server"]
      OBVIOUS
    <3>2. ASSUME NEW t \in main.sent PROVE \E e \in list : e.text = t
      <4>1. [text |-> t, id |-> "server"] \in list
        OBVIOUS
      <4>2. [text |-> t, id |-> "server"].text = t
        OBVIOUS
      <4> QED
        BY <4>1, <4>2
    <3> HIDE DEF list
    <3> QED
      BY <3>1, <3>2
  <2> HIDE DEF list
  <2>3. \A a \in Accounts : Calm(a) =>
          /\ send[a] # Null => send[a].mine
          /\ revoke[a] # Null => revoke[a].mine /\ revoke[a].entry.id # "server"
    BY <2>1 DEF SentViewOK
  <2> QED
    BY <2>1, <2>2, <2>3 DEF SentViewOK, Calm
<1>8. ASSUME NEW a \in Accounts, Poll(a) \/ OpkDeleted(a) PROVE SentViewOK'
  <2>1. UNCHANGED <<send, revoke, view, ui, crossed, withdrawn>>
    BY <1>8 DEF Poll, OpkDeleted
  <2>2. main' = main \/ \E opened, state, mine : Store(a, opened, mine, state)
    <3>1. CASE Poll(a)
      BY <1>8, <3>1, PollCases
    <3>2. CASE OpkDeleted(a)
      BY <1>8, <3>2, OpkDeletedCases
    <3> QED
      BY <1>8, <3>1, <3>2
  <2>3. main'.user = main.user /\ main'.sent = main.sent
    BY <1>8, <2>2, StoreGlobals
  <2> QED
    BY <2>1, <2>3, SameSent DEF Calm
<1>9. ASSUME NEW a \in Accounts, FetchEnd(a) PROVE SentViewOK'
  <2>1. UNCHANGED <<send, revoke, main, ui, crossed, withdrawn>>
    BY <1>9 DEF FetchEnd
  <2>2. view'.sent = view.sent /\ (view'.stage = "open" <=> view.stage = "open")
    BY <1>9 DEF FetchEnd, Show, Types, View
  <2> QED
    BY <2>1, <2>2, SameSent DEF Calm
<1>10. ASSUME NEW a \in Accounts, Send(a) PROVE SentViewOK'
  <2> DEFINE text == [from |-> a, n |-> written[a]]
             now == [text |-> text, mine |-> TRUE]
  <2>1. text \in Text /\ text.from = a /\ text.n = written[a] /\ written[a] \in Nat
    BY <1>10, SendCases DEF Types
  <2>2. main.user = a
    BY <1>10 DEF Send
  <2>3. CASE Transmit(a, text, main.sessions, now) /\ UNCHANGED send
    <3>1. now.mine
      OBVIOUS
    <3> HIDE DEF text, now
    <3>2. ~Known(text)
      BY <2>1 DEF TextsOK
    <3> QED
      BY <1>10, <2>2, <2>3, <3>1, <3>2, TransmitSentView
  <2>4. CASE /\ send' = [send EXCEPT ![a] = now]
             /\ UNCHANGED <<main, revoke, ui, view, withdrawn, crossed>>
    <3>1. send'[a].mine /\ \A b \in Accounts \ {a} : send'[b] = send[b]
      BY <1>10, <2>4 DEF Types
    <3> HIDE DEF text, now
    <3> QED
      BY <2>4, <3>1, SameSent DEF Calm
  <2> QED
    BY <1>10, <2>3, <2>4, SendCases
<1>11. ASSUME NEW a \in Accounts, SendWithBundle(a) PROVE SentViewOK'
  <2>1. PICK state \in State : Transmit(a, send[a].text, state, send[a])
    BY <1>11, SendWithBundleCases
  <2>2. send[a] # Null /\ Awaits(a)
    BY <1>11 DEF SendWithBundle, Awaits
  <2>3. crossed = {} => main.user = a
    BY <1>11, <2>2, AwaitsGlobals DEF GlobalsOf
  <2>4. ~Known(send[a].text)
    BY <1>11, <2>2 DEF TextsOK
  <2>5. Calm(a) => send[a].mine
    BY <1>11, <2>2 DEF SentViewOK
  <2>6. \A b \in Accounts : send'[b] # Null => send'[b] = send[b]
    BY <1>11 DEF SendWithBundle, Types
  <2> QED
    BY <1>11, <2>1, <2>3, <2>4, <2>5, <2>6, TransmitSentView
<1>12. ASSUME NEW a \in Accounts, EraseEnd(a) PROVE SentViewOK'
  <2>1. UNCHANGED <<send, revoke, ui, crossed, withdrawn>>
    BY <1>12 DEF EraseEnd
  <2>2. main'.user = main.user /\ main'.sent = main.sent
    BY <1>12, EraseEndGlobals
  <2>3. view'.stage = view.stage /\ view'.sent = view.sent
    BY <1>12, EraseEndView
  <2> QED
    BY <2>1, <2>2, <2>3, SameSent DEF Calm
<1>13. ASSUME NEW a \in Accounts, StartRevoke(a) PROVE SentViewOK'
  <2>1. PICK entry \in view.sent :
          revoke' = [revoke EXCEPT ![a] = [entry |-> entry, mine |-> TRUE]]
    BY <1>13 DEF StartRevoke
  <2>2. /\ revoke'[a].mine /\ revoke'[a].entry = entry
        /\ \A b \in Accounts \ {a} : revoke'[b] = revoke[b]
    BY <1>13, <2>1 DEF Types
  <2>3. UNCHANGED <<send, main, view, ui, crossed, withdrawn>>
    BY <1>13 DEF StartRevoke
  <2> QED
    BY <2>2, <2>3 DEF SentViewOK, Calm
<1>14. ASSUME NEW a \in Accounts, RevokeEnd(a) PROVE SentViewOK'
  <2>1. UNCHANGED <<send, ui, crossed>> /\ revoke[a] # Null /\ Awaits(a)
    BY <1>14 DEF RevokeEnd, Awaits
  <2>2. /\ main'.user = main.user
        /\ main'.sent = without(main.sent, revoke[a].entry)
        /\ revoke'[a] = Null
    BY <1>14, RevokeEndGlobals
  <2>3. /\ view'.stage = view.stage
        /\ view'.sent = IF revoke[a].mine THEN view.sent \ {revoke[a].entry}
                        ELSE view.sent
    BY <1>14, RevokeEndView
  <2>4. /\ withdrawn \subseteq withdrawn'
        /\ \E w \in withdrawn' :
             w.text = revoke[a].entry.text /\ w.id = revoke[a].entry.id
    <3> DEFINE new == [text |-> revoke[a].entry.text, id |-> revoke[a].entry.id,
                       unread |-> revoke[a].entry.text \notin delivered]
    <3>1. withdrawn' = withdrawn \cup {new}
      BY <1>14 DEF RevokeEnd
    <3>2. new.text = revoke[a].entry.text /\ new.id = revoke[a].entry.id
      OBVIOUS
    <3> HIDE DEF new
    <3> QED
      BY <3>1, <3>2
  <2>5. revoke[a].entry.id \in {"server", "random"}
    BY <1>14, <2>1 DEF Types, Entry
  <2>6. crossed = {} => main.user = a
    BY <1>14, <2>1, AwaitsGlobals DEF GlobalsOf
  <2> SUFFICES ASSUME NEW b \in Accounts, Calm(b)'
               PROVE  /\ send'[b] # Null => send'[b].mine
                      /\ revoke'[b] # Null =>
                           /\ revoke'[b].mine
                           /\ revoke'[b].entry.id = "server" =>
                                revoke'[b].entry \in view'.sent
                      /\ \A e \in view'.sent : e.text \in main'.sent
                      /\ \A e, f \in view'.sent : e.text = f.text => e = f
                      /\ view.stage # "open" => \A e \in view'.sent : e.id = "random"
                      /\ view.stage = "open" => \A t \in main'.sent :
                           \/ \E e \in view'.sent : e.text = t
                           \/ \E w \in withdrawn' : w.text = t /\ w.id = "random"
    BY <2>3 DEF SentViewOK
  <2>7. Calm(a) /\ b = a
    BY <2>1, <2>2, <2>6 DEF Calm
  <2>8. revoke[a].mine
    BY <1>14, <2>1, <2>7 DEF SentViewOK
  <2>9. /\ send[a] # Null => send[a].mine
        /\ revoke[a].entry.id = "server" => revoke[a].entry \in view.sent
        /\ \A e \in view.sent : e.text \in main.sent
        /\ \A e, f \in view.sent : e.text = f.text => e = f
        /\ view.stage # "open" => \A e \in view.sent : e.id = "random"
        /\ view.stage = "open" => \A t \in main.sent :
             \/ \E e \in view.sent : e.text = t
             \/ \E w \in withdrawn : w.text = t /\ w.id = "random"
    BY <1>14, <2>1, <2>7 DEF SentViewOK
  <2>10. view'.sent = view.sent \ {revoke[a].entry}
    BY <2>3, <2>8
  <2> DEFINE entry == revoke[a].entry
  <2> HIDE DEF entry
  <2>11. /\ view'.sent = view.sent \ {entry}
         /\ main'.sent = without(main.sent, entry)
         /\ \E w \in withdrawn' : w.text = entry.text /\ w.id = entry.id
         /\ entry.id \in {"server", "random"}
         /\ entry.id = "server" => entry \in view.sent
    BY <2>2, <2>4, <2>5, <2>9, <2>10 DEF entry
  <2>12. CASE entry.id = "server"
    <3>1. main'.sent = main.sent \ {entry.text}
      BY <2>11, <2>12 DEF without
    <3> QED
      BY <2>1, <2>2, <2>4, <2>7, <2>9, <2>11, <2>12, <3>1
  <2>13. CASE entry.id = "random"
    <3>1. main'.sent = main.sent
      BY <2>11, <2>13 DEF without
    <3> QED
      BY <2>1, <2>2, <2>4, <2>7, <2>9, <2>11, <2>13, <3>1
  <2> QED
    BY <2>11, <2>12, <2>13
<1>15. ASSUME NEW a \in Accounts,
              \/ Register(a) \/ SignIn(a) \/ StartErase(a)
              \/ RemoteWrites(a) \/ RemoteReads(a)
       PROVE  SentViewOK'
  BY <1>1, <1>15
  DEF Register, SignIn, StartErase, RemoteWrites, RemoteReads, handlers
<1> QED
  BY <1>2, <1>3, <1>4, <1>5, <1>6, <1>7, <1>8, <1>9, <1>10, <1>11, <1>12, <1>13,
     <1>14, <1>15 DEF Next

---------------------------------------------------------------------------
(* The inductive invariant, and what follows.                              *)

(* The texts on the list are finitely many: the user wrote them.  As no    *)
(* two entries have the same text there are as many texts as entries.      *)
LEMMA ShownOnce ==
  ASSUME Types, EntriesOK, TextsOK, ui \in Accounts, "other" \notin crossed,
         \A e, f \in view.sent : e.text = f.text => e = f
  PROVE  Cardinality(view.sent) = Cardinality({e.text : e \in view.sent})
<1> DEFINE shown == {e.text : e \in view.sent}
           number == [e \in view.sent |-> e.text.n]
           text == [e \in view.sent |-> e.text]
<1>1. \A e \in view.sent : e.text \in Text /\ e.text.from = ui
  BY DEF Types, View, Entry, EntriesOK
<1>2. \A e \in view.sent : Known(e.text)
  BY KnownIn
<1>3. \A t \in Text : /\ t.n \in Nat
                      /\ t = [from |-> t.from, n |-> t.n]
  BY DEF Text
<1>4. \A e \in view.sent : e.text.n < written[ui] /\ e.text.n \in Nat
  BY <1>1, <1>2, <1>3 DEF TextsOK
<1>5. written[ui] \in Nat
  BY DEF Types
<1>6. number \in Injection(view.sent, 0..(written[ui] - 1))
  <2>1. number \in [view.sent -> 0..(written[ui] - 1)]
    BY <1>4, <1>5
  <2>2. ASSUME NEW e \in view.sent, NEW f \in view.sent, e.text.n = f.text.n
        PROVE  e = f
    <3>1. e.text = f.text
      BY <1>1, <1>3, <2>2
    <3> QED
      BY <3>1
  <2> QED
    BY <2>1, <2>2 DEF Injection, IsInjective
<1>7. IsFiniteSet(view.sent)
  <2>1. IsFiniteSet(0..(written[ui] - 1))
    BY <1>5, FS_Interval
  <2> QED
    BY <1>6, <2>1, FS_Injection
<1>8. text \in Bijection(view.sent, shown)
  <2>1. text \in [view.sent -> shown]
    OBVIOUS
  <2>2. \A e, f \in view.sent : text[e] = text[f] => e = f
    OBVIOUS
  <2>3. \A t \in shown : \E e \in view.sent : text[e] = t
    OBVIOUS
  <2> QED
    BY <2>1, <2>2, <2>3 DEF Bijection, Injection, IsInjective, Surjection
<1> QED
  BY <1>7, <1>8, FS_Bijection DEF ExistsBijection

DesktopInv ==
  /\ Types /\ LoginOK /\ KeysOK /\ OwnersOK /\ TextsOK /\ EntriesOK
  /\ ArrivedOK /\ MailboxOK /\ ReceivedViewOK /\ SentViewOK
  /\ MemoryIsOnDisk /\ RevokedStaysGone

(* It holds of a computer on which nobody has registered.                  *)
LEMMA InitOK == ASSUME Init PROVE DesktopInv
<1>1. /\ main.user = Null /\ main.sessions = Null
      /\ main.received = {} /\ main.sent = {}
      /\ view.stage = "none" /\ view.received = {} /\ view.sent = {}
      /\ ui = Null /\ auth = Null
      /\ delivered = {} /\ withdrawn = {} /\ crossed = {}
  BY DEF Init, NoUser, NoView
<1>2. \A a \in Accounts :
        /\ registered[a] = Null /\ mailbox[a] = {} /\ outbox[a] = {}
        /\ fetch[a].pc = "idle" /\ fetch[a].queue = {} /\ fetch[a].mine = FALSE
        /\ send[a] = Null /\ erase[a] = Null /\ revoke[a] = Null
  BY DEF Init, Idle
<1>3. \A a \in Accounts :
        /\ files[a].sessions = Null
        /\ files[a].received = {} /\ files[a].sent = {}
  BY DEF Init, NoFiles
<1>4. Types
  BY Constants DEF Init, Types
<1>5. LoginOK
  BY <1>1, <1>2 DEF LoginOK, Mine, Awaits
<1>6. KeysOK
  BY <1>1, <1>2 DEF KeysOK
<1>7. OwnersOK /\ EntriesOK
  BY <1>1, <1>2, <1>3 DEF OwnersOK, EntriesOK
<1>8. TextsOK
  BY <1>1, <1>2, <1>3 DEF TextsOK, Known
<1>9. ArrivedOK /\ MailboxOK
  BY <1>1, <1>2, <1>3 DEF ArrivedOK, MailboxOK
<1>10. ReceivedViewOK /\ SentViewOK
  BY <1>1, DesktopAssumption DEF ReceivedViewOK, SentViewOK, Calm
<1>11. MemoryIsOnDisk /\ RevokedStaysGone
  BY <1>1 DEF MemoryIsOnDisk, RevokedStaysGone
<1> QED
  BY <1>4, <1>5, <1>6, <1>7, <1>8, <1>9, <1>10, <1>11 DEF DesktopInv

(* A step that changes nothing keeps it.                                   *)
LEMMA StutterOK == ASSUME DesktopInv, UNCHANGED vars PROVE DesktopInv'
<1> USE DEF vars, server, handlers, counters
<1>1. Types' /\ LoginOK' /\ KeysOK' /\ OwnersOK' /\ EntriesOK'
  BY DEF DesktopInv, Types, LoginOK, Mine, Awaits, KeysOK, OwnersOK, EntriesOK
<1>2. TextsOK'
  BY DEF DesktopInv, TextsOK, Known
<1>3. ArrivedOK' /\ MailboxOK'
  BY DEF DesktopInv, ArrivedOK, MailboxOK, Log
<1>4. ReceivedViewOK' /\ SentViewOK'
  BY DEF DesktopInv, ReceivedViewOK, SentViewOK, Calm, Coming
<1>5. MemoryIsOnDisk' /\ RevokedStaysGone'
  BY DEF DesktopInv, MemoryIsOnDisk, RevokedStaysGone
<1> QED
  BY <1>1, <1>2, <1>3, <1>4, <1>5 DEF DesktopInv

(* It holds at all times.                                                  *)
LEMMA DesktopInvariance == Spec => []DesktopInv
<1>1. ASSUME DesktopInv, Next PROVE DesktopInv'
  BY <1>1, TypesNext, LoginNext, KeysNext, OwnersNext, TextsNext, EntriesNext,
     ArrivedNext, MailboxNext, ReceivedViewNext, SentViewNext, DiskNext, RevokedNext
  DEF DesktopInv
<1>2. DesktopInv /\ [Next]_vars => DesktopInv'
  BY <1>1, StutterOK
<1> QED
  BY <1>2, InitOK, PTL DEF Spec

(* The files and the globals hold what their loaders can read, and main.js *)
(* and ChatApp.jsx agree on who is logged in, up to a restart of main.     *)
THEOREM DesktopTypeCorrect == Spec => []TypeOK
<1>1. ASSUME DesktopInv PROVE TypeOK
  <2>1. Types /\ LoginOK
    BY <1>1 DEF DesktopInv
  <2>2. ASSUME NEW a \in Accounts
        PROVE  /\ files[a] \in Files /\ fetch[a] \in Fetch
               /\ mailbox[a] \subseteq Message /\ outbox[a] \subseteq Text
    BY <2>1 DEF Types
  <2>3. /\ registered \in [Accounts -> Nat \cup {Null}]
        /\ main \in Globals /\ view \in View
        /\ ui # Null => main.user \in {ui, Null}
        /\ (ui = Null) = (view.stage = "none")
    BY <2>1 DEF Types, LoginOK
  <2> QED
    BY <2>2, <2>3 DEF TypeOK, IsState, Files, Fetch, Globals, View
<1> QED
  BY <1>1, DesktopInvariance, PTL

(* main.js:60-95: what the main process keeps for a user on disk is that   *)
(* user's, as long as no login crosses a handler of another account.       *)
THEOREM EachUsersFilesAreTheirOwn == Spec => []FilesApart
<1>1. DesktopInv => FilesApart
  BY DEF DesktopInv, OwnersOK, FilesApart
<1> QED
  BY <1>1, DesktopInvariance, PTL

(* A restart loses nothing: the files have what memory has whenever the    *)
(* chat is open.                                                           *)
THEOREM NothingInMemoryOnly == Spec => []MemoryIsOnDisk
<1>1. DesktopInv => MemoryIsOnDisk
  BY DEF DesktopInv
<1> QED
  BY <1>1, DesktopInvariance, PTL

(* account.js: the key file of an account registered once opens and has    *)
(* the keys that the server hands out.                                     *)
THEOREM RegisteredKeysFit == Spec => []KeysFit
<1>1. DesktopInv => KeysFit
  BY DEF DesktopInv, KeysOK, KeysFit
<1> QED
  BY <1>1, DesktopInvariance, PTL

(* main.js:205-228: a text revoked in time is not read and stays out of    *)
(* the logs.                                                               *)
THEOREM RevokedTextsStayGone == Spec => []RevokedStaysGone
<1>1. DesktopInv => RevokedStaysGone
  BY DEF DesktopInv
<1> QED
  BY <1>1, DesktopInvariance, PTL

(* ChatApp.jsx: an open chat shows what the logs have, each text once, but *)
(* for texts that were taken off the list under an id of the list's own.   *)
THEOREM ListsMatchLogs == Spec => []ViewMatchesLog
<1>1. ASSUME DesktopInv PROVE ViewMatchesLog
  <2> DEFINE shown == {e.text : e \in view.sent}
  <2> SUFFICES ASSUME crossed = {}, view.stage = "open", main.user = ui,
                      fetch[ui].pc = "idle"
               PROVE  /\ view.received = main.received
                      /\ Cardinality(view.sent) = Cardinality(shown)
                      /\ shown \subseteq main.sent
                      /\ \A t \in main.sent \ shown :
                           \E w \in withdrawn : w.text = t /\ w.id = "random"
    BY DEF ViewMatchesLog
  <2>1. ui \in Accounts
    BY <1>1 DEF DesktopInv, Types, LoginOK
  <2>2. Calm(ui)
    BY <2>1 DEF Calm
  <2>3. view.received = main.received
    BY <1>1, <2>1, <2>2 DEF DesktopInv, ReceivedViewOK, Coming
  <2>4. /\ \A e \in view.sent : e.text \in main.sent
        /\ \A e, f \in view.sent : e.text = f.text => e = f
        /\ \A t \in main.sent :
             \/ \E e \in view.sent : e.text = t
             \/ \E w \in withdrawn : w.text = t /\ w.id = "random"
    BY <1>1, <2>1, <2>2 DEF DesktopInv, SentViewOK
  <2>5. Cardinality(view.sent) = Cardinality(shown)
    BY <1>1, <2>1, <2>4, ShownOnce DEF DesktopInv
  <2> QED
    BY <2>3, <2>4, <2>5
<1> QED
  BY <1>1, DesktopInvariance, PTL
============================================================================
