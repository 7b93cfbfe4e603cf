--------------------------------- MODULE Chat ---------------------------------
(***************************************************************************)
(* The conversation of a customer and a provider over Firestore              *)
(* (lib/screens/chat/user_chat_screen.dart, lib/services/chat_services.dart  *)
(* and lib/services/user_services.dart).  Both ends run the same screen.     *)
(*                                                                           *)
(* Each user keeps a copy of every message and a contact document about the  *)
(* other one.  A user's presence is written into the other one's contact     *)
(* document; whether a message was read is kept in its sender's copy, where  *)
(* the receiver's unread count is taken from.                                *)
(***************************************************************************)
EXTENDS Naturals, Sequences

CONSTANTS Messages,   \* messages, each sent at most once
          FromCustomer, \* the ones the customer sends
          MaxWrites,  \* bound: presence writes under way, of both users
          MaxOpens    \* bound: times the chat is opened, by either user

Users == {"customer", "provider"}

ASSUME MessagesAssumption == FromCustomer \subseteq Messages
ASSUME BoundsAssumption == MaxWrites \in Nat /\ MaxOpens \in Nat

Peer == [u \in Users |-> IF u = "customer" THEN "provider" ELSE "customer"]
Sender(m) == IF m \in FromCustomer THEN "customer" ELSE "provider"
Receiver(m) == Peer[Sender(m)]

VARIABLES screen,   \* the last screen opened: closed, in front, or in the background
          opened,   \* how many screens each user has opened, one after the other
          inits,    \* the init()s that run, each with its screen's number, between two awaits
          stream,   \* the open screen's subscription to the contact document
          isReceiverOnline, \* the open screen's field
          contact,  \* each user's contact document about the other
          writes,   \* presence writes on their way to Firestore, in order
          notFound, \* presences of updates that found no document, their catch not yet run
          stage,    \* how far sendMessages has come with a message
          sentIn,   \* the sender's screen that runs it; 0 if none does
          isRead,   \* isMessageRead in each user's copy, or of the message about to be added
          copy,     \* the messages in each user's collection
          history   \* since a user's last opening: was killed; sent an online presence once closed

presence == <<writes, notFound>>
screens == <<screen, opened, inits, stream>>
messages == <<stage, sentIn, isRead, copy>>
vars == <<presence, screens, messages, contact, isReceiverOnline, history>>

Stages == {"unsent", "checking", "getOwn", "setOwn", "getPeer", "setPeer",
           "adding", "added", "both", "done", "failed"}

\* An update whose process has been killed is delivered, but nobody hears of its failure.
Write == [op : {"update", "orphan", "set"}, status : 0..1]

InitCall == [screen : Nat, at : {"checking", "querying", "marking"}, unread : SUBSET Messages]

\* Well-formed documents, writes and screens.
TypeOK ==
  /\ screen \in [Users -> {"closed", "front", "back"}]
  /\ opened \in [Users -> Nat]
  /\ inits \in [Users -> SUBSET InitCall]
  /\ stream \in [Users -> BOOLEAN]
  /\ isReceiverOnline \in [Users -> 0..1]
  /\ contact \in [Users -> [exists : BOOLEAN, isOnline : 0..1]]
  /\ writes \in [Users -> Seq(Write)]
  /\ notFound \in [Users -> Seq(0..1)]
  /\ stage \in [Messages -> Stages]
  /\ sentIn \in [Messages -> Nat]
  /\ isRead \in [Users -> [Messages -> BOOLEAN]]
  /\ copy \in [Users -> SUBSET Messages]
  /\ history \in [Users -> [killed : BOOLEAN, late : BOOLEAN]]

Init ==
  /\ screen = [u \in Users |-> "closed"]
  /\ opened = [u \in Users |-> 0]
  /\ inits = [u \in Users |-> {}]
  /\ stream = [u \in Users |-> FALSE]
  /\ isReceiverOnline = [u \in Users |-> 0]
  /\ contact \in {[u \in Users |-> [exists |-> e, isOnline |-> 0]] : e \in BOOLEAN}
  /\ writes = [u \in Users |-> <<>>]
  /\ notFound = [u \in Users |-> <<>>]
  /\ stage = [m \in Messages |-> "unsent"]
  /\ sentIn = [m \in Messages |-> 0]
  /\ isRead = [u \in Users |-> [m \in Messages |-> FALSE]]
  /\ copy = [u \in Users |-> {}]
  /\ history = [u \in Users |-> [killed |-> FALSE, late |-> FALSE]]

\* Whether a screen is the open one: what runs on for a closed screen writes to the fields of
\* that screen, which nobody reads any more.
IsOpen(u, i) == screen[u] # "closed" /\ opened[u] = i

-----------------------------------------------------------------------------
(* Presence.  1 is online and 0 offline, as every caller of setOnlineCount    *)
(* and isReceiverUserOnline have it; the comment in setOnlineCount            *)
(* (chat_services.dart:228) says the opposite.                                *)

UnderWay(u) == Len(writes[u]) + Len(notFound[u])

\* setOnlineCount, not awaited: writes of one device reach Firestore in order.
SetOnlineCount(u, status) ==
  /\ UnderWay(u) + UnderWay(Peer[u]) < MaxWrites
  /\ writes' = [writes EXCEPT ![u] = Append(@, [op |-> "update", status |-> status])]
  /\ UNCHANGED notFound

\* History: an online presence is sent although no screen is open.
NoteLate(u, status) ==
  history' = [history EXCEPT ![u].late = screen[u] = "closed" /\ status = 1]

\* The next write reaches its document.
PresenceWritten(u) ==
  /\ writes[u] # <<>>
  /\ Head(writes[u]).op = "set" \/ contact[Peer[u]].exists
  /\ contact' = [contact EXCEPT ![Peer[u]] =
                   [exists |-> TRUE, isOnline |-> Head(writes[u]).status]]
  /\ writes' = [writes EXCEPT ![u] = Tail(@)]
  /\ UNCHANGED <<notFound, screens, messages, isReceiverOnline, history>>

\* The document of an update is missing.
PresenceNotFound(u) ==
  /\ writes[u] # <<>>
  /\ Head(writes[u]).op # "set" /\ ~contact[Peer[u]].exists
  /\ notFound' = [notFound EXCEPT ![u] = IF Head(writes[u]).op = "update"
                                         THEN Append(@, Head(writes[u]).status) ELSE @]
  /\ writes' = [writes EXCEPT ![u] = Tail(@)]
  /\ UNCHANGED <<screens, messages, contact, isReceiverOnline, history>>

\* The catch of setOnlineCount: a merging set follows, behind what was written meanwhile.
PresenceMerged(u) ==
  /\ notFound[u] # <<>>
  /\ writes' = [writes EXCEPT ![u] = Append(@, [op |-> "set", status |-> Head(notFound[u])])]
  /\ notFound' = [notFound EXCEPT ![u] = Tail(@)]
  /\ NoteLate(u, Head(notFound[u]))
  /\ UNCHANGED <<screens, messages, contact, isReceiverOnline>>

\* The stream of the contact document emits.
StatusChanged(u) ==
  /\ stream[u]
  /\ isReceiverOnline' = [isReceiverOnline EXCEPT ![u] = contact[u].isOnline]
  /\ UNCHANGED <<presence, screens, messages, contact, history>>

-----------------------------------------------------------------------------
(* init().                                                                  *)

\* initState: both users are fetched, then isReceiverInContacts is asked.  The init() of a
\* former screen may still be running.
OpenChat(u) ==
  /\ screen[u] = "closed" /\ opened[u] + opened[Peer[u]] < MaxOpens
  /\ screen' = [screen EXCEPT ![u] = "front"]
  /\ opened' = [opened EXCEPT ![u] = @ + 1]
  /\ inits' = [inits EXCEPT ![u] =
                 @ \cup {[screen |-> opened[u] + 1, at |-> "checking", unread |-> {}]}]
  /\ history' = [history EXCEPT ![u] = [killed |-> FALSE, late |-> FALSE]]
  /\ UNCHANGED <<presence, stream, messages, contact, isReceiverOnline>>

\* init() comes to its next await, or ends.
InitGoesOn(u, call, next) ==
  inits' = [inits EXCEPT ![u] = (@ \ {call}) \cup next]

\* A failed read ends init(), like an unknown contact.
InContacts(u, call) ==
  /\ call.at = "checking"
  /\ \/ InitGoesOn(u, call, {})
     \/ contact[u].exists /\ InitGoesOn(u, call, {[call EXCEPT !.at = "querying"]})
  /\ UNCHANGED <<presence, screen, opened, stream, messages, contact, isReceiverOnline, history>>

\* Mutant: the user's own collection.
OwnCollection(u) == u

\* setUnReadStatusToTrue works on the other user's collection, on messages of both.
MarkedCollection(u) == Peer[u]

UnreadQueried(u, call) ==
  /\ call.at = "querying"
  /\ LET c == MarkedCollection(u) IN
       InitGoesOn(u, call, {[call EXCEPT !.at = "marking",
                                         !.unread = {m \in copy[c] : ~isRead[c][m]}]})
  /\ UNCHANGED <<presence, screen, opened, stream, messages, contact, isReceiverOnline, history>>

\* The batch is committed, unless a message of it has been deleted; then the presence is
\* written and the stream listened to, also if the screen has been closed meanwhile.
UnreadMarked(u, call) ==
  /\ call.at = "marking"
  /\ InitGoesOn(u, call, {})
  /\ LET c == MarkedCollection(u) IN
       isRead' = IF call.unread \subseteq copy[c]
                 THEN [isRead EXCEPT ![c] = [m \in Messages |-> @[m] \/ m \in call.unread]]
                 ELSE isRead
  /\ SetOnlineCount(u, 1)
  /\ NoteLate(u, 1)
  /\ stream' = [stream EXCEPT ![u] = @ \/ IsOpen(u, call.screen)]
  /\ UNCHANGED <<screen, opened, contact, isReceiverOnline, stage, sentIn, copy>>

-----------------------------------------------------------------------------
(* Life cycle.                                                              *)

Paused(u) ==
  /\ screen[u] = "front"
  /\ screen' = [screen EXCEPT ![u] = "back"]
  /\ SetOnlineCount(u, 0)
  /\ UNCHANGED <<opened, inits, stream, messages, contact, isReceiverOnline, history>>

Resumed(u) ==
  /\ screen[u] = "back"
  /\ screen' = [screen EXCEPT ![u] = "front"]
  /\ SetOnlineCount(u, 1)
  /\ UNCHANGED <<opened, inits, stream, messages, contact, isReceiverOnline, history>>

\* dispose: of the screen's fields nothing is left to read.
CloseScreen(u) ==
  /\ screen' = [screen EXCEPT ![u] = "closed"]
  /\ stream' = [stream EXCEPT ![u] = FALSE]
  /\ isReceiverOnline' = [isReceiverOnline EXCEPT ![u] = 0]

\* Mutant: dispose cancels the stream and leaves the presence.
DisposeOnline(u) ==
  /\ screen[u] = "front"
  /\ CloseScreen(u)
  /\ UNCHANGED <<presence, opened, inits, messages, contact, history>>

Dispose(u) ==
  /\ screen[u] = "front"
  /\ CloseScreen(u)
  /\ SetOnlineCount(u, 0)
  /\ UNCHANGED <<opened, inits, messages, contact, history>>

\* The process is killed while some of this is under way; Firestore delivers the writes it
\* holds at the next start.
Kill(u) ==
  /\ \/ screen[u] # "closed" \/ inits[u] # {} \/ writes[u] # <<>> \/ notFound[u] # <<>>
     \/ \E m \in Messages : Sender(m) = u /\ stage[m] \notin {"unsent", "done", "failed"}
  /\ CloseScreen(u)
  /\ inits' = [inits EXCEPT ![u] = {}]
  /\ writes' = [writes EXCEPT ![u] = [k \in DOMAIN @ |->
                  IF @[k].op = "update" THEN [@[k] EXCEPT !.op = "orphan"] ELSE @[k]]]
  /\ notFound' = [notFound EXCEPT ![u] = <<>>]
  /\ stage' = [m \in Messages |-> IF Sender(m) = u /\ stage[m] \notin {"unsent", "done"}
                                  THEN "failed" ELSE stage[m]]
  /\ history' = [history EXCEPT ![u] = [killed |-> TRUE, late |-> FALSE]]
  /\ sentIn' = [m \in Messages |-> IF Sender(m) = u THEN 0 ELSE sentIn[m]]
  /\ UNCHANGED <<opened, isRead, copy, contact>>

-----------------------------------------------------------------------------
(* sendMessages.                                                            *)

Step(m, from, to) == stage[m] = from /\ stage' = [stage EXCEPT ![m] = to]

\* The message is put together; whether it counts as read is decided here.
SendMessage(m) ==
  /\ screen[Sender(m)] = "front"
  /\ Step(m, "unsent", "checking")
  /\ sentIn' = [sentIn EXCEPT ![m] = opened[Sender(m)]]
  /\ isRead' = [u \in Users |->
                   [isRead[u] EXCEPT ![m] = isReceiverOnline[Sender(m)] = 1]]
  /\ UNCHANGED <<presence, screens, copy, contact, isReceiverOnline, history>>

\* isReceiverInContacts, and addToContacts if not: a get and a set for each document, the
\* set replacing the whole document.
ContactsChecked(m) ==
  /\ Step(m, "checking", IF contact[Sender(m)].exists THEN "adding" ELSE "getOwn")
  /\ UNCHANGED <<presence, screens, sentIn, isRead, copy, contact, isReceiverOnline, history>>

ContactRead(m) ==
  /\ \/ Step(m, "getOwn", IF contact[Sender(m)].exists THEN "getPeer" ELSE "setOwn")
     \/ /\ contact[Receiver(m)].exists = FALSE
        /\ Step(m, "getPeer", "setPeer")
  /\ UNCHANGED <<presence, screens, sentIn, isRead, copy, contact, isReceiverOnline, history>>

OwnContactSet(m) ==
  /\ Step(m, "setOwn", "getPeer")
  /\ contact' = [contact EXCEPT ![Sender(m)] = [exists |-> TRUE, isOnline |-> 0]]
  /\ UNCHANGED <<presence, screens, sentIn, isRead, copy, isReceiverOnline, history>>

\* The other document is set, or is found to exist; the stream is listened to.
ContactsAdded(m) ==
  /\ \/ /\ Step(m, "setPeer", "adding")
        /\ contact' = [contact EXCEPT ![Receiver(m)] = [exists |-> TRUE, isOnline |-> 0]]
     \/ /\ contact[Receiver(m)].exists
        /\ Step(m, "getPeer", "adding")
        /\ UNCHANGED contact
  /\ stream' = [stream EXCEPT ![Sender(m)] = @ \/ IsOpen(Sender(m), sentIn[m])]
  /\ UNCHANGED <<presence, screen, opened, inits, sentIn, isRead, copy,
                 isReceiverOnline, history>>

\* addMessage: first the sender's collection, then the receiver's.
AddedToSender(m) ==
  /\ Step(m, "adding", "added")
  /\ copy' = [copy EXCEPT ![Sender(m)] = @ \cup {m}]
  /\ UNCHANGED <<presence, screens, sentIn, isRead, contact, isReceiverOnline, history>>

AddedToReceiver(m) ==
  /\ Step(m, "added", "both")
  /\ copy' = [copy EXCEPT ![Receiver(m)] = @ \cup {m}]
  /\ UNCHANGED <<presence, screens, sentIn, isRead, contact, isReceiverOnline, history>>

\* isReceiverOnline is zeroed, the push is sent, and saveToContacts runs both ways.
MessageSent(m) ==
  /\ Step(m, "both", "done")
  /\ isReceiverOnline' = [isReceiverOnline EXCEPT ![Sender(m)] =
                            IF IsOpen(Sender(m), sentIn[m]) THEN 0 ELSE @]
  /\ contact' = [u \in Users |-> [contact[u] EXCEPT !.exists = TRUE]]
  /\ sentIn' = [sentIn EXCEPT ![m] = 0]
  /\ UNCHANGED <<presence, screens, isRead, copy, history>>

\* A write of addMessage fails: the user sees "failed to send", whatever was written.
SendFails(m) ==
  /\ stage[m] \in {"adding", "added"}
  /\ stage' = [stage EXCEPT ![m] = "failed"]
  /\ sentIn' = [sentIn EXCEPT ![m] = 0]
  /\ UNCHANGED <<presence, screens, isRead, copy, contact, isReceiverOnline, history>>

\* clearAllMessages and deleteSingleMessage touch the user's own collection only.
Clear(u) ==
  /\ screen[u] = "front"
  /\ \E gone \in {copy[u]} \cup {{m} : m \in copy[u]} :
       copy' = [copy EXCEPT ![u] = @ \ gone]
  /\ UNCHANGED <<presence, screens, stage, sentIn, isRead, contact, isReceiverOnline, history>>

Next ==
  \/ \E u \in Users : \/ PresenceWritten(u) \/ PresenceNotFound(u) \/ PresenceMerged(u)
                      \/ StatusChanged(u) \/ OpenChat(u)
                      \/ Paused(u) \/ Resumed(u) \/ Dispose(u) \/ Kill(u) \/ Clear(u)
  \/ \E u \in Users : \E call \in inits[u] :
       InContacts(u, call) \/ UnreadQueried(u, call) \/ UnreadMarked(u, call)
  \/ \E m \in Messages : \/ SendMessage(m) \/ ContactsChecked(m) \/ ContactRead(m)
                         \/ OwnContactSet(m) \/ ContactsAdded(m) \/ AddedToSender(m)
                         \/ AddedToReceiver(m) \/ MessageSent(m) \/ SendFails(m)

Spec == Init /\ [][Next]_vars

-----------------------------------------------------------------------------
(* Properties.                                                              *)

\* Who has left the conversation is not shown as being in it once the writes are through,
\* with two devices, pauses, contact documents missing or replaced, and messages sent
\* meanwhile.  The exceptions since the screen was closed: the process was killed, or the
\* closed screen's init(), or the merging set that follows an update of a missing document,
\* came after dispose and sent the presence again.
PresenceCleared ==
  \A u \in Users :
    screen[u] = "closed" /\ writes[u] = <<>> /\ ~history[u].killed /\ ~history[u].late =>
      contact[Peer[u]].isOnline = 0

\* A message counts as read for its sender, and drops out of the receiver's unread count,
\* only if the receiver has opened the conversation: neither the sender's own opening, which
\* marks messages of both, nor a presence left behind or replaced does it.
ReadMeansOpened ==
  \A m \in Messages : isRead[Sender(m)][m] => opened[Receiver(m)] > 0

\* user_chat_screen.dart:334, "Receiver is online, skipping notification": a push is not
\* sent for a receiver the screen knows to be online.
NoPushWhenOnline ==
  [][\A m \in Messages :
       stage[m] = "both" /\ stage'[m] = "done" => isReceiverOnline[Sender(m)] # 1]_vars
=============================================================================
