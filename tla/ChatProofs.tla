------------------------------ MODULE ChatProofs ------------------------------
(***************************************************************************)
(* What the conversation's documents say about who has opened it and who is  *)
(* in it, for any set of messages and any bounds.                            *)
(***************************************************************************)
EXTENDS Chat, SequenceTheorems, TLAPS

LEMMA PeerFacts ==
  /\ Peer \in [Users -> Users]
  /\ \A u \in Users : Peer[u] # u /\ Peer[Peer[u]] = u
  /\ \A u, v \in Users : v = u \/ v = Peer[u]
  /\ \A m \in Messages : Sender(m) \in Users /\ Receiver(m) \in Users
                         /\ Receiver(m) = Peer[Sender(m)] /\ Peer[Receiver(m)] = Sender(m)
  BY DEF Peer, Users, Sender, Receiver

Record == [killed : BOOLEAN, late : BOOLEAN]
Document == [exists : BOOLEAN, isOnline : 0..1]

\* The part of TypeOK the invariants rest on.
DocsTypeOK ==
  /\ screen \in [Users -> {"closed", "front", "back"}]
  /\ opened \in [Users -> Nat]
  /\ DOMAIN inits = Users
  /\ contact \in [Users -> Document]
  /\ writes \in [Users -> Seq(Write)]
  /\ notFound \in [Users -> Seq(0..1)]
  /\ isReceiverOnline \in [Users -> 0..1]
  /\ isRead \in [Users -> [Messages -> BOOLEAN]]
  /\ history \in [Users -> Record]

\* Of a user who has never opened the conversation nothing in it tells.
NoTrace(u) ==
  /\ screen[u] = "closed" /\ inits[u] = {} /\ writes[u] = <<>> /\ notFound[u] = <<>>
  /\ contact[Peer[u]].isOnline = 0
  /\ isReceiverOnline[Peer[u]] = 0
  /\ \A m \in Messages : Receiver(m) = u => ~isRead[Peer[u]][m]

UnopenedLeavesNoTrace == \A u \in Users : opened[u] = 0 => NoTrace(u)

\* A document that is missing shows nobody.
MissingIsOffline == \A u \in Users : ~contact[u].exists => contact[u].isOnline = 0

\* What a user's presence will be once the writes are through, if none of them finds its
\* document missing.
FinalPresence(u) ==
  IF writes[u] = <<>> THEN contact[Peer[u]].isOnline ELSE writes[u][Len(writes[u])].status

\* A closed screen's presence is cleared by the last write, unless the process was killed or
\* a write was sent for the closed screen.
ClosedIsFinal ==
  \A u \in Users :
    screen[u] = "closed" /\ ~history[u].killed /\ ~history[u].late => FinalPresence(u) = 0

Inv == DocsTypeOK /\ UnopenedLeavesNoTrace /\ MissingIsOffline /\ ClosedIsFinal

LEMMA InitInv == Init => Inv
<1> SUFFICES ASSUME Init PROVE Inv
  OBVIOUS
<1>0. contact \in [Users -> Document] /\ \A u \in Users : contact[u].isOnline = 0
  BY DEF Init, Document
<1>1. DocsTypeOK
  <2>1. history \in [Users -> Record]
    BY DEF Init, Record
  <2>2. writes \in [Users -> Seq(Write)] /\ notFound \in [Users -> Seq(0..1)]
    BY DEF Init
  <2>3. isRead \in [Users -> [Messages -> BOOLEAN]]
    BY DEF Init
  <2> QED  BY <1>0, <2>1, <2>2, <2>3 DEF Init, DocsTypeOK
<1>2. UnopenedLeavesNoTrace
  BY <1>0, PeerFacts DEF Init, UnopenedLeavesNoTrace, NoTrace
<1>3. MissingIsOffline /\ ClosedIsFinal
  BY <1>0, PeerFacts DEF Init, MissingIsOffline, ClosedIsFinal, FinalPresence
<1> QED  BY <1>1, <1>2, <1>3 DEF Inv

LEMMA InvImplies == Inv => ReadMeansOpened /\ PresenceCleared
<1> SUFFICES ASSUME Inv PROVE ReadMeansOpened /\ PresenceCleared
  OBVIOUS
<1>1. ReadMeansOpened
  BY PeerFacts DEF Inv, DocsTypeOK, UnopenedLeavesNoTrace, NoTrace, ReadMeansOpened
<1>2. PresenceCleared
  BY DEF Inv, ClosedIsFinal, FinalPresence, PresenceCleared
<1> QED  BY <1>1, <1>2

-----------------------------------------------------------------------------
(* Presence.                                                                *)

LEMMA Appended ==
  ASSUME Inv, NEW u \in Users, NEW w \in Write, writes' = [writes EXCEPT ![u] = Append(@, w)]
  PROVE  /\ writes' \in [Users -> Seq(Write)]
         /\ writes'[u] # <<>> /\ writes'[u][Len(writes'[u])] = w
         /\ \A v \in Users : v # u => writes'[v] = writes[v]
<1>1. writes[u] \in Seq(Write) /\ writes' = [writes EXCEPT ![u] = Append(writes[u], w)]
  BY DEF Inv, DocsTypeOK
<1>2. writes'[u] = Append(writes[u], w)
  BY <1>1 DEF Inv, DocsTypeOK
<1>3. Append(writes[u], w) \in Seq(Write)
  BY <1>1
<1>4. writes' \in [Users -> Seq(Write)] /\ \A v \in Users : v # u => writes'[v] = writes[v]
  BY <1>1, <1>3 DEF Inv, DocsTypeOK
<1>5. writes'[u] # <<>> /\ writes'[u][Len(writes'[u])] = w
  BY <1>1, <1>2
<1> QED  BY <1>4, <1>5

LEMMA AppendedPresence ==
  ASSUME Inv, NEW u \in Users, NEW status \in 0..1, SetOnlineCount(u, status)
  PROVE  /\ writes' \in [Users -> Seq(Write)]
         /\ writes'[u] # <<>> /\ writes'[u][Len(writes'[u])].status = status
         /\ \A v \in Users : v # u => writes'[v] = writes[v]
         /\ notFound' = notFound
<1> DEFINE w == [op |-> "update", status |-> status]
<1>1. w \in Write /\ w.status = status
  BY DEF Write
<1>2. writes' = [writes EXCEPT ![u] = Append(@, w)] /\ notFound' = notFound
  BY DEF SetOnlineCount
<1> HIDE DEF w
<1> QED  BY <1>1, <1>2, Appended

LEMMA LastOfTail ==
  ASSUME NEW S, NEW w \in Seq(S), w # <<>>
  PROVE  w[Len(w)] = IF Tail(w) = <<>> THEN Head(w) ELSE Tail(w)[Len(Tail(w))]
<1>1. Len(w) \in Nat \ {0} /\ Head(w) = w[1] /\ Len(Tail(w)) = Len(w) - 1
  OBVIOUS
<1>2. CASE Tail(w) = <<>>
  <2> DEFINE n == Len(Tail(w))
  <2>1. n = 0
    BY <1>2, EmptySeq
  <2>2. Len(w) - 1 = n
    BY <1>1
  <2>a. Len(w) \in Nat
    OBVIOUS
  <2> HIDE DEF n
  <2>3. Len(w) = 1
    BY <2>a, <2>1, <2>2
  <2> QED  BY <1>1, <1>2, <2>3
<1>3. CASE Tail(w) # <<>>
  BY <1>3, HeadTailProperties
<1> QED  BY <1>2, <1>3

LEMMA HistoryOf ==
  ASSUME history \in [Users -> Record], NEW u \in Users, NEW r \in Record,
         history' = [history EXCEPT ![u] = r]
  PROVE  /\ history' \in [Users -> Record] /\ history'[u] = r
         /\ \A v \in Users : v # u => history'[v] = history[v]
  OBVIOUS

\* The next write leaves the queue.
LEMMA Shifted ==
  ASSUME Inv, NEW u \in Users, writes[u] # <<>>, writes' = [writes EXCEPT ![u] = Tail(@)]
  PROVE  /\ writes' \in [Users -> Seq(Write)]
         /\ \A v \in Users : v # u => writes'[v] = writes[v]
         /\ Head(writes[u]) \in Write
         /\ writes[u][Len(writes[u])] =
              IF writes'[u] = <<>> THEN Head(writes[u]) ELSE writes'[u][Len(writes'[u])]
         /\ opened[u] # 0
<1>1. writes[u] \in Seq(Write) /\ writes'[u] = Tail(writes[u])
  BY DEF Inv, DocsTypeOK
<1>2. Head(writes[u]) \in Write /\ Tail(writes[u]) \in Seq(Write)
  BY <1>1
<1>3. writes' \in [Users -> Seq(Write)] /\ \A v \in Users : v # u => writes'[v] = writes[v]
  BY <1>2 DEF Inv, DocsTypeOK
<1>4. writes[u][Len(writes[u])] =
        IF Tail(writes[u]) = <<>> THEN Head(writes[u]) ELSE Tail(writes[u])[Len(Tail(writes[u]))]
  BY <1>1, LastOfTail
<1>5. opened[u] # 0
  BY DEF Inv, UnopenedLeavesNoTrace, NoTrace
<1> QED  BY <1>1, <1>2, <1>3, <1>4, <1>5

LEMMA PresenceWrittenKeeps ==
  ASSUME Inv, NEW u \in Users, PresenceWritten(u)
  PROVE  Inv'
<1> USE PeerFacts DEF Inv
<1>0. writes[u] # <<>> /\ writes' = [writes EXCEPT ![u] = Tail(@)]
  BY DEF PresenceWritten
<1>1. /\ writes' \in [Users -> Seq(Write)] /\ Head(writes[u]) \in Write
      /\ \A v \in Users : v # u => writes'[v] = writes[v]
      /\ writes[u][Len(writes[u])] =
           IF writes'[u] = <<>> THEN Head(writes[u]) ELSE writes'[u][Len(writes'[u])]
      /\ opened[u] # 0
  BY <1>0, Shifted
<1>2. UNCHANGED <<notFound, screen, opened, inits, isRead, isReceiverOnline, history>>
  BY DEF PresenceWritten, screens, messages
<1> DEFINE d == [exists |-> TRUE, isOnline |-> Head(writes[u]).status]
<1>3. d \in Document /\ d.exists /\ d.isOnline = Head(writes[u]).status
  BY <1>1 DEF Write, Document
<1>4. contact' = [contact EXCEPT ![Peer[u]] = d]
  BY DEF PresenceWritten
<1> HIDE DEF d
<1>5. /\ contact' \in [Users -> Document] /\ contact'[Peer[u]] = d
      /\ \A v \in Users : v # Peer[u] => contact'[v] = contact[v]
  BY <1>3, <1>4 DEF DocsTypeOK
<1>a. \A v \in Users : v # u => contact'[Peer[v]] = contact[Peer[v]]
  BY <1>5
<1>6. DocsTypeOK'
  BY <1>1, <1>2, <1>5 DEF DocsTypeOK
<1>b. MissingIsOffline'
  <2> SUFFICES ASSUME NEW v \in Users, ~contact'[v].exists PROVE contact'[v].isOnline = 0
    BY DEF MissingIsOffline
  <2>1. v # Peer[u]
    BY <1>3, <1>5
  <2> QED  BY <1>5, <2>1 DEF MissingIsOffline
<1>7. UnopenedLeavesNoTrace'
  <2> SUFFICES ASSUME NEW v \in Users, opened'[v] = 0 PROVE NoTrace(v)'
    BY DEF UnopenedLeavesNoTrace
  <2>1. v # u /\ NoTrace(v)
    BY <1>1, <1>2 DEF UnopenedLeavesNoTrace
  <2> QED  BY <1>1, <1>2, <1>a, <2>1 DEF NoTrace
<1>8. \A v \in Users : FinalPresence(v)' = FinalPresence(v)
  BY <1>0, <1>1, <1>3, <1>5 DEF FinalPresence
<1>9. ClosedIsFinal'
  BY <1>2, <1>8 DEF ClosedIsFinal
<1> QED  BY <1>6, <1>7, <1>9, <1>b

LEMMA PresenceNotFoundKeeps ==
  ASSUME Inv, NEW u \in Users, PresenceNotFound(u)
  PROVE  Inv'
<1> USE PeerFacts DEF Inv
<1>0. /\ writes[u] # <<>> /\ writes' = [writes EXCEPT ![u] = Tail(@)]
      /\ ~contact[Peer[u]].exists
  BY DEF PresenceNotFound
<1>1. /\ writes' \in [Users -> Seq(Write)] /\ Head(writes[u]) \in Write
      /\ \A v \in Users : v # u => writes'[v] = writes[v]
      /\ writes[u][Len(writes[u])] =
           IF writes'[u] = <<>> THEN Head(writes[u]) ELSE writes'[u][Len(writes'[u])]
      /\ opened[u] # 0
  BY <1>0, Shifted
<1>2. UNCHANGED <<contact, screen, opened, inits, isRead, isReceiverOnline, history>>
  BY DEF PresenceNotFound, screens, messages
<1>3. /\ notFound' \in [Users -> Seq(0..1)]
      /\ \A v \in Users : v # u => notFound'[v] = notFound[v]
  <2>1. Append(notFound[u], Head(writes[u]).status) \in Seq(0..1)
    BY <1>1 DEF DocsTypeOK, Write
  <2> QED  BY <2>1 DEF PresenceNotFound, DocsTypeOK
<1>4. DocsTypeOK' /\ MissingIsOffline'
  BY <1>1, <1>2, <1>3 DEF DocsTypeOK, MissingIsOffline
<1>5. UnopenedLeavesNoTrace'
  BY <1>1, <1>2, <1>3 DEF UnopenedLeavesNoTrace, NoTrace
<1>6. contact[Peer[u]].isOnline = 0
  BY <1>0 DEF MissingIsOffline
<1>7. \A v \in Users : FinalPresence(v) = 0 => FinalPresence(v)' = 0
  BY <1>0, <1>1, <1>2, <1>6 DEF FinalPresence
<1>8. ClosedIsFinal'
  BY <1>2, <1>7 DEF ClosedIsFinal
<1> QED  BY <1>4, <1>5, <1>8

\* The bookkeeping of a write sent by init() or by the catch.
LEMMA LateNoted ==
  ASSUME Inv, NEW u \in Users, NEW status \in 0..1, NoteLate(u, status)
  PROVE  /\ history' \in [Users -> Record]
         /\ \A v \in Users : v # u => history'[v] = history[v]
         /\ history'[u].killed = history[u].killed
         /\ screen[u] = "closed" /\ ~history'[u].late => status = 0
<1> DEFINE h == [history[u] EXCEPT !.late = screen[u] = "closed" /\ status = 1]
<1>1. history[u] \in Record /\ history' = [history EXCEPT ![u] = h]
  BY DEF Inv, DocsTypeOK, NoteLate
<1>2. /\ h \in Record /\ h.killed = history[u].killed
      /\ h.late <=> screen[u] = "closed" /\ status = 1
  BY <1>1 DEF Record
<1>3. /\ history' \in [Users -> Record] /\ history'[u] = h
      /\ \A v \in Users : v # u => history'[v] = history[v]
  BY <1>1, <1>2, HistoryOf DEF Inv, DocsTypeOK
<1> HIDE DEF h
<1> QED  BY <1>2, <1>3

LEMMA PresenceMergedKeeps ==
  ASSUME Inv, NEW u \in Users, PresenceMerged(u)
  PROVE  Inv'
<1> USE PeerFacts DEF Inv
<1> DEFINE s == Head(notFound[u])
<1> DEFINE w == [op |-> "set", status |-> s]
<1>1. notFound[u] \in Seq(0..1) /\ notFound[u] # <<>>
  BY DEF PresenceMerged, DocsTypeOK
<1>2. s \in 0..1 /\ Tail(notFound[u]) \in Seq(0..1)
  BY <1>1
<1>3. w \in Write /\ w.status = s
  BY <1>2 DEF Write
<1>4. /\ writes' = [writes EXCEPT ![u] = Append(@, w)] /\ NoteLate(u, s)
      /\ notFound' = [notFound EXCEPT ![u] = Tail(@)]
      /\ UNCHANGED <<contact, screen, opened, inits, isRead, isReceiverOnline>>
  BY DEF PresenceMerged, screens, messages
<1> HIDE DEF s, w
<1>5. /\ writes' \in [Users -> Seq(Write)]
      /\ writes'[u] # <<>> /\ writes'[u][Len(writes'[u])] = w
      /\ \A v \in Users : v # u => writes'[v] = writes[v]
  BY <1>3, <1>4, Appended
<1>6. /\ history' \in [Users -> Record]
      /\ \A v \in Users : v # u => history'[v] = history[v]
      /\ screen[u] = "closed" /\ ~history'[u].late => s = 0
  BY <1>2, <1>4, LateNoted
<1>7. /\ notFound' \in [Users -> Seq(0..1)]
      /\ \A v \in Users : v # u => notFound'[v] = notFound[v]
  BY <1>2, <1>4 DEF DocsTypeOK
<1>8. opened[u] # 0
  BY <1>1 DEF UnopenedLeavesNoTrace, NoTrace
<1>9. DocsTypeOK' /\ MissingIsOffline'
  BY <1>4, <1>5, <1>6, <1>7 DEF DocsTypeOK, MissingIsOffline
<1>10. UnopenedLeavesNoTrace'
  BY <1>4, <1>5, <1>7, <1>8 DEF UnopenedLeavesNoTrace, NoTrace
<1>11. ClosedIsFinal'
  BY <1>3, <1>4, <1>5, <1>6 DEF ClosedIsFinal, FinalPresence
<1> QED  BY <1>9, <1>10, <1>11

LEMMA StatusChangedKeeps ==
  ASSUME Inv, NEW u \in Users, StatusChanged(u)
  PROVE  Inv'
<1> USE PeerFacts DEF Inv, StatusChanged, presence, screens, messages
<1>0. contact[u].isOnline \in 0..1
  BY DEF DocsTypeOK, Document
<1>1. DocsTypeOK' /\ MissingIsOffline'
  BY <1>0 DEF DocsTypeOK, MissingIsOffline
<1>2. UnopenedLeavesNoTrace'
  BY DEF UnopenedLeavesNoTrace, NoTrace, DocsTypeOK
<1>3. ClosedIsFinal'
  BY DEF ClosedIsFinal, FinalPresence
<1> QED  BY <1>1, <1>2, <1>3

-----------------------------------------------------------------------------
(* init() and the life cycle.                                               *)

LEMMA OpenChatKeeps ==
  ASSUME Inv, NEW u \in Users, OpenChat(u)
  PROVE  Inv'
<1> USE PeerFacts DEF Inv
<1>1. /\ screen' = [screen EXCEPT ![u] = "front"]
      /\ opened' = [opened EXCEPT ![u] = @ + 1]
      /\ UNCHANGED <<writes, notFound, contact, isRead, isReceiverOnline>>
  BY DEF OpenChat, presence, messages
<1>2. /\ screen' \in [Users -> {"closed", "front", "back"}] /\ screen'[u] = "front"
      /\ opened' \in [Users -> Nat] /\ opened'[u] # 0
      /\ \A v \in Users : v # u => screen'[v] = screen[v] /\ opened'[v] = opened[v]
  BY <1>1 DEF DocsTypeOK
<1>3. /\ DOMAIN inits' = Users
      /\ \A v \in Users : v # u => inits'[v] = inits[v]
  BY DEF OpenChat, DocsTypeOK
<1>4. /\ history' \in [Users -> Record]
      /\ \A v \in Users : v # u => history'[v] = history[v]
  <2>1. [killed |-> FALSE, late |-> FALSE] \in Record
    BY DEF Record
  <2> QED  BY <2>1, HistoryOf DEF OpenChat, DocsTypeOK
<1>5. DocsTypeOK' /\ MissingIsOffline'
  BY <1>1, <1>2, <1>3, <1>4 DEF DocsTypeOK, MissingIsOffline
<1>6. UnopenedLeavesNoTrace'
  BY <1>1, <1>2, <1>3 DEF UnopenedLeavesNoTrace, NoTrace
<1>7. ClosedIsFinal'
  BY <1>1, <1>2, <1>4 DEF ClosedIsFinal, FinalPresence
<1> QED  BY <1>5, <1>6, <1>7

\* One init() goes on; that it runs shows that the user has opened the chat.
LEMMA InitMoves ==
  ASSUME Inv, NEW u \in Users, NEW call \in inits[u], NEW next,
         InitGoesOn(u, call, next)
  PROVE  /\ DOMAIN inits' = Users
         /\ \A v \in Users : v # u => inits'[v] = inits[v]
         /\ opened[u] # 0
<1>1. opened[u] # 0
  BY DEF Inv, UnopenedLeavesNoTrace, NoTrace
<1> QED  BY <1>1 DEF Inv, DocsTypeOK, InitGoesOn

LEMMA InitStepsKeep ==
  ASSUME Inv, NEW u \in Users, NEW call \in inits[u],
         InContacts(u, call) \/ UnreadQueried(u, call)
  PROVE  Inv'
<1> USE PeerFacts DEF Inv
<1>1. UNCHANGED <<screen, opened, writes, notFound, contact, isRead, isReceiverOnline, history>>
  BY DEF InContacts, UnreadQueried, presence, messages
<1>3. PICK next : InitGoesOn(u, call, next)
  BY DEF InContacts, UnreadQueried
<1>4. /\ DOMAIN inits' = Users
      /\ \A v \in Users : v # u => inits'[v] = inits[v]
      /\ opened[u] # 0
  BY <1>3, InitMoves
<1>5. DocsTypeOK' /\ MissingIsOffline'
  BY <1>1, <1>4 DEF DocsTypeOK, MissingIsOffline
<1>6. UnopenedLeavesNoTrace'
  BY <1>1, <1>4 DEF UnopenedLeavesNoTrace, NoTrace
<1>7. ClosedIsFinal'
  BY <1>1 DEF ClosedIsFinal, FinalPresence
<1> QED  BY <1>5, <1>6, <1>7

LEMMA UnreadMarkedKeeps ==
  ASSUME Inv, NEW u \in Users, NEW call \in inits[u], UnreadMarked(u, call)
  PROVE  Inv'
<1> USE PeerFacts DEF Inv
<1>1. /\ SetOnlineCount(u, 1) /\ NoteLate(u, 1) /\ InitGoesOn(u, call, {})
      /\ UNCHANGED <<screen, opened, contact, isReceiverOnline>>
  BY DEF UnreadMarked
<1>2. /\ writes' \in [Users -> Seq(Write)] /\ notFound' = notFound
      /\ writes'[u] # <<>> /\ writes'[u][Len(writes'[u])].status = 1
      /\ \A v \in Users : v # u => writes'[v] = writes[v]
  BY <1>1, AppendedPresence
<1>3. /\ history' \in [Users -> Record]
      /\ \A v \in Users : v # u => history'[v] = history[v]
      /\ ~(screen[u] = "closed" /\ ~history'[u].late)
  BY <1>1, LateNoted
<1>4. /\ DOMAIN inits' = Users
      /\ \A v \in Users : v # u => inits'[v] = inits[v]
      /\ opened[u] # 0
  BY <1>1, InitMoves
<1>5. isRead' \in [Users -> [Messages -> BOOLEAN]] /\ isRead'[u] = isRead[u]
  BY DEF UnreadMarked, MarkedCollection, DocsTypeOK
<1>6. DocsTypeOK' /\ MissingIsOffline'
  BY <1>1, <1>2, <1>3, <1>4, <1>5 DEF DocsTypeOK, MissingIsOffline
<1>7. UnopenedLeavesNoTrace'
  <2> SUFFICES ASSUME NEW v \in Users, opened'[v] = 0 PROVE NoTrace(v)'
    BY DEF UnopenedLeavesNoTrace
  <2>1. v # u /\ Peer[v] = u /\ NoTrace(v)
    BY <1>1, <1>4 DEF UnopenedLeavesNoTrace
  <2> QED  BY <1>1, <1>2, <1>4, <1>5, <2>1 DEF NoTrace
<1>8. ClosedIsFinal'
  <2> SUFFICES ASSUME NEW v \in Users, screen'[v] = "closed", ~history'[v].killed, ~history'[v].late
               PROVE  FinalPresence(v)' = 0
    BY DEF ClosedIsFinal
  <2>1. v # u
    BY <1>1, <1>3
  <2>2. FinalPresence(v) = 0
    BY <1>1, <1>3, <2>1 DEF ClosedIsFinal
  <2> QED  BY <1>1, <1>2, <2>1, <2>2 DEF FinalPresence
<1> QED  BY <1>6, <1>7, <1>8

LEMMA LifeCycleKeeps ==
  ASSUME Inv, NEW u \in Users, Paused(u) \/ Resumed(u) \/ Dispose(u)
  PROVE  Inv'
<1> USE PeerFacts DEF Inv
<1>1. PICK status \in 0..1 : SetOnlineCount(u, status) /\ (screen'[u] = "closed" => status = 0)
  BY DEF Paused, Resumed, Dispose, DocsTypeOK
<1>2. /\ writes' \in [Users -> Seq(Write)] /\ notFound' = notFound
      /\ writes'[u] # <<>> /\ writes'[u][Len(writes'[u])].status = status
      /\ \A v \in Users : v # u => writes'[v] = writes[v]
  BY <1>1, AppendedPresence
<1>3. /\ screen[u] # "closed"
      /\ \E to \in {"closed", "front", "back"} : screen' = [screen EXCEPT ![u] = to]
  BY DEF Paused, Resumed, Dispose, CloseScreen
<1>4. UNCHANGED <<opened, inits, contact, isRead, history>>
  BY DEF Paused, Resumed, Dispose, messages
<1>5. /\ isReceiverOnline' \in [Users -> 0..1]
      /\ \A v \in Users : isReceiverOnline'[v] \in {0, isReceiverOnline[v]}
  <2>1. isReceiverOnline' \in {isReceiverOnline, [isReceiverOnline EXCEPT ![u] = 0]}
    BY DEF Paused, Resumed, Dispose, CloseScreen
  <2>2. isReceiverOnline \in [Users -> 0..1]
    BY DEF DocsTypeOK
  <2>3. CASE isReceiverOnline' = isReceiverOnline
    BY <2>2, <2>3
  <2>4. CASE isReceiverOnline' = [isReceiverOnline EXCEPT ![u] = 0]
    BY <2>2, <2>4
  <2> QED  BY <2>1, <2>3, <2>4
<1>6. /\ \A v \in Users : v # u => screen'[v] = screen[v]
      /\ screen' \in [Users -> {"closed", "front", "back"}]
  BY <1>3 DEF DocsTypeOK
<1>7. opened[u] # 0
  BY <1>3 DEF UnopenedLeavesNoTrace, NoTrace
<1>8. DocsTypeOK' /\ MissingIsOffline'
  BY <1>2, <1>4, <1>5, <1>6 DEF DocsTypeOK, MissingIsOffline
<1>9. UnopenedLeavesNoTrace'
  <2> SUFFICES ASSUME NEW v \in Users, opened'[v] = 0 PROVE NoTrace(v)'
    BY DEF UnopenedLeavesNoTrace
  <2>1. v # u /\ NoTrace(v)
    BY <1>4, <1>7 DEF UnopenedLeavesNoTrace
  <2> QED  BY <1>2, <1>4, <1>5, <1>6, <2>1 DEF NoTrace
<1>10. ClosedIsFinal'
  BY <1>1, <1>2, <1>4, <1>6 DEF ClosedIsFinal, FinalPresence
<1> QED  BY <1>8, <1>9, <1>10

LEMMA KillKeeps ==
  ASSUME Inv, NEW u \in Users, Kill(u)
  PROVE  Inv'
<1> USE PeerFacts DEF Inv
<1>1. /\ history' \in [Users -> Record] /\ history'[u].killed
      /\ \A v \in Users : v # u => history'[v] = history[v]
  <2> DEFINE h == [killed |-> TRUE, late |-> FALSE]
  <2>1. h \in Record /\ h.killed
    BY DEF Record
  <2>2. history' = [history EXCEPT ![u] = h]
    BY DEF Kill
  <2> HIDE DEF h
  <2> QED  BY <2>1, <2>2, HistoryOf DEF DocsTypeOK
<1>2. /\ screen' = [screen EXCEPT ![u] = "closed"] /\ inits' = [inits EXCEPT ![u] = {}]
      /\ isReceiverOnline' = [isReceiverOnline EXCEPT ![u] = 0]
      /\ notFound' = [notFound EXCEPT ![u] = <<>>]
      /\ UNCHANGED <<opened, isRead, contact>>
  BY DEF Kill, CloseScreen
<1> DEFINE Orphan(w) == IF w.op = "update" THEN [w EXCEPT !.op = "orphan"] ELSE w
<1> DEFINE q == [k \in DOMAIN writes[u] |-> Orphan(writes[u][k])]
<1>3. writes[u] \in Seq(Write) /\ writes' = [writes EXCEPT ![u] = q]
  BY DEF Kill, DocsTypeOK
<1>4. \A w \in Write : Orphan(w) \in Write
  BY DEF Write
<1> HIDE DEF Orphan
<1>5. q \in Seq(Write) /\ (writes[u] = <<>> => q = <<>>)
  <2>1. /\ Len(writes[u]) \in Nat /\ DOMAIN writes[u] = 1..Len(writes[u])
        /\ \A k \in 1..Len(writes[u]) : writes[u][k] \in Write
    BY <1>3
  <2>2. q \in [1..Len(writes[u]) -> Write]
    BY <1>4, <2>1
  <2>3. q \in Seq(Write)
    BY <2>1, <2>2
  <2>4. Len(q) = Len(writes[u])
    BY <2>1, <2>2, <2>3
  <2> HIDE DEF q
  <2> QED  BY <1>3, <2>3, <2>4, EmptySeq
<1> HIDE DEF q
<1>6. /\ writes' \in [Users -> Seq(Write)] /\ (writes[u] = <<>> => writes'[u] = <<>>)
      /\ \A v \in Users : v # u => writes'[v] = writes[v]
  BY <1>3, <1>5 DEF DocsTypeOK
<1>7. /\ screen' \in [Users -> {"closed", "front", "back"}] /\ DOMAIN inits' = Users
      /\ isReceiverOnline' \in [Users -> 0..1] /\ notFound' \in [Users -> Seq(0..1)]
      /\ screen'[u] = "closed" /\ inits'[u] = {} /\ notFound'[u] = <<>>
      /\ \A v \in Users : isReceiverOnline'[v] \in {0, isReceiverOnline[v]}
      /\ \A v \in Users : v # u => /\ screen'[v] = screen[v] /\ inits'[v] = inits[v]
                                   /\ notFound'[v] = notFound[v]
  BY <1>2 DEF DocsTypeOK
<1>8. DocsTypeOK' /\ MissingIsOffline'
  BY <1>1, <1>2, <1>6, <1>7 DEF DocsTypeOK, MissingIsOffline
<1>9. UnopenedLeavesNoTrace'
  BY <1>2, <1>6, <1>7 DEF UnopenedLeavesNoTrace, NoTrace
<1>10. ClosedIsFinal'
  <2> SUFFICES ASSUME NEW v \in Users, screen'[v] = "closed", ~history'[v].killed, ~history'[v].late
               PROVE  FinalPresence(v)' = 0
    BY DEF ClosedIsFinal
  <2>1. v # u
    BY <1>1
  <2>a. screen[v] = "closed" /\ history'[v] = history[v]
    BY <1>1, <1>7, <2>1
  <2>2. FinalPresence(v) = 0
    BY <2>a DEF ClosedIsFinal
  <2> QED  BY <1>2, <1>6, <2>1, <2>2 DEF FinalPresence
<1> QED  BY <1>8, <1>9, <1>10

-----------------------------------------------------------------------------
(* sendMessages.                                                            *)

LEMMA SendMessageKeeps ==
  ASSUME Inv, NEW m \in Messages, SendMessage(m)
  PROVE  Inv'
<1> USE PeerFacts DEF Inv, SendMessage, presence, screens
<1>1. /\ isRead' \in [Users -> [Messages -> BOOLEAN]]
      /\ isRead'[Sender(m)][m] <=> (isReceiverOnline[Sender(m)] = 1)
      /\ \A u \in Users, k \in Messages : k # m => isRead'[u][k] = isRead[u][k]
  <2> DEFINE online == isReceiverOnline[Sender(m)] = 1
  <2>1. /\ isRead' = [u \in Users |-> [isRead[u] EXCEPT ![m] = online]]
        /\ isRead \in [Users -> [Messages -> BOOLEAN]] /\ online \in BOOLEAN
    BY DEF DocsTypeOK
  <2>2. \A u \in Users : [isRead[u] EXCEPT ![m] = online] \in [Messages -> BOOLEAN]
    BY <2>1
  <2>3. Sender(m) \in Users
    OBVIOUS
  <2> HIDE DEF online
  <2>4. isRead' \in [Users -> [Messages -> BOOLEAN]] /\ isRead'[Sender(m)][m] = online
    BY <2>1, <2>2, <2>3
  <2>5. \A u \in Users, k \in Messages : k # m => isRead'[u][k] = isRead[u][k]
    BY <2>1
  <2> QED  BY <2>4, <2>5 DEF online
<1>2. DocsTypeOK' /\ MissingIsOffline'
  BY <1>1 DEF DocsTypeOK, MissingIsOffline
<1>3. ASSUME NEW u \in Users, NoTrace(u) PROVE NoTrace(u)'
  <2>1. ASSUME NEW k \in Messages, Receiver(k) = u PROVE ~isRead'[Peer[u]][k]
    <3>1. CASE k = m
      BY <1>1, <1>3, <2>1, <3>1 DEF NoTrace
    <3>2. CASE k # m
      BY <1>1, <1>3, <2>1, <3>2 DEF NoTrace
    <3> QED  BY <3>1, <3>2
  <2> QED  BY <1>3, <2>1 DEF NoTrace
<1>4. UnopenedLeavesNoTrace'
  BY <1>3 DEF UnopenedLeavesNoTrace
<1>5. ClosedIsFinal'
  BY DEF ClosedIsFinal, FinalPresence
<1> QED  BY <1>2, <1>4, <1>5

\* Documents are created or set to be offline, and the sender's field is zeroed.
LEMMA DocumentsKeep ==
  ASSUME Inv, UNCHANGED <<screen, opened, inits, writes, notFound, isRead, history>>,
         contact' \in [Users -> Document],
         \A u \in Users : contact'[u].isOnline \in {0, contact[u].isOnline},
         \A u \in Users : ~contact'[u].exists => ~contact[u].exists,
         isReceiverOnline' \in [Users -> 0..1],
         \A u \in Users : isReceiverOnline'[u] \in {0, isReceiverOnline[u]}
  PROVE  Inv'
<1> USE PeerFacts DEF Inv
<1>1. DocsTypeOK' /\ MissingIsOffline'
  BY DEF DocsTypeOK, MissingIsOffline
<1>2. UnopenedLeavesNoTrace'
  BY DEF UnopenedLeavesNoTrace, NoTrace
<1>3. ClosedIsFinal'
  BY DEF ClosedIsFinal, FinalPresence
<1> QED  BY <1>1, <1>2, <1>3

LEMMA SendStepsKeep ==
  ASSUME Inv, NEW m \in Messages,
         \/ ContactsChecked(m) \/ ContactRead(m) \/ OwnContactSet(m) \/ ContactsAdded(m)
         \/ AddedToSender(m) \/ AddedToReceiver(m) \/ MessageSent(m) \/ SendFails(m)
  PROVE  Inv'
<1>0. DocsTypeOK
  BY DEF Inv
<1>1. CASE OwnContactSet(m) \/ ContactsAdded(m)
  <2>1. /\ UNCHANGED <<screen, opened, inits, writes, notFound, isRead, history, isReceiverOnline>>
        /\ contact' \in [Users -> Document]
        /\ \A u \in Users : contact'[u].isOnline \in {0, contact[u].isOnline}
        /\ \A u \in Users : ~contact'[u].exists => ~contact[u].exists
    <3> DEFINE offline == [exists |-> TRUE, isOnline |-> 0]
    <3>1. UNCHANGED <<screen, opened, inits, writes, notFound, isRead, history, isReceiverOnline>>
      BY <1>1 DEF OwnContactSet, ContactsAdded, presence, screens
    <3>2. contact' = contact \/ \E u \in Users : contact' = [contact EXCEPT ![u] = offline]
      BY <1>1, PeerFacts DEF OwnContactSet, ContactsAdded
    <3>3. offline \in Document /\ offline.isOnline = 0 /\ offline.exists
      BY DEF Document
    <3> HIDE DEF offline
    <3> QED  BY <1>0, <3>1, <3>2, <3>3 DEF DocsTypeOK
  <2> QED  BY <1>0, <2>1, DocumentsKeep DEF DocsTypeOK
<1>2. CASE MessageSent(m)
  <2>1. /\ UNCHANGED <<screen, opened, inits, writes, notFound, isRead, history>>
        /\ contact' \in [Users -> Document]
        /\ \A u \in Users : contact'[u].isOnline \in {0, contact[u].isOnline}
        /\ \A u \in Users : ~contact'[u].exists => ~contact[u].exists
        /\ isReceiverOnline' \in [Users -> 0..1]
        /\ \A u \in Users : isReceiverOnline'[u] \in {0, isReceiverOnline[u]}
    <3>1. UNCHANGED <<screen, opened, inits, writes, notFound, isRead, history>>
      BY <1>2 DEF MessageSent, presence, screens
    <3>2. \A u \in Users : /\ [contact[u] EXCEPT !.exists = TRUE] \in Document
                           /\ [contact[u] EXCEPT !.exists = TRUE].isOnline = contact[u].isOnline
                           /\ [contact[u] EXCEPT !.exists = TRUE].exists
      BY <1>0 DEF DocsTypeOK, Document
    <3>3. contact' = [u \in Users |-> [contact[u] EXCEPT !.exists = TRUE]]
      BY <1>2 DEF MessageSent
    <3>4. /\ contact' \in [Users -> Document]
          /\ \A u \in Users : contact'[u].isOnline \in {0, contact[u].isOnline}
          /\ \A u \in Users : ~contact'[u].exists => ~contact[u].exists
      BY <3>2, <3>3
    <3>5. /\ isReceiverOnline' \in [Users -> 0..1]
          /\ \A u \in Users : isReceiverOnline'[u] \in {0, isReceiverOnline[u]}
      BY <1>0, <1>2, PeerFacts DEF MessageSent, DocsTypeOK
    <3> QED  BY <3>1, <3>4, <3>5
  <2> QED  BY <2>1, DocumentsKeep
<1>3. CASE \/ ContactsChecked(m) \/ ContactRead(m) \/ AddedToSender(m)
           \/ AddedToReceiver(m) \/ SendFails(m)
  <2>1. UNCHANGED <<screen, opened, inits, writes, notFound, isRead, history, contact, isReceiverOnline>>
    BY <1>3 DEF ContactsChecked, ContactRead, AddedToSender, AddedToReceiver, SendFails, presence,
                screens
  <2> QED  BY <1>0, <2>1, DocumentsKeep DEF DocsTypeOK
<1> QED  BY <1>1, <1>2, <1>3

LEMMA NextInv == Inv /\ [Next]_vars => Inv'
<1> SUFFICES ASSUME Inv, [Next]_vars PROVE Inv'
  OBVIOUS
<1>1. ASSUME NEW u \in Users,
             \/ PresenceWritten(u) \/ PresenceNotFound(u) \/ PresenceMerged(u)
             \/ StatusChanged(u) \/ OpenChat(u)
             \/ Paused(u) \/ Resumed(u) \/ Dispose(u) \/ Kill(u)
      PROVE  Inv'
  BY <1>1, PresenceWrittenKeeps, PresenceNotFoundKeeps, PresenceMergedKeeps, StatusChangedKeeps,
     OpenChatKeeps, LifeCycleKeeps, KillKeeps
<1>4. ASSUME NEW u \in Users, NEW call \in inits[u],
             InContacts(u, call) \/ UnreadQueried(u, call) \/ UnreadMarked(u, call)
      PROVE  Inv'
  BY <1>4, InitStepsKeep, UnreadMarkedKeeps
<1>2. ASSUME NEW m \in Messages,
             \/ SendMessage(m) \/ ContactsChecked(m) \/ ContactRead(m)
             \/ OwnContactSet(m) \/ ContactsAdded(m) \/ AddedToSender(m)
             \/ AddedToReceiver(m) \/ MessageSent(m) \/ SendFails(m)
      PROVE  Inv'
  BY <1>2, SendMessageKeeps, SendStepsKeep
<1>3. CASE (\E u \in Users : Clear(u)) \/ UNCHANGED vars
  <2>1. UNCHANGED <<screen, opened, inits, writes, notFound, isRead, history, contact, isReceiverOnline>>
    BY <1>3 DEF Clear, vars, presence, screens, messages
  <2> QED  BY <2>1, DocumentsKeep DEF Inv, DocsTypeOK
<1> QED  BY <1>1, <1>2, <1>3, <1>4 DEF Next

LEMMA ChatInvariant == Spec => []Inv
  BY InitInv, NextInv, PTL DEF Spec

-----------------------------------------------------------------------------
\* For any messages of both users: none counts as read by a user who has never opened the
\* conversation, by whatever path isMessageRead is set.
THEOREM ReadOnlyIfOpened == Spec => []ReadMeansOpened
<1>1. Inv => ReadMeansOpened
  BY InvImplies
<1> QED  BY <1>1, ChatInvariant, PTL

\* A user who has closed the conversation is offline for the other one when the writes are
\* through, however often it is reopened while an earlier init() runs and whichever contact
\* documents are missing, unless the process was killed or init() or the catch of
\* setOnlineCount has sent the presence once more after dispose.
THEOREM PresenceIsCleared == Spec => []PresenceCleared
<1>1. Inv => PresenceCleared
  BY InvImplies
<1> QED  BY <1>1, ChatInvariant, PTL
=============================================================================
