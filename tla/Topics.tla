-------------------------------- MODULE Topics --------------------------------
(***************************************************************************)
(* The push topics of the signed-in user (lib/utils/                         *)
(* firebase_messaging_utils.dart).  saveUserData starts a subscription and   *)
(* clearPreferences an unsubscription (lib/network/rest_apis.dart), neither  *)
(* awaited, and the settings screen starts both.  Saves and clearings come   *)
(* in any order: an answer to user-detail is saved after a sign-out too, and *)
(* two requests answered with 401 may both clear the preferences.            *)
(*                                                                           *)
(* Firebase Messaging keeps the operations asked of it in a queue and        *)
(* performs them in order; each ends the await of the run that asked.        *)
(***************************************************************************)
EXTENDS Naturals, Sequences, FiniteSets

CONSTANTS Users,  \* accounts that sign in on the device
          Nobody, \* the user id 0 of a cleared store
          Runs    \* calls of the two functions, each used once

VARIABLES userId,   \* appStore.userId
          signedIn, \* appStore.isLoggedIn
          clearing, \* how far the clearPreferences that made each call has come
          run,      \* how far each call has come
          queue,    \* the operations Firebase Messaging has not performed
          topics,   \* the topics of the device
          isSubscribedForPushNotification, \* the flag the switch shows
          seen      \* history: what may keep a topic, or lose one

vars == <<userId, signedIn, clearing, run, queue, topics,
          isSubscribedForPushNotification, seen>>

Ids == Users \cup {Nobody}
USER_APP_TAG == [tag |-> TRUE]
UserTopic(u) == [user |-> u]
Working == {s \in Runs : run[s] \notin {"idle", "done"}}
Clearing == {s \in Runs : clearing[s] # "no"}

Init ==
  /\ userId = Nobody /\ signedIn = FALSE
  /\ clearing = [s \in Runs |-> "no"]
  /\ run = [s \in Runs |-> "idle"]
  /\ queue = <<>>
  /\ topics = {}
  /\ isSubscribedForPushNotification = TRUE \* the default of the missing preference
  /\ seen = [raced |-> {}, replaced |-> {}, late |-> FALSE, switched |-> FALSE,
             failed |-> FALSE]

-----------------------------------------------------------------------------
(* The two functions.                                                       *)

\* subscribeToFirebaseTopic: by a signed-in user initFirebaseMessaging is awaited,
\* otherwise the flag is set to what it was.
Subscribe(s) == run' = [run EXCEPT ![s] = IF signedIn THEN "permission" ELSE "done"]

Ask(s, kind, topic) == Append(queue, [run |-> s, kind |-> kind, topic |-> topic])

\* unsubscribeFirebaseTopic(userId).
Unsubscribe(s, u) ==
  /\ run[s] = "idle"
  /\ run' = [run EXCEPT ![s] = "unsubUser"]
  /\ queue' = Ask(s, "unsub", UserTopic(u))

\* Mutant: a device that counts as subscribed is not subscribed again.
PermittedOnce(s) ==
  /\ run[s] = "permission"
  /\ IF isSubscribedForPushNotification
     THEN run' = [run EXCEPT ![s] = "done"] /\ UNCHANGED queue
     ELSE run' = [run EXCEPT ![s] = "subUser"] /\ queue' = Ask(s, "sub", UserTopic(userId))
  /\ UNCHANGED <<userId, signedIn, clearing, topics, isSubscribedForPushNotification, seen>>

\* Permission and APNS token are there: the user id is read now, whoever it is.
Permitted(s) ==
  /\ run[s] = "permission"
  /\ run' = [run EXCEPT ![s] = "subUser"]
  /\ queue' = Ask(s, "sub", UserTopic(userId))
  /\ seen' = [seen EXCEPT !.raced = IF Clearing # {} THEN @ \cup {userId} ELSE @]
  /\ UNCHANGED <<userId, signedIn, clearing, topics, isSubscribedForPushNotification>>

Second == [subUser |-> "subTag", unsubUser |-> "unsubTag"]
KindOf == [subUser |-> "sub", unsubUser |-> "unsub"]

\* The first operation is performed; the second one is asked for.
FirstDone ==
  /\ queue # <<>>
  /\ LET op == Head(queue) IN
       /\ run[op.run] \in {"subUser", "unsubUser"}
       /\ topics' = IF op.kind = "sub" THEN topics \cup {op.topic} ELSE topics \ {op.topic}
       /\ run' = [run EXCEPT ![op.run] = Second[@]]
       /\ queue' = Append(Tail(queue), [run |-> op.run, kind |-> KindOf[run[op.run]],
                                        topic |-> USER_APP_TAG])
  /\ UNCHANGED <<userId, signedIn, clearing, isSubscribedForPushNotification, seen>>

\* The second one is performed, and the flag is set.
SecondDone ==
  /\ queue # <<>>
  /\ LET op == Head(queue) IN
       /\ run[op.run] \in {"subTag", "unsubTag"}
       /\ topics' = IF op.kind = "sub" THEN topics \cup {op.topic} ELSE topics \ {op.topic}
       /\ run' = [run EXCEPT ![op.run] = "done"]
       /\ isSubscribedForPushNotification' = (op.kind = "sub")
  /\ queue' = Tail(queue)
  /\ UNCHANGED <<userId, signedIn, clearing, seen>>

\* An operation is refused, or the permission request throws: the call ends there.
RunFails(s) ==
  /\ run[s] \in {"permission", "subUser", "subTag", "unsubUser", "unsubTag"}
  /\ run' = [run EXCEPT ![s] = "done"]
  /\ queue' = SelectSeq(queue, LAMBDA op : op.run # s)
  /\ seen' = [seen EXCEPT !.failed = TRUE]
  /\ UNCHANGED <<userId, signedIn, clearing, topics, isSubscribedForPushNotification>>

-----------------------------------------------------------------------------
(* Their callers.                                                           *)

\* saveUserData, with the answer to a login or to user-detail, whoever is signed in: the
\* flag and the id are set in one step, the rest of the profile is written in awaits.
SaveUserData(u, s) ==
  /\ run[s] = "idle"
  /\ run' = [run EXCEPT ![s] = "saved"]
  /\ userId' = u /\ signedIn' = TRUE
  /\ seen' = [seen EXCEPT
       !.replaced = IF userId # u /\ Clearing = {} THEN @ \cup {userId} ELSE @,
       !.late = \E w \in Runs : run[w] \in {"unsubUser", "unsubTag"},
       !.switched = FALSE]
  /\ UNCHANGED <<clearing, queue, topics, isSubscribedForPushNotification>>

\* Then saveUserData starts the subscription.
SubscribeSaved(s) ==
  /\ run[s] = "saved"
  /\ Subscribe(s)
  /\ UNCHANGED <<userId, signedIn, clearing, queue, topics,
                 isSubscribedForPushNotification, seen>>

\* The switch of the settings screen, shown to a signed-in user.  It is ignored while
\* appStore.isLoading, but every other screen takes that loader off as well.
Switch(s) ==
  /\ signedIn
  /\ run[s] = "idle"
  /\ \/ /\ Subscribe(s)
        /\ UNCHANGED <<queue, seen>>
     \/ /\ Unsubscribe(s, userId)
        /\ seen' = [seen EXCEPT !.switched = TRUE]
  /\ UNCHANGED <<userId, signedIn, clearing, topics, isSubscribedForPushNotification>>

\* Mutant: the user id is cleared before it is passed on.
SignOutTooLate(s) ==
  /\ Unsubscribe(s, Nobody)
  /\ clearing' = [clearing EXCEPT ![s] = "flag"]
  /\ seen' = [seen EXCEPT !.raced = @ \ {userId}, !.replaced = @ \ {userId}]
  /\ UNCHANGED <<userId, signedIn, topics, isSubscribedForPushNotification>>

\* clearPreferences comes to the topics while the store still holds the user.
SignOut(s) ==
  /\ Unsubscribe(s, userId)
  /\ clearing' = [clearing EXCEPT ![s] = "flag"]
  /\ seen' = [seen EXCEPT !.raced = @ \ {userId}, !.replaced = @ \ {userId}]
  /\ UNCHANGED <<userId, signedIn, topics, isSubscribedForPushNotification>>

\* Further awaits on, the login flag and then the user id are cleared.
LoggedOut(s) ==
  /\ clearing[s] = "flag"
  /\ clearing' = [clearing EXCEPT ![s] = "id"]
  /\ signedIn' = FALSE
  /\ UNCHANGED <<userId, run, queue, topics, isSubscribedForPushNotification, seen>>

Cleared(s) ==
  /\ clearing[s] = "id"
  /\ clearing' = [clearing EXCEPT ![s] = "no"]
  /\ userId' = Nobody
  /\ UNCHANGED <<signedIn, run, queue, topics, isSubscribedForPushNotification, seen>>

Next ==
  \/ \E s \in Runs : \/ SubscribeSaved(s) \/ Switch(s) \/ Permitted(s) \/ RunFails(s)
                     \/ SignOut(s) \/ LoggedOut(s) \/ Cleared(s)
                     \/ \E u \in Users : SaveUserData(u, s)
  \/ FirstDone \/ SecondDone

Spec == Init /\ [][Next]_vars

-----------------------------------------------------------------------------
(* Properties.                                                              *)

Settled == Working = {} /\ Clearing = {}

\* A signed-in user who has not touched the switch ends up subscribed, though calls for the
\* user before, unsubscriptions of the same user and clearings of the preferences may still
\* have been under way: to the own topic, and to the topic of the application unless an
\* unsubscription was still running at the last saveUserData.
SubscribedWhenSettled ==
  Settled /\ signedIn /\ userId \in Users /\ ~seen.switched /\ ~seen.failed =>
    /\ UserTopic(userId) \in topics
    /\ USER_APP_TAG \in topics \/ seen.late

\* A device goes on receiving the pushes of a user other than the one in the store only if,
\* since that user's last sign-out, a subscription got its permission in the midst of a
\* sign-out, or another account was saved over the user without one.
NoTopicLeftBehind ==
  Settled /\ ~seen.failed =>
    \A u \in Users \ {userId} :
      UserTopic(u) \in topics => u \in seen.raced \cup seen.replaced
=============================================================================
