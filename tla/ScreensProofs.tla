---------------------------- MODULE ScreensProofs ----------------------------
(***************************************************************************)
(* Proofs about the screens: BookingDetail for any number of reads and      *)
(* location requests under way, and the five parts of Screens for any       *)
(* bookings and requests, accounts, top-ups and reads, services and add-ons, *)
(* calls and topics, prices and taxes.                                      *)
(***************************************************************************)
EXTENDS BookingDetail, Screens, Integers, Sequences, SequenceTheorems, FiniteSetTheorems, TLAPS

-----------------------------------------------------------------------------
(* The booking detail screen.                                               *)

ScreenType == [mounted : BOOLEAN, foreground : BOOLEAN,
               bookingStatus : Statuses \cup {None},
               snap : Statuses \cup {None}, latest : Reads]
TimerType == [current : BOOLEAN, stray : BOOLEAN]
LocationType == [loader : BOOLEAN, inFlight : 0..MaxPolls]
DetailInv == TypeOK /\ TrackingAlive

\* Starting the updates leaves the timer of the handle running.
LEMMA StartsTimer ==
  ASSUME timer \in TimerType, StartLocationUpdates
  PROVE  timer' \in TimerType /\ timer'.current
<1>1. (timer.stray \/ timer.current) \in BOOLEAN
  BY DEF TimerType
<1> QED
  BY <1>1 DEF TimerType, StartLocationUpdates

\* A location request is one more under way, within the bound.
LEMMA RefreshType ==
  ASSUME location \in LocationType, RefreshProviderLocation
  PROVE  location' \in LocationType
<1> DEFINE n == location.inFlight + 1
<1>1. n \in 0..MaxPolls
  BY MaxPollsAssumption DEF LocationType, RefreshProviderLocation
<1>2. location' = [loader |-> TRUE, inFlight |-> n]
  BY DEF RefreshProviderLocation
<1> HIDE DEF n
<1> QED
  BY <1>1, <1>2 DEF LocationType

\* What a read may be, and the snapshot after it.
LEMMA ReadTypes ==
  ASSUME TypeOK, NEW r \in Reads, NEW s \in Statuses \cup {"idle", "sent"}
  PROVE  [reads EXCEPT ![r] = s] \in [Reads -> Statuses \cup {"idle", "sent"}]
BY DEF TypeOK

\* Every step of the screen, its reads, its timers and its dialog keeps the invariant.
LEMMA DetailStep ==
  ASSUME DetailInv, [Next]_vars
  PROVE  DetailInv'
<1>0. /\ backend \in Statuses /\ screen \in ScreenType /\ timer \in TimerType
      /\ location \in LocationType /\ cancel \in {"none", "dialog", "sent"}
      /\ reads \in [Reads -> Statuses \cup {"idle", "sent"}]
  BY DEF DetailInv, TypeOK, ScreenType, TimerType, LocationType
<1>1. ASSUME TimerFires
      PROVE  DetailInv'
  <2>1. location' \in LocationType
    BY <1>0, <1>1, RefreshType DEF TimerFires
  <2> QED
    BY <1>1, <2>1 DEF TimerFires, DetailInv, TypeOK, TrackingAlive, LocationType
<1>2. ASSUME LocationEnds
      PROVE  DetailInv'
  <2> DEFINE n == location.inFlight - 1
  <2>1. n \in 0..MaxPolls
    BY <1>0, <1>2, MaxPollsAssumption DEF LocationType, LocationEnds
  <2>2. location' = [loader |-> FALSE, inFlight |-> n]
    BY <1>2 DEF LocationEnds
  <2> HIDE DEF n
  <2> QED
    BY <1>2, <2>1, <2>2 DEF LocationEnds, DetailInv, TypeOK, TrackingAlive
<1>3. ASSUME NEW r \in Reads, SendRead(r), UNCHANGED timer, UNCHANGED location
      PROVE  screen' \in ScreenType /\ TrackingAlive'
             /\ reads' \in [Reads -> Statuses \cup {"idle", "sent"}]
  <2>1. screen' \in ScreenType
    BY <1>0, <1>3 DEF SendRead, ScreenType
  <2>2. TrackingAlive'
    BY <1>0, <1>3 DEF SendRead, ScreenType, DetailInv, TrackingAlive
  <2> QED
    BY <1>3, <2>1, <2>2, ReadTypes DEF SendRead, DetailInv
<1>4. ASSUME NEW r \in Reads, Refresh(r)
      PROVE  DetailInv'
  BY <1>3, <1>4 DEF Refresh, DetailInv, TypeOK, ScreenType
<1>5. ASSUME NEW r \in Reads, Serve(r)
      PROVE  DetailInv'
  BY <1>5, ReadTypes DEF Serve, DetailInv, TypeOK, TrackingAlive
<1>6. ASSUME NEW r \in Reads, Arrive(r)
      PROVE  DetailInv'
  <2> DEFINE s == reads[r]
             w == Shown(r, s)
  <2>1. s \in Statuses /\ w \in Statuses \cup {None}
    BY <1>0, <1>6 DEF Arrive, Shown, ScreenType
  <2>2. screen' = [screen EXCEPT !.bookingStatus = s, !.snap = w]
    BY <1>6 DEF Arrive
  <2> HIDE DEF w
  <2>3. screen' \in ScreenType /\ screen'.bookingStatus = s
    BY <1>0, <2>1, <2>2 DEF ScreenType
  <2>4. reads' \in [Reads -> Statuses \cup {"idle", "sent"}]
    BY <1>6, ReadTypes DEF Arrive, DetailInv
  <2>5. CASE s = "on_going"
    <3>1. timer' \in TimerType /\ timer'.current /\ location' \in LocationType
      BY <1>0, <1>6, <2>5, StartsTimer, RefreshType DEF Arrive
    <3> QED
      BY <1>0, <1>6, <2>3, <2>4, <3>1
      DEF Arrive, DetailInv, TypeOK, TrackingAlive, ScreenType, TimerType, LocationType
  <2>6. CASE s # "on_going"
    <3>1. timer' \in TimerType /\ location' = location
      BY <1>0, <1>6, <2>6 DEF Arrive, StopLocationUpdates, TimerType
    <3> QED
      BY <1>0, <1>6, <2>3, <2>4, <2>6, <3>1
      DEF Arrive, DetailInv, TypeOK, TrackingAlive, ScreenType, TimerType, LocationType
  <2> QED
    BY <2>5, <2>6
<1>7. ASSUME NEW r \in Reads, ReadFails(r)
      PROVE  DetailInv'
  <2> DEFINE w == Shown(r, None)
  <2>1. w \in Statuses \cup {None}
    BY <1>0 DEF Shown, ScreenType
  <2>2. screen' = [screen EXCEPT !.snap = w]
    BY <1>7 DEF ReadFails
  <2> HIDE DEF w
  <2>3. /\ screen' \in ScreenType
        /\ screen'.bookingStatus = screen.bookingStatus
        /\ screen'.mounted = screen.mounted
        /\ screen'.foreground = screen.foreground
    BY <1>0, <2>1, <2>2 DEF ScreenType
  <2>4. reads' \in [Reads -> Statuses \cup {"idle", "sent"}]
    BY <1>7, ReadTypes DEF ReadFails, DetailInv
  <2> QED
    BY <1>7, <2>3, <2>4 DEF ReadFails, DetailInv, TypeOK, TrackingAlive, ScreenType
<1>8. ASSUME Paused
      PROVE  DetailInv'
  <2>1. screen' \in ScreenType /\ ~screen'.foreground /\ timer' \in TimerType
    BY <1>0, <1>8 DEF Paused, StopLocationUpdates, ScreenType, TimerType
  <2> QED
    BY <1>8, <2>1 DEF Paused, DetailInv, TypeOK, TrackingAlive, ScreenType, TimerType
<1>9. ASSUME Resumed
      PROVE  DetailInv'
  <2>1. screen' \in ScreenType
    BY <1>0, <1>9 DEF Resumed, ScreenType
  <2>2. timer' \in TimerType /\ timer'.current /\ location' \in LocationType
    BY <1>0, <1>9, StartsTimer, RefreshType DEF Resumed
  <2> QED
    BY <1>9, <2>1, <2>2
    DEF Resumed, DetailInv, TypeOK, TrackingAlive, ScreenType, TimerType, LocationType
<1>10. ASSUME Dispose
       PROVE  DetailInv'
  <2>1. screen' \in ScreenType /\ ~screen'.mounted /\ timer' \in TimerType
    BY <1>0, <1>10 DEF Dispose, StopLocationUpdates, ScreenType, TimerType
  <2> QED
    BY <1>10, <2>1 DEF Dispose, DetailInv, TypeOK, TrackingAlive, ScreenType, TimerType
<1>11. ASSUME NEW r \in Reads, CancelAccepted(r)
       PROVE  DetailInv'
  BY <1>3, <1>11 DEF CancelAccepted, DetailInv, TypeOK, ScreenType, Statuses, Cancellable
<1>12. ASSUME OpenCancel \/ SubmitCancel \/ DismissCancel \/ CancelFails
       PROVE  DetailInv'
  BY <1>12 DEF OpenCancel, SubmitCancel, DismissCancel, CancelFails, DetailInv, TypeOK,
     TrackingAlive
<1>13. ASSUME NEW m \in ProviderMoves, ProviderMove(m)
       PROVE  DetailInv'
  <2>1. backend' \in Statuses
    BY <1>13 DEF ProviderMove, ProviderMoves, Statuses, Cancellable
  <2> QED
    BY <1>13, <2>1 DEF ProviderMove, DetailInv, TypeOK, TrackingAlive
<1>14. CASE UNCHANGED vars
  BY <1>14 DEF vars, DetailInv, TypeOK, TrackingAlive
<1> QED
  BY <1>1, <1>2, <1>4, <1>5, <1>6, <1>7, <1>8, <1>9, <1>10, <1>11, <1>12, <1>13, <1>14 DEF Next

\* While the screen is up, in front and believes the booking to be on-going, its timer
\* runs, for any number of reads answered in any order and any pauses and resumes.
THEOREM TrackingStaysAlive == Spec => [](TypeOK /\ TrackingAlive)
<1>1. ASSUME Init
      PROVE  DetailInv
  <2>1. PICK r \in Reads, s \in {None, "pending", backend} :
          /\ screen = [mounted |-> TRUE, foreground |-> TRUE, bookingStatus |-> None,
                       snap |-> s, latest |-> r]
          /\ reads = [q \in Reads |-> IF q = r THEN "sent" ELSE "idle"]
    BY <1>1 DEF Init
  <2>2. s \in Statuses \cup {None} /\ None # "on_going"
    BY <1>1, NoneAssumption DEF Init, Statuses, Cancellable
  <2>3. screen \in ScreenType /\ screen.bookingStatus = None
    BY <2>1, <2>2 DEF ScreenType
  <2>4. reads \in [Reads -> Statuses \cup {"idle", "sent"}]
    BY <2>1
  <2>5. location \in LocationType
    BY <1>1, MaxPollsAssumption DEF Init, LocationType
  <2>6. timer \in TimerType
    BY <1>1 DEF Init, TimerType
  <2> QED
    BY <1>1, <2>2, <2>3, <2>4, <2>5, <2>6
    DEF Init, DetailInv, TypeOK, TrackingAlive, ScreenType, TimerType, LocationType
<1>2. DetailInv => TypeOK /\ TrackingAlive
  BY DEF DetailInv
<1> QED
  BY <1>1, <1>2, DetailStep, PTL DEF Spec

-----------------------------------------------------------------------------
(* Sequences.                                                               *)

LEMMA FunctionIsSeq ==
  ASSUME NEW S, NEW n \in Nat, NEW f \in [1..n -> S]
  PROVE  f \in Seq(S) /\ Len(f) = n /\ DOMAIN f = 1..n
OBVIOUS

LEMMA AppendFacts ==
  ASSUME NEW S, NEW q \in Seq(S), NEW x \in S
  PROVE  /\ Append(q, x) \in Seq(S) /\ Len(Append(q, x)) = Len(q) + 1
         /\ \A i \in 1..Len(q) : Append(q, x)[i] = q[i]
         /\ Append(q, x)[Len(q) + 1] = x
OBVIOUS

LEMMA ReplaceFacts ==
  ASSUME NEW S, NEW q \in Seq(S), NEW x \in S, NEW i \in 1..Len(q)
  PROVE  /\ [q EXCEPT ![i] = x] \in Seq(S) /\ Len([q EXCEPT ![i] = x]) = Len(q)
         /\ [q EXCEPT ![i] = x][i] = x
         /\ \A j \in 1..Len(q) : j # i => [q EXCEPT ![i] = x][j] = q[j]
OBVIOUS

LEMMA FrontFacts ==
  ASSUME NEW S, NEW q \in Seq(S), q # <<>>
  PROVE  /\ SubSeq(q, 1, Len(q) - 1) \in Seq(S)
         /\ Len(SubSeq(q, 1, Len(q) - 1)) = Len(q) - 1
         /\ \A i \in 1..(Len(q) - 1) : SubSeq(q, 1, Len(q) - 1)[i] = q[i]
<1> DEFINE n == Len(q) - 1
<1>1. n \in Nat /\ \A i \in 1..n : q[i] \in S
  OBVIOUS
<1>2. /\ SubSeq(q, 1, n) \in Seq(S)
      /\ Len(SubSeq(q, 1, n)) = IF 1 <= n THEN n - 1 + 1 ELSE 0
      /\ \A i \in 1..(n - 1 + 1) : SubSeq(q, 1, n)[i] = q[1 + i - 1]
  BY <1>1, SubSeqProperties
<1>3. Len(q) - 1 = n
  OBVIOUS
<1> HIDE DEF n
<1>4. n - 1 + 1 = n /\ (1 <= n \/ n = 0) /\ \A i \in 1..n : 1 + i - 1 = i
  BY <1>1
<1> QED  BY <1>1, <1>2, <1>3, <1>4

-----------------------------------------------------------------------------
(* The add-ons.                                                             *)

RouteType ==
  [kind : {"page", "book", "dialog"}, service : Pages, answer : Answers \cup {NoAnswer},
   asking : BOOLEAN, priced : SUBSET Addons!Objects, list : SUBSET Addons!Objects,
   shares : BOOLEAN, disturbed : BOOLEAN]

BookedType == [service : Pages \cup {NoAnswer}, priced : SUBSET Addons!Objects,
               sent : SUBSET Addons!Objects, disturbed : BOOLEAN]

AddonTypeOK ==
  /\ routes \in Seq(RouteType)
  /\ answerOf \in [Answers -> Pages \cup {NoAnswer}]
  /\ selectedServiceAddon \in SUBSET Addons!Objects
  /\ booked \in BookedType

Rank(kind) == IF kind = "page" THEN 0 ELSE IF kind = "book" THEN 1 ELSE 2

\* Above an undisturbed route there are only the booking screen and the dialog opened
\* from it, undisturbed too.
UndisturbedOnTop ==
  \A i, j \in 1..Len(routes) :
    i < j /\ ~routes[i].disturbed =>
      ~routes[j].disturbed /\ Rank(routes[i].kind) < Rank(routes[j].kind)

\* A page shows an answer for its own service.
AnswersBelong ==
  \A i \in 1..Len(routes) :
    routes[i].answer # NoAnswer => answerOf[routes[i].answer] = routes[i].service

\* While a route is undisturbed, the global list holds add-ons of its service, and these
\* are what a booking screen shows and prices and a dialog has in its price.
ChosenBelong ==
  \A i \in 1..Len(routes) : ~routes[i].disturbed =>
    \A o \in selectedServiceAddon : answerOf[o[1]] = routes[i].service
PricedIsChosen ==
  \A i \in 1..Len(routes) : ~routes[i].disturbed =>
    /\ routes[i].kind \in {"book", "dialog"} => routes[i].priced = selectedServiceAddon
    /\ routes[i].kind = "book" => routes[i].list = selectedServiceAddon

BookedOfService == booked.sent # {} => booked.service \in Pages

AddonInv ==
  /\ AddonTypeOK
  /\ UndisturbedOnTop /\ AnswersBelong /\ ChosenBelong /\ PricedIsChosen
  /\ BookedOfService /\ Addons!UndisturbedBookingIsConsistent

LEMMA AddonInit == Addons!Init => AddonInv
<1> SUFFICES ASSUME Addons!Init PROVE AddonInv
  OBVIOUS
<1>1. routes = <<>> /\ Len(routes) = 0 /\ routes \in Seq(RouteType)
  BY DEF Addons!Init
<1>2. AddonTypeOK
  BY <1>1 DEF Addons!Init, AddonTypeOK, BookedType
<1> QED
  BY <1>1, <1>2 DEF Addons!Init, AddonInv, UndisturbedOnTop, AnswersBelong, ChosenBelong,
     PricedIsChosen, BookedOfService, Addons!UndisturbedBookingIsConsistent

\* Nothing was booked and no answer came: the last booking stays as it was.
LEMMA BookedStays ==
  ASSUME AddonInv, UNCHANGED <<booked, answerOf>>
  PROVE  booked' \in BookedType /\ BookedOfService' /\ Addons!UndisturbedBookingIsConsistent'
  BY DEF AddonInv, AddonTypeOK, BookedOfService, Addons!UndisturbedBookingIsConsistent

\* The route on top.
LEMMA TopFacts ==
  ASSUME AddonInv, routes # <<>>
  PROVE  /\ Len(routes) \in 1..Len(routes) /\ Addons!Top = routes[Len(routes)]
         /\ Addons!Top \in RouteType
         /\ Addons!Top.disturbed => \A i \in 1..Len(routes) : routes[i].disturbed
         /\ \A i \in 1..Len(routes) : i # Len(routes) /\ ~routes[i].disturbed =>
              Rank(routes[i].kind) < Rank(Addons!Top.kind)
<1>1. Len(routes) \in 1..Len(routes) /\ Addons!Top = routes[Len(routes)] /\ Addons!Top \in RouteType
  BY DEF AddonInv, AddonTypeOK, Addons!Top
<1>2. \A i \in 1..Len(routes) : i # Len(routes) => i < Len(routes)
  BY <1>1
<1> QED  BY <1>1, <1>2 DEF AddonInv, UndisturbedOnTop

\* A booking screen or a dialog is opened.
LEMMA PushKeeps ==
  ASSUME AddonInv, routes # <<>>, NEW x \in RouteType, routes' = Append(routes, x),
         x.answer = NoAnswer, x.service = Addons!Top.service,
         x.disturbed = Addons!Top.disturbed,
         \/ Addons!Top.kind = "page" /\ x.kind = "book"
         \/ Addons!Top.kind = "book" /\ x.kind = "dialog",
         x.priced = IF x.kind = "book" THEN selectedServiceAddon ELSE Addons!Top.priced,
         x.kind = "book" => x.list = selectedServiceAddon,
         UNCHANGED <<answerOf, selectedServiceAddon, booked>>
  PROVE  AddonInv'
<1> DEFINE n == Len(routes)
<1>0. n \in 1..n /\ Addons!Top = routes[n] /\ n \in Nat
  BY TopFacts DEF AddonInv, AddonTypeOK
<1>1. /\ routes' \in Seq(RouteType) /\ Len(routes') = n + 1
      /\ \A i \in 1..n : routes'[i] = routes[i]
      /\ routes'[n + 1] = x
  BY AppendFacts DEF AddonInv, AddonTypeOK
<1>2. \A i \in 1..(n + 1) : i \in 1..n \/ i = n + 1
  BY <1>0
<1>3. UndisturbedOnTop'
  <2> SUFFICES ASSUME NEW i \in 1..(n + 1), NEW j \in 1..(n + 1), i < j, ~routes'[i].disturbed
               PROVE  ~routes'[j].disturbed /\ Rank(routes'[i].kind) < Rank(routes'[j].kind)
    BY <1>1 DEF UndisturbedOnTop
  <2>1. i \in 1..n /\ routes'[i] = routes[i]
    BY <1>0, <1>1
  <2>2. CASE j \in 1..n
    BY <1>1, <2>1, <2>2 DEF AddonInv, UndisturbedOnTop
  <2>3. CASE j = n + 1
    <3>1. ~Addons!Top.disturbed
      BY <2>1, TopFacts
    <3>2. CASE i = n
      BY <1>0, <1>1, <2>1, <2>3, <3>1, <3>2 DEF Rank
    <3>3. CASE i # n
      <4>1. Rank(routes[i].kind) < Rank(Addons!Top.kind)
        BY <2>1, <3>3, TopFacts
      <4>2. Rank(Addons!Top.kind) < Rank(x.kind)
        BY DEF Rank
      <4> HIDE DEF n
      <4> QED  BY <1>1, <2>1, <2>3, <3>1, <4>1, <4>2 DEF Rank
    <3> QED  BY <3>2, <3>3
  <2> QED  BY <1>2, <2>2, <2>3
<1>4. AnswersBelong'
  BY <1>1, <1>2 DEF AddonInv, AnswersBelong
<1>5. ChosenBelong' /\ PricedIsChosen'
  <2>1. ASSUME NEW i \in 1..n
        PROVE  routes'[i] = routes[i]
    BY <1>1
  <2>2. ~x.disturbed => /\ \A o \in selectedServiceAddon : answerOf[o[1]] = x.service
                        /\ x.priced = selectedServiceAddon
    BY <1>0 DEF AddonInv, ChosenBelong, PricedIsChosen
  <2> HIDE DEF n
  <2> QED  BY <1>1, <1>2, <2>1, <2>2 DEF n, AddonInv, ChosenBelong, PricedIsChosen
<1> QED
  BY <1>1, <1>3, <1>4, <1>5, BookedStays DEF AddonInv, AddonTypeOK

LEMMA OpenPageKeeps ==
  ASSUME AddonInv, NEW s \in Pages, Addons!OpenPage(s)
  PROVE  AddonInv'
<1> DEFINE n == Len(routes)
           old == [i \in DOMAIN routes |->
                     [routes[i] EXCEPT !.disturbed = TRUE,
                                       !.list = IF routes[i].shares THEN {} ELSE @]]
           new == [Addons!Route("page", s, FALSE) EXCEPT !.asking = TRUE]
<1>0. n \in Nat /\ DOMAIN routes = 1..n /\ \A i \in 1..n : routes[i] \in RouteType
  BY DEF AddonInv, AddonTypeOK
<1>1. \A i \in 1..n : /\ [routes[i] EXCEPT !.disturbed = TRUE,
                             !.list = IF routes[i].shares THEN {} ELSE @] \in RouteType
  BY <1>0 DEF RouteType
<1>2. old \in Seq(RouteType) /\ Len(old) = n
  <2>1. old \in [1..n -> RouteType]
    BY <1>0, <1>1
  <2> QED  BY <1>0, <2>1, FunctionIsSeq
<1>3. \A i \in 1..n : old[i].disturbed /\ old[i].answer = routes[i].answer
                        /\ old[i].service = routes[i].service
  BY <1>0 DEF RouteType
<1>4. new \in RouteType /\ new.answer = NoAnswer /\ new.kind = "page"
  BY DEF RouteType, Addons!Route
<1>5. routes' = Append(old, new)
  BY DEF Addons!OpenPage
<1> HIDE DEF old, new
<1>6. /\ routes' \in Seq(RouteType) /\ Len(routes') = n + 1
      /\ \A i \in 1..n : routes'[i] = old[i]
      /\ routes'[n + 1] = new
  BY <1>2, <1>4, <1>5, AppendFacts
<1>7. selectedServiceAddon' = {} /\ UNCHANGED <<answerOf, booked>>
  BY DEF Addons!OpenPage
<1>8. \A i \in 1..(n + 1) : i \in 1..n \/ i = n + 1
  BY <1>0
<1>9. UndisturbedOnTop'
  BY <1>0, <1>3, <1>6 DEF UndisturbedOnTop
<1>10. AnswersBelong'
  BY <1>3, <1>4, <1>6, <1>7, <1>8 DEF AddonInv, AnswersBelong
<1>11. ChosenBelong' /\ PricedIsChosen'
  BY <1>3, <1>4, <1>6, <1>7, <1>8 DEF ChosenBelong, PricedIsChosen
<1> QED
  BY <1>6, <1>7, <1>9, <1>10, <1>11, BookedStays DEF AddonInv, AddonTypeOK

LEMMA BookNowKeeps ==
  ASSUME AddonInv, Addons!BookNow
  PROVE  AddonInv'
<1> DEFINE x == [Addons!Route("book", Addons!Top.service, Addons!Top.disturbed) EXCEPT
                   !.priced = selectedServiceAddon,
                   !.list = selectedServiceAddon, !.shares = TRUE]
<1>1. routes # <<>> /\ Addons!Top.kind = "page"
  BY DEF Addons!BookNow, Addons!OnTop
<1>2. Addons!Top.service \in Pages /\ Addons!Top.disturbed \in BOOLEAN
      /\ selectedServiceAddon \in SUBSET Addons!Objects
  BY <1>1, TopFacts DEF RouteType, AddonInv, AddonTypeOK
<1>3. /\ x \in RouteType /\ x.kind = "book" /\ x.answer = NoAnswer
      /\ x.service = Addons!Top.service /\ x.disturbed = Addons!Top.disturbed
      /\ x.priced = selectedServiceAddon /\ x.list = selectedServiceAddon
  BY <1>2 DEF RouteType, Addons!Route
<1>4. routes' = Append(routes, x) /\ UNCHANGED <<answerOf, selectedServiceAddon, booked>>
  BY DEF Addons!BookNow
<1> HIDE DEF x
<1> QED  BY <1>1, <1>3, <1>4, PushKeeps

LEMMA OpenDialogKeeps ==
  ASSUME AddonInv, Addons!OpenDialog
  PROVE  AddonInv'
<1> DEFINE x == [Addons!Route("dialog", Addons!Top.service, Addons!Top.disturbed) EXCEPT
                   !.priced = Addons!Top.priced]
<1>1. routes # <<>> /\ Addons!Top.kind = "book"
  BY DEF Addons!OpenDialog, Addons!OnTop
<1>2. Addons!Top.service \in Pages /\ Addons!Top.disturbed \in BOOLEAN
      /\ Addons!Top.priced \in SUBSET Addons!Objects
  BY <1>1, TopFacts DEF RouteType
<1>3. /\ x \in RouteType /\ x.kind = "dialog" /\ x.answer = NoAnswer
      /\ x.service = Addons!Top.service /\ x.disturbed = Addons!Top.disturbed
      /\ x.priced = Addons!Top.priced
  BY <1>2 DEF RouteType, Addons!Route
<1>4. routes' = Append(routes, x) /\ UNCHANGED <<answerOf, selectedServiceAddon, booked>>
  BY DEF Addons!OpenDialog
<1> HIDE DEF x
<1> QED  BY <1>1, <1>3, <1>4, PushKeeps

\* The same routes, each of the same kind, for the same service and as disturbed as before.
SameStack ==
  /\ routes' \in Seq(RouteType) /\ Len(routes') = Len(routes)
  /\ \A i \in 1..Len(routes) : /\ routes'[i].kind = routes[i].kind
                               /\ routes'[i].service = routes[i].service
                               /\ routes'[i].disturbed = routes[i].disturbed

LEMMA SameStackKeepsOrder ==
  ASSUME AddonInv, SameStack
  PROVE  UndisturbedOnTop'
  BY DEF AddonInv, SameStack, UndisturbedOnTop

\* One route changes, and not in what it is.
LEMMA OneChanges ==
  ASSUME AddonInv, NEW i \in 1..Len(routes), NEW x \in RouteType,
         routes' = [routes EXCEPT ![i] = x],
         x.kind = routes[i].kind, x.service = routes[i].service,
         x.disturbed = routes[i].disturbed
  PROVE  /\ SameStack /\ routes'[i] = x
         /\ \A j \in 1..Len(routes) : j # i => routes'[j] = routes[j]
<1>1. /\ routes' \in Seq(RouteType) /\ Len(routes') = Len(routes) /\ routes'[i] = x
      /\ \A j \in 1..Len(routes) : j # i => routes'[j] = routes[j]
  BY ReplaceFacts DEF AddonInv, AddonTypeOK
<1> QED  BY <1>1 DEF SameStack

LEMMA RefreshKeeps ==
  ASSUME AddonInv, Addons!Refresh
  PROVE  AddonInv'
<1> DEFINE x == [Addons!Top EXCEPT !.asking = TRUE]
<1>1. routes # <<>> /\ routes' = [routes EXCEPT ![Len(routes)] = x]
      /\ UNCHANGED <<answerOf, selectedServiceAddon, booked>>
  BY DEF Addons!Refresh, Addons!OnTop, Addons!WithTop
<1>2. Len(routes) \in 1..Len(routes) /\ Addons!Top = routes[Len(routes)]
      /\ Addons!Top \in RouteType
  BY <1>1, TopFacts
<1>3. /\ x \in RouteType /\ x.kind = Addons!Top.kind /\ x.service = Addons!Top.service
      /\ x.disturbed = Addons!Top.disturbed /\ x.answer = Addons!Top.answer
      /\ x.priced = Addons!Top.priced /\ x.list = Addons!Top.list
  BY <1>2 DEF RouteType
<1> HIDE DEF x
<1>4. /\ SameStack /\ routes'[Len(routes)] = x
      /\ \A j \in 1..Len(routes) : j # Len(routes) => routes'[j] = routes[j]
  BY <1>1, <1>2, <1>3, OneChanges
<1>5. \A j \in 1..Len(routes) : /\ routes'[j].answer = routes[j].answer
                                /\ routes'[j].priced = routes[j].priced
                                /\ routes'[j].list = routes[j].list
  BY <1>2, <1>3, <1>4
<1>6. AnswersBelong'
  BY <1>1, <1>4, <1>5, ZenonT(60) DEF SameStack, AddonInv, AnswersBelong
<1>7. ChosenBelong'
  BY <1>1, <1>4, <1>5, ZenonT(60) DEF SameStack, AddonInv, ChosenBelong
<1>8. PricedIsChosen'
  BY <1>1, <1>4, <1>5, ZenonT(60) DEF SameStack, AddonInv, PricedIsChosen
<1> QED
  BY <1>1, <1>4, <1>6, <1>7, <1>8, SameStackKeepsOrder, BookedStays DEF AddonInv, AddonTypeOK, SameStack

LEMMA DetailKeeps ==
  ASSUME AddonInv, NEW i \in DOMAIN routes,
         Addons!DetailFails(i) \/ \E g \in Answers : Addons!DetailArrives(i, g)
  PROVE  AddonInv'
<1>0. i \in 1..Len(routes) /\ routes[i] \in RouteType
  BY DEF AddonInv, AddonTypeOK
<1>1. PICK g \in Answers \cup {NoAnswer} :
        routes' = [routes EXCEPT ![i] = [routes[i] EXCEPT !.asking = FALSE, !.answer = g]]
        /\ \/ g = NoAnswer /\ answerOf' = answerOf
           \/ g \in Answers /\ answerOf[g] = NoAnswer
              /\ answerOf' = [answerOf EXCEPT ![g] = routes[i].service]
  BY <1>0 DEF Addons!DetailFails, Addons!DetailArrives
<1>2. UNCHANGED <<selectedServiceAddon, booked>>
  BY DEF Addons!DetailFails, Addons!DetailArrives
<1> DEFINE x == [routes[i] EXCEPT !.asking = FALSE, !.answer = g]
<1>3. /\ x \in RouteType /\ x.kind = routes[i].kind /\ x.service = routes[i].service
      /\ x.disturbed = routes[i].disturbed /\ x.answer = g
      /\ x.priced = routes[i].priced /\ x.list = routes[i].list
  BY <1>0 DEF RouteType
<1> HIDE DEF x
<1>4. /\ SameStack /\ routes'[i] = x
      /\ \A j \in 1..Len(routes) : j # i => routes'[j] = routes[j]
  BY <1>0, <1>1, <1>3, OneChanges DEF x
<1>5. /\ answerOf' \in [Answers -> Pages \cup {NoAnswer}]
      /\ \A a \in Answers : answerOf[a] # NoAnswer => answerOf'[a] = answerOf[a]
      /\ g # NoAnswer => answerOf'[g] = routes[i].service
  BY <1>0, <1>1, AddonsAssumption DEF AddonInv, AddonTypeOK, RouteType
<1>6. \A j \in 1..Len(routes) : routes[j].service \in Pages
                                /\ routes[j].answer \in Answers \cup {NoAnswer}
  <2>1. \A j \in 1..Len(routes) : routes[j] \in RouteType
    BY DEF AddonInv, AddonTypeOK
  <2> QED  BY <2>1 DEF RouteType
<1>7. AnswersBelong'
  <2> SUFFICES ASSUME NEW j \in 1..Len(routes), routes'[j].answer # NoAnswer
               PROVE  answerOf'[routes'[j].answer] = routes'[j].service
    BY <1>4 DEF AnswersBelong, SameStack
  <2>1. CASE j = i
    BY <1>3, <1>4, <1>5, <2>1
  <2>2. CASE j # i
    <3>1. routes'[j] = routes[j] /\ routes[j].answer \in Answers
      BY <1>4, <1>6, <2>2
    <3>2. answerOf[routes[j].answer] = routes[j].service
      BY <3>1 DEF AddonInv, AnswersBelong
    <3> QED  BY <1>5, <1>6, <3>1, <3>2, AddonsAssumption
  <2> QED  BY <2>1, <2>2
<1>8. ChosenBelong' /\ PricedIsChosen'
  <2>1. \A o \in selectedServiceAddon : o[1] \in Answers
    BY DEF AddonInv, AddonTypeOK, Addons!Objects
  <2>2. ChosenBelong'
    BY <1>2, <1>4, <1>5, <1>6, <2>1, AddonsAssumption DEF SameStack, AddonInv, ChosenBelong
  <2>3. \A j \in 1..Len(routes) : /\ routes'[j].priced = routes[j].priced
                                  /\ routes'[j].list = routes[j].list
    BY <1>3, <1>4
  <2> QED  BY <1>2, <1>4, <2>2, <2>3 DEF SameStack, AddonInv, PricedIsChosen
<1>9. booked' \in BookedType /\ BookedOfService' /\ Addons!UndisturbedBookingIsConsistent'
  <2>1. \A o \in booked.sent : o[1] \in Answers
    BY DEF AddonInv, AddonTypeOK, BookedType, Addons!Objects
  <2>2. booked' \in BookedType /\ BookedOfService'
    BY <1>2 DEF AddonInv, AddonTypeOK, BookedOfService
  <2> QED
    BY <1>2, <1>5, <2>1, <2>2, AddonsAssumption
    DEF AddonInv, BookedOfService, Addons!UndisturbedBookingIsConsistent
<1> QED
  BY <1>2, <1>4, <1>5, <1>7, <1>8, <1>9, SameStackKeepsOrder DEF AddonInv, AddonTypeOK, SameStack

\* The lists lose what they share with the store's, and nothing else.
LEMMA UnsharedFacts ==
  ASSUME AddonInv
  PROVE  /\ Addons!Unshared \in Seq(RouteType) /\ Len(Addons!Unshared) = Len(routes)
         /\ \A i \in 1..Len(routes) :
              /\ Addons!Unshared[i].kind = routes[i].kind
              /\ Addons!Unshared[i].service = routes[i].service
              /\ Addons!Unshared[i].disturbed = routes[i].disturbed
              /\ Addons!Unshared[i].answer = routes[i].answer
<1>0. Len(routes) \in Nat /\ DOMAIN routes = 1..Len(routes)
      /\ \A i \in 1..Len(routes) : routes[i] \in RouteType
  BY DEF AddonInv, AddonTypeOK
<1>1. \A i \in 1..Len(routes) : [routes[i] EXCEPT !.shares = FALSE] \in RouteType
  BY <1>0 DEF RouteType
<1>2. Addons!Unshared \in [1..Len(routes) -> RouteType]
  BY <1>0, <1>1 DEF Addons!Unshared
<1>3. Addons!Unshared \in Seq(RouteType) /\ Len(Addons!Unshared) = Len(routes)
  BY <1>0, <1>2, FunctionIsSeq
<1>4. \A i \in 1..Len(routes) : Addons!Unshared[i] = [routes[i] EXCEPT !.shares = FALSE]
  BY <1>0 DEF Addons!Unshared
<1>5. \A i \in 1..Len(routes) :
              /\ Addons!Unshared[i].kind = routes[i].kind
              /\ Addons!Unshared[i].service = routes[i].service
              /\ Addons!Unshared[i].disturbed = routes[i].disturbed
              /\ Addons!Unshared[i].answer = routes[i].answer
  BY <1>0, <1>4 DEF RouteType
<1> QED  BY <1>3, <1>4, <1>5

LEMMA AddRemoveKeeps ==
  ASSUME AddonInv, NEW o \in Addons!Objects, Addons!AddRemove(o)
  PROVE  AddonInv'
<1> DEFINE n == Len(routes)
<1>1. /\ routes # <<>> /\ Addons!Top.kind = "page" /\ o \in Addons!ObjectsOf(Addons!Top.answer)
      /\ selectedServiceAddon' \subseteq Addons!ObjectsOf(Addons!Top.answer)
      /\ routes' = Addons!Unshared /\ UNCHANGED <<answerOf, booked>>
  BY DEF Addons!AddRemove, Addons!OnTop
<1>2. n \in 1..n /\ Addons!Top = routes[n]
  BY <1>1, TopFacts
<1>3. \A i \in 1..n : ~routes[i].disturbed => i = n
  BY <1>1, <1>2, TopFacts DEF Rank
<1>4. SameStack /\ \A i \in 1..n : routes'[i].answer = routes[i].answer
  BY <1>1, UnsharedFacts DEF SameStack
<1>5. Addons!Top.answer \in Answers /\ Addons!Top.answer # NoAnswer
  BY <1>1, AddonsAssumption DEF Addons!ObjectsOf, Addons!Objects
<1>6. answerOf[Addons!Top.answer] = Addons!Top.service
  BY <1>2, <1>5 DEF AddonInv, AnswersBelong
<1>7. \A q \in selectedServiceAddon' : q[1] = Addons!Top.answer
  BY <1>1 DEF Addons!ObjectsOf
<1>8. AnswersBelong'
  BY <1>1, <1>4 DEF SameStack, AddonInv, AnswersBelong
<1>9. ChosenBelong' /\ PricedIsChosen'
  BY <1>1, <1>2, <1>3, <1>4, <1>6, <1>7 DEF SameStack, ChosenBelong, PricedIsChosen
<1>10. selectedServiceAddon' \in SUBSET Addons!Objects
  BY <1>1 DEF Addons!ObjectsOf
<1> QED
  BY <1>1, <1>4, <1>8, <1>9, <1>10, SameStackKeepsOrder, BookedStays
  DEF AddonInv, AddonTypeOK, SameStack

\* The booking screen on top takes a list for its price and its component: an undisturbed
\* one the global list.
LEMMA PriceKeeps ==
  ASSUME AddonInv, routes # <<>>, Addons!Top.kind = "book",
         selectedServiceAddon' \in SUBSET Addons!Objects,
         ~Addons!Top.disturbed => selectedServiceAddon' \subseteq selectedServiceAddon,
         UNCHANGED <<answerOf, booked>>,
         SameStack,
         \A i \in 1..Len(routes) : routes'[i].answer = routes[i].answer,
         ~Addons!Top.disturbed => /\ routes'[Len(routes)].priced = selectedServiceAddon'
                                  /\ routes'[Len(routes)].list = selectedServiceAddon'
  PROVE  AddonInv'
<1> DEFINE n == Len(routes)
<1>1. n \in 1..n /\ Addons!Top = routes[n]
  BY TopFacts
<1>2. \A i \in 1..n : ~routes[i].disturbed =>
        ~Addons!Top.disturbed /\ (i = n \/ routes[i].kind = "page")
  <2> SUFFICES ASSUME NEW i \in 1..n, ~routes[i].disturbed
               PROVE  ~Addons!Top.disturbed /\ (i = n \/ routes[i].kind = "page")
    OBVIOUS
  <2>1. ~Addons!Top.disturbed /\ (i # n => Rank(routes[i].kind) < Rank(Addons!Top.kind))
    BY TopFacts
  <2> QED  BY <2>1 DEF Rank
<1>3. AnswersBelong'
  BY DEF SameStack, AddonInv, AnswersBelong
<1>4. ChosenBelong'
  BY <1>2 DEF SameStack, AddonInv, ChosenBelong
<1>5. PricedIsChosen'
  BY <1>1, <1>2 DEF SameStack, PricedIsChosen
<1> QED
  BY <1>3, <1>4, <1>5, SameStackKeepsOrder, BookedStays DEF AddonInv, AddonTypeOK, SameStack

LEMMA BookScreenKeeps ==
  ASSUME AddonInv, Addons!SetPrice \/ Addons!Rebuild
  PROVE  AddonInv'
<1> DEFINE n == Len(routes)
<1>1. /\ routes # <<>> /\ Addons!Top.kind = "book"
      /\ UNCHANGED <<answerOf, selectedServiceAddon, booked>>
  BY DEF Addons!SetPrice, Addons!Rebuild, Addons!OnTop
<1>2. n \in 1..n /\ Addons!Top = routes[n] /\ Addons!Top \in RouteType
  BY <1>1, TopFacts
<1>3. ~Addons!Top.disturbed => Addons!Top.priced = selectedServiceAddon
  BY <1>1, <1>2 DEF AddonInv, PricedIsChosen
<1>4. PICK p \in {selectedServiceAddon, Addons!Top.priced} :
        /\ routes' = [routes EXCEPT ![n] = [Addons!Top EXCEPT
                        !.priced = p, !.list = selectedServiceAddon, !.shares = TRUE]]
  <2>1. CASE Addons!SetPrice
    BY <2>1 DEF Addons!SetPrice, Addons!WithTop, Addons!Repriced
  <2>2. CASE Addons!Rebuild
    <3>1. [Addons!Top EXCEPT !.list = selectedServiceAddon, !.shares = TRUE]
            = [Addons!Top EXCEPT !.priced = Addons!Top.priced,
                                 !.list = selectedServiceAddon, !.shares = TRUE]
      BY <1>2 DEF RouteType
    <3> QED  BY <2>2, <3>1 DEF Addons!Rebuild, Addons!WithTop
  <2> QED  BY <2>1, <2>2
<1> DEFINE x == [Addons!Top EXCEPT !.priced = p, !.list = selectedServiceAddon, !.shares = TRUE]
<1>5. p \in SUBSET Addons!Objects /\ selectedServiceAddon \in SUBSET Addons!Objects
  BY <1>2 DEF AddonInv, AddonTypeOK, RouteType
<1>6. /\ x \in RouteType /\ x.kind = Addons!Top.kind /\ x.service = Addons!Top.service
      /\ x.disturbed = Addons!Top.disturbed /\ x.answer = Addons!Top.answer
      /\ x.priced = p /\ x.list = selectedServiceAddon
  BY <1>2, <1>5 DEF RouteType
<1> HIDE DEF x
<1>7. /\ SameStack /\ routes'[n] = x
      /\ \A j \in 1..n : j # n => routes'[j] = routes[j]
  BY <1>2, <1>4, <1>6, OneChanges DEF x
<1> QED  BY <1>1, <1>2, <1>3, <1>4, <1>5, <1>6, <1>7, PriceKeeps

LEMMA RemoveKeeps ==
  ASSUME AddonInv, NEW o \in Addons!Objects, Addons!Remove(o)
  PROVE  AddonInv'
<1> DEFINE n == Len(routes)
           x == Addons!Repriced(selectedServiceAddon')
<1>1. /\ routes # <<>> /\ Addons!Top.kind = "book"
      /\ selectedServiceAddon' \subseteq Addons!Top.list
      /\ routes' = [Addons!Unshared EXCEPT ![n] = x]
      /\ UNCHANGED <<answerOf, booked>>
  BY DEF Addons!Remove, Addons!OnTop
<1>2. n \in 1..n /\ Addons!Top = routes[n] /\ Addons!Top \in RouteType
  BY <1>1, TopFacts
<1>3. ~Addons!Top.disturbed => Addons!Top.list = selectedServiceAddon
  BY <1>1, <1>2 DEF AddonInv, PricedIsChosen
<1>4. selectedServiceAddon' \in SUBSET Addons!Objects
  BY <1>1, <1>2 DEF RouteType
<1>5. /\ x \in RouteType /\ x.kind = Addons!Top.kind /\ x.service = Addons!Top.service
      /\ x.disturbed = Addons!Top.disturbed /\ x.answer = Addons!Top.answer
      /\ x.priced = selectedServiceAddon' /\ x.list = selectedServiceAddon'
  BY <1>2, <1>4 DEF RouteType, Addons!Repriced
<1> HIDE DEF x
<1>6. /\ routes' \in Seq(RouteType) /\ Len(routes') = n /\ routes'[n] = x
      /\ \A j \in 1..n : j # n => routes'[j] = Addons!Unshared[j]
  BY <1>1, <1>2, <1>5, UnsharedFacts, ReplaceFacts
<1>7. SameStack /\ \A j \in 1..n : routes'[j].answer = routes[j].answer
  BY <1>2, <1>5, <1>6, UnsharedFacts DEF SameStack
<1> QED  BY <1>1, <1>3, <1>4, <1>5, <1>6, <1>7, PriceKeeps

LEMMA BookServicesKeeps ==
  ASSUME AddonInv, Addons!BookServices
  PROVE  AddonInv'
<1>1. /\ routes # <<>> /\ Addons!Top.kind = "dialog"
      /\ booked' = [service |-> Addons!Top.service, priced |-> Addons!Top.priced,
                    sent |-> selectedServiceAddon, disturbed |-> Addons!Top.disturbed]
      /\ UNCHANGED <<routes, answerOf, selectedServiceAddon>>
  BY DEF Addons!BookServices, Addons!OnTop
<1>2. /\ Len(routes) \in 1..Len(routes) /\ Addons!Top = routes[Len(routes)]
      /\ Addons!Top \in RouteType
  BY <1>1, TopFacts
<1>3. booked' \in BookedType /\ BookedOfService'
  BY <1>1, <1>2 DEF AddonInv, AddonTypeOK, RouteType, BookedType, BookedOfService
<1>4. ~Addons!Top.disturbed =>
        /\ Addons!Top.priced = selectedServiceAddon
        /\ \A o \in selectedServiceAddon : answerOf[o[1]] = Addons!Top.service
  BY <1>1, <1>2 DEF AddonInv, PricedIsChosen, ChosenBelong
<1>5. Addons!UndisturbedBookingIsConsistent'
  BY <1>1, <1>4 DEF Addons!UndisturbedBookingIsConsistent
<1> QED
  BY <1>1, <1>3, <1>5 DEF AddonInv, AddonTypeOK, UndisturbedOnTop, AnswersBelong, ChosenBelong,
     PricedIsChosen

LEMMA AddonBackKeeps ==
  ASSUME AddonInv, Addons!Back
  PROVE  AddonInv'
<1> DEFINE n == Len(routes) - 1
<1>0. routes # <<>> /\ n \in Nat /\ 1..n \subseteq 1..Len(routes)
  BY DEF Addons!Back, AddonInv, AddonTypeOK
<1>1. /\ routes' \in Seq(RouteType) /\ Len(routes') = n
      /\ \A i \in 1..n : routes'[i] = routes[i]
      /\ UNCHANGED <<answerOf, selectedServiceAddon, booked>>
  BY <1>0, FrontFacts DEF Addons!Back, AddonInv, AddonTypeOK
<1> HIDE DEF n
<1>2. UndisturbedOnTop'
  BY <1>0, <1>1 DEF AddonInv, UndisturbedOnTop
<1>3. AnswersBelong' /\ ChosenBelong' /\ PricedIsChosen'
  BY <1>0, <1>1 DEF AddonInv, AnswersBelong, ChosenBelong, PricedIsChosen
<1> QED
  BY <1>1, <1>2, <1>3, BookedStays DEF AddonInv, AddonTypeOK

LEMMA AddonStep == AddonInv /\ [Addons!Next]_(Addons!vars) => AddonInv'
<1> SUFFICES ASSUME AddonInv, [Addons!Next]_(Addons!vars) PROVE AddonInv'
  OBVIOUS
<1>1. CASE UNCHANGED Addons!vars
  BY <1>1 DEF Addons!vars, AddonInv, AddonTypeOK, UndisturbedOnTop, AnswersBelong,
     ChosenBelong, PricedIsChosen, BookedOfService, Addons!UndisturbedBookingIsConsistent
<1> QED
  BY <1>1, OpenPageKeeps, DetailKeeps, AddRemoveKeeps, RemoveKeeps, RefreshKeeps, BookNowKeeps,
     BookScreenKeeps, OpenDialogKeeps, BookServicesKeeps, AddonBackKeeps
  DEF Addons!Next

\* For any services, add-ons and depth of the navigator: a booking above which, and above
\* whose service page, no other service page was opened sends exactly the add-ons in its
\* price, all of the service booked.
THEOREM UndisturbedBookingsConsistent == Addons!Spec => []UndisturbedBookingIsConsistent
<1>1. AddonInv => UndisturbedBookingIsConsistent
  BY DEF AddonInv, UndisturbedBookingIsConsistent
<1> QED  BY <1>1, AddonInit, AddonStep, PTL DEF Addons!Spec

-----------------------------------------------------------------------------
(* The wallet.                                                              *)

Ids == Users \cup {Nobody}

TopUpType == [st : {"none", "checkout", "delay", "sent", "credited", "reading", "over"},
              of : Ids, charged : Amounts, amount : Amounts, by : Ids]

ReadType == [st : {"idle", "sent", "answered"}, of : Ids,
             value : SUBSET TopUps, topUp : SUBSET TopUps]

PastType == [edited : SUBSET TopUps, left : SUBSET TopUps, overtaken : SUBSET BalanceReads,
             foreign : BOOLEAN, unzeroed : BOOLEAN]

WalletTypeOK ==
  /\ isLoggedIn \in BOOLEAN /\ token \in Ids
  /\ clears \in [Clears -> {"none", "token", "balance"}]
  /\ walletAmountCont \in Amounts
  /\ topUp \in [TopUps -> TopUpType]
  /\ balance \in [Users -> SUBSET TopUps]
  /\ userWalletAmount \in [of : Ids, value : SUBSET TopUps]
  /\ read \in [BalanceReads -> ReadType]
  /\ past \in PastType

\* The backend answers a balance request that carries a token.
ReadsOfUsers == \A r \in BalanceReads : read[r].st = "answered" => read[r].of \in Users

LEMMA WalletTypeInit == Purse!Init => WalletTypeOK /\ ReadsOfUsers
<1> SUFFICES ASSUME Purse!Init PROVE WalletTypeOK /\ ReadsOfUsers
  OBVIOUS
<1> USE DEF Purse!Init, Ids
<1>1. /\ isLoggedIn \in BOOLEAN /\ token \in Ids
      /\ clears \in [Clears -> {"none", "token", "balance"}]
      /\ walletAmountCont \in Amounts /\ balance \in [Users -> SUBSET TopUps]
  BY AmountsAssumption
<1>2. topUp \in [TopUps -> TopUpType]
  BY AmountsAssumption DEF Purse!Untouched, TopUpType
<1>3. read \in [BalanceReads -> ReadType] /\ ReadsOfUsers
  BY DEF Purse!NoRead, ReadType, ReadsOfUsers
<1>4. userWalletAmount \in [of : Ids, value : SUBSET TopUps]
  BY DEF Purse!Zero
<1>5. past \in PastType
  BY DEF PastType
<1> QED  BY <1>1, <1>2, <1>3, <1>4, <1>5 DEF WalletTypeOK

\* The account a request is made for is an account or nobody.
LEMMA BearerType == ASSUME WalletTypeOK PROVE Purse!Bearer \in Ids
BY DEF WalletTypeOK, Ids, Purse!Bearer

\* What setUserWalletAmount leaves behind, with the flag and without it.
LEMMA AskEffect ==
  ASSUME WalletTypeOK, NEW r \in BalanceReads, NEW t, NEW u \in BOOLEAN,
         Purse!SetUserWalletAmount(r, t, u)
  PROVE  \/ /\ isLoggedIn
            /\ read' = [read EXCEPT ![r] = [st |-> "sent", of |-> Purse!Bearer,
                                            value |-> {}, topUp |-> t]]
            /\ past'.overtaken = past.overtaken \ {r} /\ past'.unzeroed = u
            /\ past'.foreign = past.foreign
            /\ past'.edited = past.edited /\ past'.left = past.left /\ past' \in PastType
            /\ UNCHANGED userWalletAmount
         \/ /\ ~isLoggedIn
            /\ userWalletAmount' = [of |-> Nobody, value |-> {}]
            /\ past'.overtaken = past.overtaken
            /\ past'.edited = past.edited /\ past'.left = past.left /\ past' \in PastType
            /\ UNCHANGED read
<1>1. CASE isLoggedIn
  <2>1. /\ read' = [read EXCEPT ![r] = [st |-> "sent", of |-> Purse!Bearer,
                                         value |-> {}, topUp |-> t]]
        /\ past' = [past EXCEPT !.overtaken = @ \ {r}, !.unzeroed = u]
        /\ UNCHANGED userWalletAmount
    BY <1>1 DEF Purse!SetUserWalletAmount, Purse!NoRead
  <2>3. /\ past'.overtaken = past.overtaken \ {r} /\ past'.unzeroed = u
        /\ past'.foreign = past.foreign
        /\ past'.edited = past.edited /\ past'.left = past.left /\ past' \in PastType
    BY <2>1 DEF WalletTypeOK, PastType
  <2> QED  BY <1>1, <2>1, <2>3
<1>2. CASE ~isLoggedIn
  <2>1. /\ userWalletAmount' = Purse!Zero /\ UNCHANGED read
        /\ past' = [past EXCEPT !.foreign = FALSE, !.unzeroed = FALSE]
    BY <1>2 DEF Purse!SetUserWalletAmount
  <2>2. /\ past'.overtaken = past.overtaken
        /\ past'.edited = past.edited /\ past'.left = past.left /\ past' \in PastType
    BY <2>1 DEF WalletTypeOK, PastType
  <2> QED  BY <1>2, <2>1, <2>2 DEF Purse!Zero
<1> QED  BY <1>1, <1>2

LEMMA AskTypes ==
  ASSUME WalletTypeOK, ReadsOfUsers, NEW r \in BalanceReads, NEW t \in SUBSET TopUps,
         NEW u \in BOOLEAN, Purse!SetUserWalletAmount(r, t, u)
  PROVE  /\ read' \in [BalanceReads -> ReadType] /\ past' \in PastType
         /\ userWalletAmount' \in [of : Ids, value : SUBSET TopUps]
         /\ ReadsOfUsers'
<1> DEFINE q == [st |-> "sent", of |-> Purse!Bearer, value |-> {}, topUp |-> t]
<1>1. q \in ReadType /\ q.st = "sent"
  BY BearerType DEF ReadType
<1>2. /\ past' \in PastType
      /\ \/ read' = [read EXCEPT ![r] = q] /\ UNCHANGED userWalletAmount
         \/ userWalletAmount' = [of |-> Nobody, value |-> {}] /\ UNCHANGED read
  BY AskEffect
<1> HIDE DEF q
<1>3. read' \in [BalanceReads -> ReadType] /\ ReadsOfUsers'
  BY <1>1, <1>2 DEF WalletTypeOK, ReadsOfUsers
<1>4. userWalletAmount' \in [of : Ids, value : SUBSET TopUps]
  BY <1>2 DEF WalletTypeOK, Ids
<1> QED  BY <1>2, <1>3, <1>4

\* What the end of a request leaves behind.
LEMMA EndTypes ==
  ASSUME WalletTypeOK, ReadsOfUsers, NEW r \in BalanceReads, Purse!EndRead(r)
  PROVE  /\ read' \in [BalanceReads -> ReadType] /\ topUp' \in [TopUps -> TopUpType]
         /\ ReadsOfUsers'
<1> USE DEF WalletTypeOK, Ids
<1>1. read' \in [BalanceReads -> ReadType] /\ ReadsOfUsers'
  BY DEF Purse!EndRead, Purse!NoRead, ReadType, ReadsOfUsers
<1>2. ASSUME NEW t \in TopUps
      PROVE  [topUp[t] EXCEPT !.st = "over"] \in TopUpType
  BY DEF TopUpType
<1> QED  BY <1>1, <1>2 DEF Purse!EndRead

\* A save of the token or the flag, or clearPreferences up to the balance.
SessionStep ==
  \/ \E a \in Users : Purse!SaveToken(a)
  \/ Purse!SaveLoggedIn
  \/ \E c \in Clears : Purse!ClearLoggedIn(c) \/ Purse!ClearToken(c)

\* What it does to the session and the history.
LEMMA SessionEffect ==
  ASSUME WalletTypeOK, SessionStep
  PROVE  /\ isLoggedIn' \in BOOLEAN /\ token' \in Ids
         /\ clears' \in [Clears -> {"none", "token", "balance"}]
         /\ past' \in PastType
         /\ past'.edited = past.edited /\ past'.overtaken = past.overtaken
         /\ past'.foreign = past.foreign
         /\ past'.left \in {past.left, Purse!Leaving}
         /\ past'.left = Purse!Leaving \/ token' = token
         /\ UNCHANGED <<walletAmountCont, topUp, balance, userWalletAmount, read>>
<1> USE DEF WalletTypeOK, Ids
<1>0. Purse!Leaving \in SUBSET TopUps
  BY DEF Purse!Leaving, PastType
<1>1. ASSUME NEW a \in Users, Purse!SaveToken(a)
      PROVE  /\ past' \in PastType
             /\ past'.edited = past.edited /\ past'.overtaken = past.overtaken
             /\ past'.foreign = past.foreign
             /\ past'.left \in {past.left, Purse!Leaving}
             /\ past'.left = Purse!Leaving \/ token' = token
  <2> DEFINE u == past.unzeroed \/ (token # a /\ (token # Nobody \/ Purse!Clearing # {}))
             l == IF token # a THEN Purse!Leaving ELSE past.left
  <2>1. past' = [past EXCEPT !.unzeroed = u, !.left = l] /\ token' = a
    BY <1>1 DEF Purse!SaveToken, PastType
  <2>2. u \in BOOLEAN /\ l \in SUBSET TopUps /\ l \in {past.left, Purse!Leaving}
    BY <1>0 DEF PastType
  <2>3. l = Purse!Leaving \/ token' = token
    BY <2>1
  <2> HIDE DEF u, l
  <2> QED  BY <2>1, <2>2, <2>3 DEF PastType
<1>2. ASSUME NEW c \in Clears, Purse!ClearToken(c)
      PROVE  /\ past' \in PastType
             /\ past'.edited = past.edited /\ past'.overtaken = past.overtaken
             /\ past'.foreign = past.foreign /\ past'.left = Purse!Leaving
  BY <1>0, <1>2 DEF Purse!ClearToken, PastType
<1>3. CASE \E a \in Users : Purse!SaveToken(a)
  BY <1>1, <1>3 DEF Purse!SaveToken
<1>4. CASE Purse!SaveLoggedIn
  BY <1>4 DEF Purse!SaveLoggedIn
<1>5. CASE \E c \in Clears : Purse!ClearLoggedIn(c)
  BY <1>5 DEF Purse!ClearLoggedIn
<1>6. CASE \E c \in Clears : Purse!ClearToken(c)
  BY <1>2, <1>6 DEF Purse!ClearToken
<1> QED  BY <1>3, <1>4, <1>5, <1>6 DEF SessionStep

LEMMA WalletTypeStep ==
  ASSUME WalletTypeOK, ReadsOfUsers, [Purse!Next]_(Purse!vars)
  PROVE  WalletTypeOK' /\ ReadsOfUsers'
<1> USE DEF WalletTypeOK, Ids
<1>0. past.unzeroed \in BOOLEAN
  BY DEF PastType
<1>1. ASSUME NEW r \in BalanceReads, Purse!AskBalance(r)
      PROVE  WalletTypeOK' /\ ReadsOfUsers'
  <2>1. /\ Purse!SetUserWalletAmount(r, {}, past.unzeroed)
        /\ UNCHANGED <<isLoggedIn, token, clears, walletAmountCont, topUp, balance>>
    BY <1>1 DEF Purse!AskBalance, Purse!sessionVars
  <2>2. /\ read' \in [BalanceReads -> ReadType] /\ past' \in PastType
        /\ userWalletAmount' \in [of : Ids, value : SUBSET TopUps]
        /\ ReadsOfUsers'
    <3>1. WalletTypeOK /\ {} \in SUBSET TopUps
      OBVIOUS
    <3> QED  BY ONLY <1>0, <2>1, <3>1, ReadsOfUsers, AskTypes
  <2> QED  BY <2>1, <2>2
<1>2. ASSUME NEW r \in BalanceReads, Purse!ServeBalance(r)
      PROVE  WalletTypeOK' /\ ReadsOfUsers'
  <2>1. balance[read[r].of] \in SUBSET TopUps /\ read[r].of \in Users
    BY <1>2 DEF ReadType, Purse!ServeBalance
  <2> DEFINE n == [read[r] EXCEPT !.st = "answered", !.value = balance[read[r].of]]
  <2>2. n \in ReadType /\ n.of = read[r].of
    BY <1>2, <2>1 DEF Purse!ServeBalance, ReadType
  <2>3. read' = [read EXCEPT ![r] = n]
    BY <1>2 DEF Purse!ServeBalance
  <2> HIDE DEF n
  <2>4. read' \in [BalanceReads -> ReadType]
    BY <2>2, <2>3
  <2>5. ReadsOfUsers'
    BY <2>1, <2>2, <2>3 DEF ReadsOfUsers
  <2> QED  BY <1>2, <2>4, <2>5 DEF Purse!ServeBalance, Purse!sessionVars
<1>3. ASSUME NEW r \in BalanceReads, Purse!BalanceArrives(r)
      PROVE  WalletTypeOK' /\ ReadsOfUsers'
  <2>1. userWalletAmount' \in [of : Ids, value : SUBSET TopUps]
    BY <1>3 DEF Purse!BalanceArrives, ReadType
  <2> DEFINE b == read[r].of # token
             o == (past.overtaken \cup Purse!Pending) \ {r}
  <2>2. b \in BOOLEAN /\ o \in SUBSET BalanceReads
    BY DEF Purse!Pending, PastType
  <2>3. past' = [past EXCEPT !.foreign = b, !.unzeroed = FALSE, !.overtaken = o]
    BY <1>3 DEF Purse!BalanceArrives, PastType
  <2> HIDE DEF b, o
  <2>4. past' \in PastType
    BY <2>2, <2>3 DEF PastType
  <2> QED  BY <1>3, <2>1, <2>4, EndTypes DEF Purse!BalanceArrives, Purse!sessionVars
<1>4. ASSUME NEW r \in BalanceReads, Purse!BalanceFails(r)
      PROVE  WalletTypeOK' /\ ReadsOfUsers'
  BY <1>4, EndTypes DEF Purse!BalanceFails, Purse!KeepsBalance, Purse!sessionVars
<1>5. ASSUME NEW v \in Amounts, Purse!Edit(v)
      PROVE  WalletTypeOK' /\ ReadsOfUsers'
  BY <1>5 DEF Purse!Edit, PastType, ReadsOfUsers, Purse!sessionVars
<1>6. ASSUME NEW t \in TopUps,
             \/ Purse!HandleClick(t) \/ Purse!OnComplete(t) \/ Purse!CheckoutEnds(t)
             \/ Purse!WalletTopUp(t) \/ Purse!TopUpFails(t)
      PROVE  WalletTypeOK' /\ ReadsOfUsers'
  <2>1. PICK x \in TopUpType : topUp' = [topUp EXCEPT ![t] = x]
    <3>1. topUp[t] \in TopUpType
      OBVIOUS
    <3>2. CASE Purse!HandleClick(t)
      <4>1. [Purse!Untouched EXCEPT !.st = "checkout", !.of = token,
                                    !.charged = walletAmountCont] \in TopUpType
        BY AmountsAssumption DEF TopUpType, Purse!Untouched
      <4> QED  BY <3>2, <4>1 DEF Purse!HandleClick
    <3>3. CASE Purse!OnComplete(t)
      <4>1. [topUp[t] EXCEPT !.st = "delay", !.amount = walletAmountCont] \in TopUpType
        BY <3>1 DEF TopUpType
      <4> QED  BY <3>3, <4>1 DEF Purse!OnComplete
    <3>4. CASE Purse!WalletTopUp(t)
      <4>0. Purse!Bearer \in Ids
        BY BearerType
      <4>1. [topUp[t] EXCEPT !.st = "sent", !.by = Purse!Bearer] \in TopUpType
        BY <3>1, <4>0 DEF TopUpType
      <4> QED  BY <3>4, <4>1 DEF Purse!WalletTopUp
    <3>5. CASE Purse!CheckoutEnds(t) \/ Purse!TopUpFails(t)
      <4>1. [topUp[t] EXCEPT !.st = "over"] \in TopUpType
        BY <3>1 DEF TopUpType
      <4> QED  BY <3>5, <4>1 DEF Purse!CheckoutEnds, Purse!TopUpFails
    <3> QED  BY <1>6, <3>2, <3>3, <3>4, <3>5
  <2>2. UNCHANGED <<isLoggedIn, token, clears, walletAmountCont, balance, userWalletAmount,
                    read, past>>
    BY <1>6 DEF Purse!HandleClick, Purse!OnComplete, Purse!CheckoutEnds, Purse!WalletTopUp,
                Purse!TopUpFails, Purse!sessionVars
  <2> QED
    BY <2>1, <2>2 DEF ReadsOfUsers
<1>7. ASSUME NEW t \in TopUps, Purse!ServeTopUp(t)
      PROVE  WalletTypeOK' /\ ReadsOfUsers'
  BY <1>7 DEF Purse!ServeTopUp, TopUpType, ReadsOfUsers, Purse!sessionVars
<1>8. ASSUME NEW t \in TopUps, NEW r \in BalanceReads, Purse!TopUpAnswered(t, r)
      PROVE  WalletTypeOK' /\ ReadsOfUsers'
  <2>1. topUp' \in [TopUps -> TopUpType]
    BY <1>8 DEF Purse!TopUpAnswered, TopUpType
  <2>2. /\ Purse!SetUserWalletAmount(r, {t}, past.unzeroed)
        /\ UNCHANGED <<isLoggedIn, token, clears, walletAmountCont, balance>>
    BY <1>8 DEF Purse!TopUpAnswered, Purse!sessionVars
  <2>3. /\ read' \in [BalanceReads -> ReadType] /\ past' \in PastType
        /\ userWalletAmount' \in [of : Ids, value : SUBSET TopUps]
        /\ ReadsOfUsers'
    <3>1. WalletTypeOK /\ {t} \in SUBSET TopUps
      OBVIOUS
    <3> QED  BY ONLY <1>0, <2>2, <3>1, ReadsOfUsers, AskTypes
  <2> QED  BY <2>1, <2>2, <2>3
<1>9. CASE SessionStep
  BY <1>9, SessionEffect DEF ReadsOfUsers
<1>10. ASSUME NEW c \in Clears, NEW r \in BalanceReads, Purse!ClearBalance(c, r)
       PROVE  WalletTypeOK' /\ ReadsOfUsers'
  <2>1. clears' \in [Clears -> {"none", "token", "balance"}]
    BY <1>10 DEF Purse!ClearBalance
  <2> QED  BY <1>10, <2>1, AskTypes DEF Purse!ClearBalance
<1>11. ASSUME Purse!Restart
       PROVE  WalletTypeOK' /\ ReadsOfUsers'
  <2>1. topUp' \in [TopUps -> TopUpType]
    BY <1>11 DEF Purse!Restart, TopUpType
  <2>2. past' \in PastType /\ clears' \in [Clears -> {"none", "token", "balance"}]
    BY <1>11 DEF Purse!Restart, PastType
  <2>3. read' \in [BalanceReads -> ReadType] /\ ReadsOfUsers'
    BY <1>11 DEF Purse!Restart, Purse!NoRead, ReadType, ReadsOfUsers
  <2> QED
    BY <1>11, <2>1, <2>2, <2>3, AmountsAssumption DEF Purse!Restart, Purse!Zero
<1>12. CASE UNCHANGED Purse!vars
  BY <1>12 DEF Purse!vars, Purse!sessionVars, ReadsOfUsers
<1> QED
  BY <1>1, <1>2, <1>3, <1>4, <1>5, <1>6, <1>7, <1>8, <1>9, <1>10, <1>11, <1>12
  DEF Purse!Next, SessionStep

\* The balance shown is within the backend's for its account; so is every answer.
WithinBalance ==
  /\ userWalletAmount.of \in Users => userWalletAmount.value \subseteq balance[userWalletAmount.of]
  /\ userWalletAmount.of = Nobody => userWalletAmount.value = {}
  /\ \A r \in BalanceReads : read[r].st = "answered" => read[r].value \subseteq balance[read[r].of]

\* An answer for the account shown that nothing has overtaken holds at least what is shown.
AnswerIsNewer ==
  \A r \in BalanceReads :
    read[r].st = "answered" /\ r \notin past.overtaken /\ read[r].of = userWalletAmount.of =>
      userWalletAmount.value \subseteq read[r].value

\* With none of the named causes, another account's balance is shown only without a token,
\* until the clearPreferences that took it comes to the balance.
OwnOrClearing ==
  userWalletAmount.of \notin {token, Nobody} /\ ~past.foreign /\ ~past.unzeroed =>
    token = Nobody /\ \E c \in Clears : clears[c] = "balance"

BalanceParts == WithinBalance /\ AnswerIsNewer /\ OwnOrClearing

BalanceInv == WalletTypeOK /\ ReadsOfUsers /\ BalanceParts

LEMMA BalanceInit == Purse!Init => BalanceInv
<1> SUFFICES ASSUME Purse!Init PROVE BalanceInv
  OBVIOUS
<1>1. WithinBalance /\ AnswerIsNewer /\ OwnOrClearing
  BY UsersAssumption
  DEF Purse!Init, Purse!NoRead, Purse!Zero, WithinBalance, AnswerIsNewer, OwnOrClearing
<1> QED  BY <1>1, WalletTypeInit DEF BalanceInv, BalanceParts

\* A step that concerns the top-ups alone.
LEMMA TopUpKeepsBalance ==
  ASSUME BalanceInv, UNCHANGED <<token, clears, userWalletAmount, read>>,
         past'.overtaken = past.overtaken, past'.foreign = past.foreign,
         past'.unzeroed = past.unzeroed,
         \A a \in Users : balance[a] \subseteq balance'[a]
  PROVE  BalanceParts'
<1>1. /\ userWalletAmount.of \in Users => balance[userWalletAmount.of] \subseteq balance'[userWalletAmount.of]
      /\ \A r \in BalanceReads : read[r].st = "answered" => balance[read[r].of] \subseteq balance'[read[r].of]
  BY DEF BalanceInv, ReadsOfUsers
<1>2. WithinBalance'
  BY <1>1 DEF BalanceInv, BalanceParts, WithinBalance
<1> QED
  BY <1>2 DEF BalanceInv, BalanceParts, AnswerIsNewer, OwnOrClearing

\* setUserWalletAmount: a new request, or nothing shown to nobody.  A clearPreferences that
\* gets past it with the flag set is one of the named causes.
LEMMA AskKeepsBalance ==
  ASSUME BalanceInv, NEW r \in BalanceReads, NEW t, NEW u \in BOOLEAN,
         Purse!SetUserWalletAmount(r, t, u), UNCHANGED <<token, balance>>,
         u \/ UNCHANGED clears, past.unzeroed => u
  PROVE  BalanceParts'
<1> USE DEF BalanceInv, BalanceParts, WalletTypeOK
<1>1. CASE /\ read' = [read EXCEPT ![r] = [st |-> "sent", of |-> Purse!Bearer,
                                           value |-> {}, topUp |-> t]]
           /\ past'.overtaken = past.overtaken \ {r} /\ past'.unzeroed = u
           /\ past'.foreign = past.foreign
           /\ UNCHANGED userWalletAmount
  <2>1. \A q \in BalanceReads : read'[q].st = "answered" => q # r /\ read'[q] = read[q]
    BY <1>1
  <2>2. WithinBalance'
    BY <1>1, <2>1 DEF WithinBalance
  <2>3. AnswerIsNewer'
    BY <1>1, <2>1 DEF AnswerIsNewer
  <2>4. OwnOrClearing'
    BY <1>1 DEF OwnOrClearing
  <2> QED  BY <2>2, <2>3, <2>4
<1>2. CASE /\ userWalletAmount' = [of |-> Nobody, value |-> {}] /\ UNCHANGED read
  BY <1>2, UsersAssumption DEF WithinBalance, AnswerIsNewer, OwnOrClearing
<1>3. WalletTypeOK
  OBVIOUS
<1> QED  BY <1>1, <1>2, <1>3, AskEffect

LEMMA ServeKeepsBalance ==
  ASSUME BalanceInv, NEW r \in BalanceReads, Purse!ServeBalance(r)
  PROVE  BalanceParts'
<1> USE DEF BalanceInv, BalanceParts, WalletTypeOK
<1>1. /\ read[r].st = "sent" /\ read[r].of \in Users
      /\ read' = [read EXCEPT ![r].st = "answered", ![r].value = balance[read[r].of]]
      /\ UNCHANGED <<token, clears, balance, userWalletAmount, past>>
  BY DEF Purse!ServeBalance, Purse!sessionVars, ReadType, Ids
<1>2. /\ read'[r].st = "answered" /\ read'[r].value = balance[read[r].of]
      /\ read'[r].of = read[r].of
      /\ \A q \in BalanceReads : q # r => read'[q] = read[q]
  BY <1>1 DEF ReadType
<1>3. WithinBalance' /\ OwnOrClearing'
  BY <1>1, <1>2 DEF WithinBalance, OwnOrClearing
<1>4. read[r].of = userWalletAmount.of => userWalletAmount.value \subseteq balance[read[r].of]
  BY <1>1 DEF WithinBalance
<1>5. AnswerIsNewer'
  BY <1>1, <1>2, <1>4 DEF AnswerIsNewer
<1> QED  BY <1>3, <1>5

LEMMA ArrivalKeepsBalance ==
  ASSUME BalanceInv, NEW r \in BalanceReads, Purse!BalanceArrives(r)
  PROVE  BalanceParts'
<1> USE DEF BalanceInv, BalanceParts, WalletTypeOK
<1>1. /\ read[r].st = "answered"
      /\ userWalletAmount' = [of |-> read[r].of, value |-> read[r].value]
      /\ UNCHANGED <<token, clears, balance>>
  BY DEF Purse!BalanceArrives, Purse!sessionVars
<1>2. read'[r].st = "idle" /\ \A q \in BalanceReads : q # r => read'[q] = read[q]
  BY DEF Purse!BalanceArrives, Purse!EndRead, Purse!NoRead
<1>3. /\ past'.foreign = (read[r].of # token)
      /\ past'.overtaken = (past.overtaken \cup Purse!Pending) \ {r}
  BY DEF Purse!BalanceArrives, PastType
<1>4. WithinBalance'
  <2>1. read[r].of \in Users /\ read[r].value \subseteq balance[read[r].of]
    BY <1>1 DEF ReadsOfUsers, WithinBalance
  <2>2. userWalletAmount'.of \in Users /\ userWalletAmount'.value \subseteq balance'[userWalletAmount'.of]
    BY <1>1, <2>1
  <2>3. \A q \in BalanceReads : read'[q].st = "answered" => q # r /\ read'[q] = read[q]
    BY <1>2
  <2> QED  BY <1>1, <2>2, <2>3, UsersAssumption DEF WithinBalance
<1>5. AnswerIsNewer'
  <2> SUFFICES ASSUME NEW q \in BalanceReads, read'[q].st = "answered"
               PROVE  q \in past'.overtaken
    BY DEF AnswerIsNewer
  <2>1. q # r /\ q \in Purse!Pending
    BY <1>2 DEF Purse!Pending
  <2> QED  BY <1>3, <2>1
<1>6. OwnOrClearing'
  BY <1>1, <1>3 DEF OwnOrClearing
<1> QED  BY <1>4, <1>5, <1>6

LEMMA FailureKeepsBalance ==
  ASSUME BalanceInv, NEW r \in BalanceReads, Purse!BalanceFails(r)
  PROVE  BalanceParts'
<1> USE DEF BalanceInv, BalanceParts, WalletTypeOK
<1>1. read'[r].st = "idle" /\ \A q \in BalanceReads : q # r => read'[q] = read[q]
  BY DEF Purse!BalanceFails, Purse!EndRead, Purse!NoRead
<1>2. UNCHANGED <<token, clears, balance, past, userWalletAmount>>
  BY DEF Purse!BalanceFails, Purse!KeepsBalance, Purse!sessionVars
<1>3. \A q \in BalanceReads : read'[q].st = "answered" => read'[q] = read[q]
  BY <1>1
<1> QED
  BY <1>2, <1>3 DEF WithinBalance, AnswerIsNewer, OwnOrClearing

\* Saves, clearings and a restart: another account's balance is not left without a cause.
LEMMA SessionKeepsBalance ==
  ASSUME BalanceInv, SessionStep
  PROVE  BalanceParts'
<1> USE DEF BalanceInv, BalanceParts, WalletTypeOK
<1>1. /\ past'.overtaken = past.overtaken /\ past'.foreign = past.foreign
      /\ UNCHANGED <<balance, userWalletAmount, read>>
  <2>1. WalletTypeOK
    OBVIOUS
  <2> QED  BY <2>1, SessionEffect
<1>2. WithinBalance'
  BY <1>1 DEF WithinBalance
<1>3. AnswerIsNewer'
  BY <1>1 DEF AnswerIsNewer
<1>4. ASSUME NEW a \in Users, Purse!SaveToken(a)
      PROVE  OwnOrClearing'
  <2>1. /\ token' = a /\ clears' = clears
        /\ past'.unzeroed
             = (past.unzeroed \/ (token # a /\ (token # Nobody \/ Purse!Clearing # {})))
    BY <1>4 DEF Purse!SaveToken, PastType
  <2>2. CASE token = a
    BY <1>1, <2>1, <2>2 DEF OwnOrClearing
  <2>3. CASE token # a
    <3> SUFFICES ASSUME userWalletAmount.of # Nobody, ~past.foreign, ~past'.unzeroed
                 PROVE  FALSE
      BY <1>1 DEF OwnOrClearing
    <3>1. ~past.unzeroed /\ token = Nobody /\ Purse!Clearing = {}
      BY <2>1, <2>3
    <3>2. PICK c \in Clears : clears[c] = "balance"
      BY <3>1 DEF OwnOrClearing
    <3> QED  BY <3>1, <3>2 DEF Purse!Clearing
  <2> QED  BY <2>2, <2>3
<1>5. ASSUME Purse!SaveLoggedIn
      PROVE  OwnOrClearing'
  <2>1. UNCHANGED <<token, clears, userWalletAmount, past>>
    BY <1>5 DEF Purse!SaveLoggedIn
  <2> QED  BY <2>1 DEF OwnOrClearing
<1>6. ASSUME NEW c \in Clears, Purse!ClearLoggedIn(c)
      PROVE  OwnOrClearing'
  <2>1. /\ clears[c] = "none" /\ UNCHANGED <<token, userWalletAmount, past>>
        /\ \A d \in Clears : d # c => clears'[d] = clears[d]
    BY <1>6 DEF Purse!ClearLoggedIn
  <2> QED  BY <2>1 DEF OwnOrClearing
<1>7. ASSUME NEW c \in Clears, Purse!ClearToken(c)
      PROVE  OwnOrClearing'
  <2>1. token' = Nobody /\ clears'[c] = "balance"
    BY <1>7 DEF Purse!ClearToken
  <2> QED  BY <2>1 DEF OwnOrClearing
<1> QED  BY <1>2, <1>3, <1>4, <1>5, <1>6, <1>7 DEF SessionStep

LEMMA BalanceStep == BalanceInv /\ [Purse!Next]_(Purse!vars) => BalanceInv'
<1> SUFFICES ASSUME BalanceInv, [Purse!Next]_(Purse!vars) PROVE BalanceInv'
  OBVIOUS
<1>0. past.unzeroed \in BOOLEAN
  BY DEF BalanceInv, WalletTypeOK, PastType
<1>1. WalletTypeOK' /\ ReadsOfUsers'
  BY WalletTypeStep DEF BalanceInv
<1>2. ASSUME NEW r \in BalanceReads,
             \/ Purse!AskBalance(r) \/ Purse!ServeBalance(r)
             \/ Purse!BalanceArrives(r) \/ Purse!BalanceFails(r)
      PROVE  BalanceParts'
  <2>1. CASE Purse!AskBalance(r)
    BY <1>0, <2>1, AskKeepsBalance DEF Purse!AskBalance, Purse!sessionVars
  <2> QED
    BY <1>2, <2>1, ServeKeepsBalance, ArrivalKeepsBalance, FailureKeepsBalance
<1>3. ASSUME NEW v \in Amounts, Purse!Edit(v)
      PROVE  BalanceParts'
  <2>1. /\ past'.overtaken = past.overtaken /\ past'.foreign = past.foreign
        /\ past'.unzeroed = past.unzeroed
    BY <1>3 DEF Purse!Edit, BalanceInv, WalletTypeOK, PastType
  <2> QED  BY <1>3, <2>1, TopUpKeepsBalance DEF Purse!Edit, Purse!sessionVars
<1>4. ASSUME NEW t \in TopUps,
             \/ Purse!HandleClick(t) \/ Purse!OnComplete(t) \/ Purse!CheckoutEnds(t)
             \/ Purse!WalletTopUp(t) \/ Purse!ServeTopUp(t) \/ Purse!TopUpFails(t)
      PROVE  BalanceParts'
  <2>1. UNCHANGED <<token, clears, userWalletAmount, read, past>>
    BY <1>4 DEF Purse!HandleClick, Purse!OnComplete, Purse!CheckoutEnds, Purse!WalletTopUp,
                Purse!ServeTopUp, Purse!TopUpFails, Purse!sessionVars
  <2>2. \A a \in Users : balance[a] \subseteq balance'[a]
    BY <1>4 DEF Purse!HandleClick, Purse!OnComplete, Purse!CheckoutEnds, Purse!WalletTopUp,
                Purse!ServeTopUp, Purse!TopUpFails, BalanceInv, WalletTypeOK
  <2> QED  BY <2>1, <2>2, TopUpKeepsBalance
<1>5. ASSUME NEW t \in TopUps, NEW r \in BalanceReads, Purse!TopUpAnswered(t, r)
      PROVE  BalanceParts'
  BY <1>0, <1>5, AskKeepsBalance DEF Purse!TopUpAnswered, Purse!sessionVars
<1>6. ASSUME SessionStep
      PROVE  BalanceParts'
  BY <1>6, SessionKeepsBalance
<1>7. ASSUME NEW c \in Clears, NEW r \in BalanceReads, Purse!ClearBalance(c, r)
      PROVE  BalanceParts'
  BY <1>7, AskKeepsBalance DEF Purse!ClearBalance
<1>8. ASSUME Purse!Restart
      PROVE  BalanceParts'
  <2>1. /\ userWalletAmount' = [of |-> Nobody, value |-> {}]
        /\ \A r \in BalanceReads : read'[r].st = "idle"
    BY <1>8 DEF Purse!Restart, Purse!NoRead, Purse!Zero
  <2>2. WithinBalance' /\ AnswerIsNewer'
    BY <2>1, UsersAssumption DEF WithinBalance, AnswerIsNewer
  <2>3. OwnOrClearing'
    BY <2>1 DEF OwnOrClearing
  <2> QED  BY <2>2, <2>3 DEF BalanceParts
<1>9. ASSUME UNCHANGED Purse!vars
      PROVE  BalanceParts'
  <2>1. UNCHANGED <<token, clears, balance, userWalletAmount, read, past>>
    BY <1>9 DEF Purse!vars, Purse!sessionVars
  <2> QED  BY <2>1, TopUpKeepsBalance
<1> QED
  BY <1>1, <1>2, <1>3, <1>4, <1>5, <1>6, <1>7, <1>8, <1>9
  DEF Purse!Next, SessionStep, BalanceInv

\* For any accounts, requests, top-ups and sign-outs: the balance shown is that of the
\* account signed in, except after the answer to a request made with another token, after a
\* token stored over another account's or during a sign-out, and after a sign-out that found
\* the flag set again.
THEOREM ShownBalanceIsOwn == Purse!Spec => []ShownIsOwn
<1>1. BalanceInv => ShownIsOwn
  BY DEF BalanceInv, BalanceParts, OwnOrClearing, ShownIsOwn, Purse!ShownIsOwn
<1> QED  BY <1>1, BalanceInit, BalanceStep, PTL DEF Purse!Spec

\* For any accounts, requests and top-ups: a top-up disappears from the balance shown only
\* with a restart, when the balance is zeroed without the flag, or through an answer that
\* another one had overtaken or that is for another account.
THEOREM BalanceOnlyOvertaken == Purse!Spec => LosesOnlyByOvertaking
<1>1. ASSUME BalanceInv, [Purse!Next]_(Purse!vars)
      PROVE  [\A t \in userWalletAmount.value \ userWalletAmount'.value :
                \/ Purse!Restart
                \/ ~isLoggedIn /\ userWalletAmount' = Purse!Zero
                \/ \E r \in BalanceReads : /\ Purse!BalanceArrives(r)
                                           /\ \/ r \in past.overtaken
                                              \/ read[r].of # userWalletAmount.of]_(Purse!vars)
  <2> SUFFICES ASSUME Purse!Next,
                      NEW t \in userWalletAmount.value \ userWalletAmount'.value
               PROVE  \/ Purse!Restart
                      \/ ~isLoggedIn /\ userWalletAmount' = Purse!Zero
                      \/ \E r \in BalanceReads : /\ Purse!BalanceArrives(r)
                                                 /\ \/ r \in past.overtaken
                                                    \/ read[r].of # userWalletAmount.of
    BY <1>1
  <2>1. ASSUME NEW r \in BalanceReads, Purse!BalanceArrives(r)
        PROVE  r \in past.overtaken \/ read[r].of # userWalletAmount.of
    BY <1>1, <2>1 DEF BalanceInv, BalanceParts, AnswerIsNewer, Purse!BalanceArrives
  <2>2. ASSUME NEW r \in BalanceReads, NEW q, NEW u, Purse!SetUserWalletAmount(r, q, u)
        PROVE  UNCHANGED userWalletAmount \/ (~isLoggedIn /\ userWalletAmount' = Purse!Zero)
    BY <2>2 DEF Purse!SetUserWalletAmount
  <2>3. CASE UNCHANGED userWalletAmount
    BY <2>3
  <2>4. \/ Purse!Restart \/ UNCHANGED userWalletAmount
        \/ ~isLoggedIn /\ userWalletAmount' = Purse!Zero
        \/ \E r \in BalanceReads : Purse!BalanceArrives(r)
    BY <2>2 DEF Purse!Next, Purse!AskBalance, Purse!ServeBalance, Purse!BalanceFails,
       Purse!KeepsBalance, Purse!Edit, Purse!HandleClick, Purse!OnComplete,
       Purse!CheckoutEnds, Purse!WalletTopUp, Purse!ServeTopUp, Purse!TopUpFails,
       Purse!TopUpAnswered, Purse!SaveToken, Purse!SaveLoggedIn, Purse!ClearLoggedIn,
       Purse!ClearToken, Purse!ClearBalance
  <2> QED  BY <2>1, <2>3, <2>4
<1> QED
  BY <1>1, BalanceInit, BalanceStep, PTL
  DEF Purse!Spec, LosesOnlyByOvertaking, Purse!LosesOnlyByOvertaking

\* The fields of a top-up on its way, and of one that has been credited.
OnItsWay ==
  \A t \in TopUps :
    /\ topUp[t].st = "checkout" => topUp[t].charged = walletAmountCont \/ t \in past.edited
    /\ topUp[t].st \in {"delay", "sent"} =>
         topUp[t].amount = topUp[t].charged \/ t \in past.edited
    /\ topUp[t].st \in {"checkout", "delay"} => topUp[t].of = token \/ t \in past.left
    /\ topUp[t].st = "sent" => topUp[t].by \in {topUp[t].of, Nobody} \/ t \in past.left

\* A credited top-up has left the states in which its fields change.
CreditedIsFinal ==
  \A a \in Users : \A t \in balance[a] : topUp[t].st \in {"credited", "reading", "over"}

CreditInv == WalletTypeOK /\ ReadsOfUsers /\ OnItsWay /\ CreditedIsFinal /\ Purse!CreditIsCharge

LEMMA CreditInit == Purse!Init => CreditInv
<1> SUFFICES ASSUME Purse!Init PROVE CreditInv
  OBVIOUS
<1>1. OnItsWay /\ CreditedIsFinal /\ Purse!CreditIsCharge
  BY DEF Purse!Init, Purse!Untouched, OnItsWay, CreditedIsFinal, Purse!CreditIsCharge
<1> QED  BY <1>1, WalletTypeInit DEF CreditInv

\* A step that takes top-ups no further than to where nothing more is credited.
LEMMA EndingKeepsCredit ==
  ASSUME CreditInv, WalletTypeOK', UNCHANGED <<token, balance>>,
         past.edited = past'.edited, past.left = past'.left,
         \A t \in TopUps : topUp'[t] # topUp[t] =>
           /\ topUp'[t].st \in {"reading", "over"}
           /\ topUp'[t].amount = topUp[t].amount /\ topUp'[t].charged = topUp[t].charged
           /\ topUp'[t].of = topUp[t].of,
         walletAmountCont' = walletAmountCont
           \/ \A t \in TopUps : topUp'[t].st # "checkout"
  PROVE  OnItsWay' /\ CreditedIsFinal' /\ Purse!CreditIsCharge'
<1> USE DEF CreditInv
<1>1. ASSUME NEW t \in TopUps
      PROVE  \/ topUp'[t] = topUp[t]
             \/ topUp'[t].st \in {"reading", "over"}
    OBVIOUS
<1>2. OnItsWay'
  BY <1>1 DEF OnItsWay
<1>3. CreditedIsFinal' /\ Purse!CreditIsCharge'
  BY DEF CreditedIsFinal, Purse!CreditIsCharge, WalletTypeOK
<1> QED  BY <1>2, <1>3

LEMMA CreditStep == CreditInv /\ [Purse!Next]_(Purse!vars) => CreditInv'
<1> SUFFICES ASSUME CreditInv, [Purse!Next]_(Purse!vars) PROVE CreditInv'
  OBVIOUS
<1> DEFINE Kept == OnItsWay' /\ CreditedIsFinal' /\ Purse!CreditIsCharge'
<1>0. WalletTypeOK' /\ ReadsOfUsers'
  BY WalletTypeStep DEF CreditInv
<1> USE DEF CreditInv, WalletTypeOK
<1>a. ASSUME NEW r \in BalanceReads, NEW t, NEW u \in BOOLEAN,
             Purse!SetUserWalletAmount(r, t, u)
      PROVE  past'.edited = past.edited /\ past'.left = past.left
  <2>1. WalletTypeOK
    OBVIOUS
  <2> QED  BY <1>a, <2>1, AskEffect
<1>b. past.unzeroed \in BOOLEAN
  BY DEF PastType
<1>1. ASSUME NEW r \in BalanceReads, Purse!AskBalance(r) \/ Purse!ServeBalance(r)
      PROVE  Kept
  <2>1. past'.edited = past.edited /\ past'.left = past.left
    BY <1>1, <1>a, <1>b DEF Purse!AskBalance, Purse!ServeBalance
  <2>2. UNCHANGED <<token, walletAmountCont, topUp, balance>>
    BY <1>1 DEF Purse!AskBalance, Purse!ServeBalance, Purse!sessionVars
  <2> QED  BY <1>0, <2>1, <2>2, EndingKeepsCredit
<1>2. ASSUME NEW r \in BalanceReads, Purse!BalanceArrives(r) \/ Purse!BalanceFails(r)
      PROVE  Kept
  <2>1. past'.edited = past.edited /\ past'.left = past.left
    BY <1>2 DEF Purse!BalanceArrives, Purse!BalanceFails, PastType
  <2>2. UNCHANGED <<token, walletAmountCont, balance>> /\ Purse!EndRead(r)
    BY <1>2 DEF Purse!BalanceArrives, Purse!BalanceFails, Purse!sessionVars
  <2>3. ASSUME NEW t \in TopUps
        PROVE  topUp'[t] = topUp[t] \/ topUp'[t] = [topUp[t] EXCEPT !.st = "over"]
    BY <2>2 DEF Purse!EndRead
  <2>4. ASSUME NEW t \in TopUps, topUp'[t] # topUp[t]
        PROVE  /\ topUp'[t].st = "over"
               /\ topUp'[t].amount = topUp[t].amount /\ topUp'[t].charged = topUp[t].charged
               /\ topUp'[t].of = topUp[t].of
    <3>1. topUp[t] \in TopUpType /\ topUp'[t] = [topUp[t] EXCEPT !.st = "over"]
      BY <2>3, <2>4
    <3> QED  BY ONLY <3>1 DEF TopUpType
  <2> QED  BY <1>0, <2>1, <2>2, <2>4, EndingKeepsCredit
<1>3. ASSUME NEW v \in Amounts, Purse!Edit(v)
      PROVE  Kept
  <2>1. /\ past'.edited = past.edited \cup {t \in TopUps : topUp[t].st = "checkout"}
        /\ past'.left = past.left /\ UNCHANGED <<token, topUp, balance>>
    BY <1>3 DEF Purse!Edit, Purse!sessionVars, PastType
  <2> QED  BY <2>1 DEF OnItsWay, CreditedIsFinal, Purse!CreditIsCharge
<1>4. ASSUME NEW t \in TopUps, Purse!CheckoutEnds(t) \/ Purse!TopUpFails(t)
      PROVE  Kept
  <2>1. /\ topUp' = [topUp EXCEPT ![t].st = "over"]
        /\ UNCHANGED <<token, walletAmountCont, balance, past>>
    BY <1>4 DEF Purse!CheckoutEnds, Purse!TopUpFails, Purse!sessionVars
  <2>2. \A q \in TopUps : topUp'[q] # topUp[q] =>
          /\ topUp'[q].st = "over"
          /\ topUp'[q].amount = topUp[q].amount /\ topUp'[q].charged = topUp[q].charged
          /\ topUp'[q].of = topUp[q].of
    BY <2>1 DEF TopUpType
  <2> QED  BY <1>0, <2>1, <2>2, EndingKeepsCredit
<1>5. ASSUME NEW t \in TopUps, NEW r \in BalanceReads, Purse!TopUpAnswered(t, r)
      PROVE  Kept
  <2>1. past'.edited = past.edited /\ past'.left = past.left
    BY <1>5, <1>a, <1>b DEF Purse!TopUpAnswered
  <2>2. PICK s \in {"reading", "over"} : topUp' = [topUp EXCEPT ![t].st = s]
    BY <1>5 DEF Purse!TopUpAnswered
  <2>3. \A q \in TopUps : topUp'[q] # topUp[q] =>
          /\ topUp'[q].st \in {"reading", "over"}
          /\ topUp'[q].amount = topUp[q].amount /\ topUp'[q].charged = topUp[q].charged
          /\ topUp'[q].of = topUp[q].of
    BY <2>2 DEF TopUpType
  <2>4. UNCHANGED <<token, walletAmountCont, balance>>
    BY <1>5 DEF Purse!TopUpAnswered, Purse!sessionVars
  <2> QED  BY <1>0, <2>1, <2>3, <2>4, EndingKeepsCredit
<1>6. ASSUME NEW t \in TopUps, topUp[t].st \in {"none", "checkout", "delay"},
             \A q \in TopUps : q # t => topUp'[q] = topUp[q],
             UNCHANGED <<token, walletAmountCont, balance, past>>,
             topUp'[t].st = "checkout" => topUp'[t].charged = walletAmountCont
                                          /\ topUp'[t].of = token,
             topUp'[t].st = "delay" =>
               /\ topUp'[t].amount = topUp'[t].charged \/ t \in past.edited
               /\ topUp'[t].of = token \/ t \in past.left,
             topUp'[t].st = "sent" =>
               /\ topUp'[t].amount = topUp'[t].charged \/ t \in past.edited
               /\ topUp'[t].by \in {topUp'[t].of, Nobody} \/ t \in past.left
      PROVE  Kept
  <2>1. \A a \in Users : t \notin balance[a]
    BY <1>6 DEF CreditedIsFinal
  <2>2. OnItsWay'
    BY <1>6 DEF OnItsWay
  <2> QED  BY <1>6, <2>1, <2>2 DEF CreditedIsFinal, Purse!CreditIsCharge
<1>7. ASSUME NEW t \in TopUps,
             Purse!HandleClick(t) \/ Purse!OnComplete(t) \/ Purse!WalletTopUp(t)
      PROVE  Kept
  <2>0. UNCHANGED <<token, walletAmountCont, balance, past>>
        /\ \A q \in TopUps : q # t => topUp'[q] = topUp[q]
    BY <1>7 DEF Purse!HandleClick, Purse!OnComplete, Purse!WalletTopUp, Purse!sessionVars
  <2>1. CASE Purse!HandleClick(t)
    <3>1. /\ topUp'[t].st = "checkout" /\ topUp'[t].of = token
          /\ topUp'[t].charged = walletAmountCont /\ topUp[t].st = "none"
      BY <2>1 DEF Purse!HandleClick, Purse!Untouched
    <3> QED  BY <1>6, <2>0, <3>1
  <2>2. CASE Purse!OnComplete(t)
    <3>1. /\ topUp'[t].st = "delay" /\ topUp'[t].of = topUp[t].of
          /\ topUp'[t].charged = topUp[t].charged
          /\ topUp'[t].amount = walletAmountCont /\ topUp[t].st = "checkout"
      BY <2>2 DEF Purse!OnComplete, TopUpType
    <3> QED  BY <1>6, <2>0, <3>1 DEF OnItsWay
  <2>3. CASE Purse!WalletTopUp(t)
    <3>1. /\ topUp'[t].st = "sent" /\ topUp'[t].of = topUp[t].of
          /\ topUp'[t].charged = topUp[t].charged /\ topUp'[t].amount = topUp[t].amount
          /\ topUp'[t].by = Purse!Bearer /\ topUp[t].st = "delay"
      BY <2>3 DEF Purse!WalletTopUp, TopUpType
    <3>2. Purse!Bearer \in {token, Nobody}
      BY DEF Purse!Bearer
    <3> QED  BY <1>6, <2>0, <3>1, <3>2 DEF OnItsWay
  <2> QED  BY <1>7, <2>1, <2>2, <2>3
<1>8. ASSUME NEW t \in TopUps, Purse!ServeTopUp(t)
      PROVE  Kept
  <2>1. /\ topUp[t].st = "sent" /\ topUp[t].by \in Users
        /\ UNCHANGED <<token, walletAmountCont, past>>
        /\ balance' = [balance EXCEPT ![topUp[t].by] = @ \cup {t}]
    BY <1>8 DEF Purse!ServeTopUp, Purse!sessionVars, TopUpType, Ids
  <2>2. /\ topUp'[t].st = "credited" /\ topUp'[t].of = topUp[t].of
        /\ topUp'[t].charged = topUp[t].charged /\ topUp'[t].amount = topUp[t].amount
        /\ \A q \in TopUps : q # t => topUp'[q] = topUp[q]
    BY <1>8 DEF Purse!ServeTopUp, TopUpType
  <2>3. OnItsWay'
    BY <2>1, <2>2 DEF OnItsWay
  <2>4. CreditedIsFinal'
    BY <2>1, <2>2 DEF CreditedIsFinal
  <2>5. Purse!CreditIsCharge'
    <3>1. /\ topUp[t].amount = topUp[t].charged \/ t \in past.edited
          /\ topUp[t].by = topUp[t].of \/ t \in past.left
      BY <2>1, UsersAssumption DEF OnItsWay
    <3> SUFFICES ASSUME NEW a \in Users, NEW q \in balance'[a]
                 PROVE  /\ topUp'[q].amount = topUp'[q].charged \/ q \in past'.edited
                        /\ a = topUp'[q].of \/ q \in past'.left
      BY DEF Purse!CreditIsCharge
    <3>2. CASE q \in balance[a]
      BY <2>1, <2>2, <3>2 DEF Purse!CreditIsCharge
    <3>3. CASE q \notin balance[a]
      BY <2>1, <2>2, <3>1, <3>3
    <3> QED  BY <3>2, <3>3
  <2> QED  BY <2>3, <2>4, <2>5
<1>9. ASSUME SessionStep
      PROVE  Kept
  <2>1. WalletTypeOK
    OBVIOUS
  <2>2. /\ past'.edited = past.edited /\ UNCHANGED <<walletAmountCont, topUp, balance>>
        /\ past'.left \in {past.left, Purse!Leaving}
        /\ past'.left = Purse!Leaving \/ token' = token
    BY <1>9, <2>1, SessionEffect
  <2>3. /\ past.left \subseteq past'.left
        /\ token' # token =>
             \A t \in TopUps : topUp[t].st \in {"checkout", "delay"} => t \in past'.left
    BY <2>2 DEF Purse!Leaving, Purse!Waiting
  <2>4. OnItsWay'
    BY <2>2, <2>3 DEF OnItsWay
  <2>5. CreditedIsFinal'
    BY <2>2 DEF CreditedIsFinal
  <2>6. Purse!CreditIsCharge'
    BY <2>2, <2>3 DEF Purse!CreditIsCharge
  <2> QED  BY <2>4, <2>5, <2>6
<1>10. ASSUME NEW c \in Clears, NEW r \in BalanceReads, Purse!ClearBalance(c, r)
       PROVE  Kept
  <2>1. past'.edited = past.edited /\ past'.left = past.left
    BY <1>10, <1>a DEF Purse!ClearBalance
  <2>2. UNCHANGED <<token, walletAmountCont, topUp, balance>>
    BY <1>10 DEF Purse!ClearBalance
  <2> QED  BY <1>0, <2>1, <2>2, EndingKeepsCredit
<1>11. ASSUME Purse!Restart
       PROVE  Kept
  <2>1. past'.edited = past.edited /\ past'.left = past.left
    BY <1>11 DEF Purse!Restart, PastType
  <2>2. ASSUME NEW t \in TopUps
        PROVE  topUp'[t] = IF topUp[t].st = "none" THEN topUp[t]
                           ELSE [topUp[t] EXCEPT !.st = "over"]
    BY <1>11 DEF Purse!Restart
  <2>3. ASSUME NEW t \in TopUps
        PROVE  /\ topUp'[t].st \in {"none", "over"}
               /\ topUp'[t] # topUp[t] =>
                    /\ topUp'[t].st = "over"
                    /\ topUp'[t].amount = topUp[t].amount
                    /\ topUp'[t].charged = topUp[t].charged /\ topUp'[t].of = topUp[t].of
    <3>1. CASE topUp[t].st = "none"
      BY <2>2, <3>1
    <3>2. CASE topUp[t].st # "none"
      <4>1. topUp[t] \in TopUpType /\ topUp'[t] = [topUp[t] EXCEPT !.st = "over"]
        BY <2>2, <3>2
      <4> QED  BY ONLY <4>1 DEF TopUpType
    <3> QED  BY <3>1, <3>2
  <2> QED  BY <1>0, <1>11, <2>1, <2>3, EndingKeepsCredit DEF Purse!Restart
<1>12. CASE UNCHANGED Purse!vars
  BY <1>0, <1>12 DEF Purse!vars, Purse!sessionVars, OnItsWay, CreditedIsFinal,
                     Purse!CreditIsCharge
<1> QED
  BY <1>0, <1>1, <1>2, <1>3, <1>4, <1>5, <1>7, <1>8, <1>9, <1>10, <1>11, <1>12
  DEF Purse!Next, SessionStep

\* For any accounts, amounts and top-ups: what is credited is what was charged, to whom it
\* was charged, unless the field was edited during the checkout or the token changed.
THEOREM CreditsAreCharges == Purse!Spec => []CreditIsCharge
<1>1. CreditInv => CreditIsCharge
  BY DEF CreditInv, CreditIsCharge
<1> QED  BY <1>1, CreditInit, CreditStep, PTL DEF Purse!Spec

-----------------------------------------------------------------------------
(* The push topics.                                                         *)

LEMMA TailFacts ==
  ASSUME NEW S, NEW q \in Seq(S), q # <<>>
  PROVE  /\ Head(q) = q[1] /\ 1 \in 1..Len(q) /\ q[1] \in S
         /\ Tail(q) \in Seq(S) /\ Len(Tail(q)) = Len(q) - 1
         /\ \A i \in 1..(Len(q) - 1) : Tail(q)[i] = q[i + 1]
OBVIOUS

RunStates == {"idle", "saved", "permission", "subUser", "subTag", "unsubUser", "unsubTag", "done"}

TopicNames == {Push!USER_APP_TAG} \cup {Push!UserTopic(u) : u \in Push!Ids}

OpType == [run : Runs, kind : {"sub", "unsub"}, topic : TopicNames]

SeenType == [raced : SUBSET Push!Ids, replaced : SUBSET Push!Ids, late : BOOLEAN,
             switched : BOOLEAN, failed : BOOLEAN]

PushTypeOK ==
  /\ userId \in Push!Ids /\ clearing \in [Runs -> {"no", "flag", "id"}]
  /\ run \in [Runs -> RunStates]
  /\ queue \in Seq(OpType)

\* An operation in the queue is the one its call awaits.
QueueOfRuns ==
  /\ \A i \in 1..Len(queue) :
       \/ run[queue[i].run] = "subUser" /\ queue[i].kind = "sub"
       \/ run[queue[i].run] = "unsubUser" /\ queue[i].kind = "unsub"
       \/ run[queue[i].run] = "subTag" /\ queue[i].kind = "sub"
            /\ queue[i].topic = Push!USER_APP_TAG
       \/ run[queue[i].run] = "unsubTag" /\ queue[i].kind = "unsub"
            /\ queue[i].topic = Push!USER_APP_TAG
  /\ \A i, j \in 1..Len(queue) : queue[i].run = queue[j].run => i = j

Of(op, kind, u) == op.kind = kind /\ op.topic = Push!UserTopic(u)

\* The queue holds an operation of this kind on the user's topic, and no later one of the
\* other kind; it holds none.
Asked(kind, other, u) ==
  \E i \in 1..Len(queue) :
    Of(queue[i], kind, u) /\ \A j \in 1..Len(queue) : j > i => ~Of(queue[j], other, u)
NotAsked(kind, u) == \A i \in 1..Len(queue) : ~Of(queue[i], kind, u)

\* The device has left the user's topic, or will once the queue has been worked off.
GoneOrGoing(u) ==
  \/ Asked("unsub", "sub", u)
  \/ NotAsked("sub", u) /\ Push!UserTopic(u) \notin topics

\* The device has the user's topic, or will once the queue has been worked off.
ThereOrComing(u) ==
  \/ Asked("sub", "unsub", u)
  \/ NotAsked("unsub", u) /\ Push!UserTopic(u) \in topics

\* Every user who is not in the store, and during a sign-out every user.
LeaversGo ==
  \A u \in Users \ (seen.raced \cup seen.replaced) :
    u # userId \/ Push!Clearing # {} => GoneOrGoing(u)

\* A user is signed in and has not touched the switch.
Steady == signedIn /\ userId \in Users /\ Push!Clearing = {} /\ ~seen.switched

\* The topic of that user.
OwnTopicComes ==
  Steady => (\E s \in Runs : run[s] \in {"saved", "permission"}) \/ ThereOrComing(userId)

\* The topic of the application, when no unsubscription was running at the last save.
NoneUnsubscribes ==
  Steady /\ ~seen.late => \A s \in Runs : run[s] \notin {"unsubUser", "unsubTag"}
TagComes ==
  Steady /\ ~seen.late =>
    (\E s \in Runs : run[s] \in {"saved", "permission", "subUser", "subTag"})
      \/ Push!USER_APP_TAG \in topics

WhileNoneFails ==
  PushTypeOK /\ QueueOfRuns /\ LeaversGo /\ OwnTopicComes /\ NoneUnsubscribes /\ TagComes

PushInv == seen \in SeenType /\ userId \in Push!Ids /\ (~seen.failed => WhileNoneFails)

LEMMA TopicsDiffer ==
  /\ \A u : Push!UserTopic(u) # Push!USER_APP_TAG
  /\ \A u, v : Push!UserTopic(u) = Push!UserTopic(v) => u = v
<1>1. \A u : DOMAIN Push!UserTopic(u) = {"user"}
  BY DEF Push!UserTopic
<1>2. DOMAIN Push!USER_APP_TAG = {"tag"}
  BY DEF Push!USER_APP_TAG
<1>3. \A u : Push!UserTopic(u).user = u
  BY DEF Push!UserTopic
<1> QED  BY <1>1, <1>2, <1>3

LEMMA PushInit == Push!Init => PushInv
<1> SUFFICES ASSUME Push!Init PROVE PushInv
  OBVIOUS
<1>1. queue = <<>> /\ Len(queue) = 0 /\ queue \in Seq(OpType)
  BY DEF Push!Init
<1>2. PushTypeOK /\ seen \in SeenType
  BY <1>1 DEF Push!Init, PushTypeOK, Push!Ids, RunStates, SeenType
<1>3. \A i \in 1..Len(queue) : FALSE
  BY <1>1
<1>4. QueueOfRuns
  BY <1>3 DEF QueueOfRuns
<1>5. LeaversGo
  <2>1. topics = {}
    BY DEF Push!Init
  <2> QED  BY <1>3, <2>1 DEF LeaversGo, GoneOrGoing, NotAsked
<1>6. OwnTopicComes /\ NoneUnsubscribes /\ TagComes
  BY DEF Push!Init, Steady, OwnTopicComes, NoneUnsubscribes, TagComes
<1> QED
  BY <1>2, <1>4, <1>5, <1>6 DEF PushInv, WhileNoneFails, PushTypeOK

\* An operation is asked for.
LEMMA AskedLast ==
  ASSUME PushTypeOK, NEW op \in OpType, queue' = Append(queue, op), UNCHANGED topics, NEW u
  PROVE  /\ ~Of(op, "sub", u) /\ GoneOrGoing(u) => GoneOrGoing(u)'
         /\ ~Of(op, "unsub", u) /\ ThereOrComing(u) => ThereOrComing(u)'
         /\ Of(op, "unsub", u) => GoneOrGoing(u)'
         /\ Of(op, "sub", u) => ThereOrComing(u)'
<1> DEFINE n == Len(queue)
<1>1. /\ n \in Nat /\ queue' \in Seq(OpType) /\ Len(queue') = n + 1
      /\ \A i \in 1..n : queue'[i] = queue[i]
      /\ queue'[n + 1] = op
  BY AppendFacts DEF PushTypeOK
<1>2. /\ \A i \in 1..(n + 1) : i \in 1..n \/ i = n + 1
      /\ 1..n \subseteq 1..(n + 1) /\ n + 1 \in 1..(n + 1)
      /\ \A i \in 1..(n + 1) : ~(i > n + 1)
  BY <1>1
<1> HIDE DEF n
<1>3. ASSUME NEW kind, NEW other, ~Of(op, other, u), Asked(kind, other, u)
      PROVE  Asked(kind, other, u)'
  <2>1. PICK i \in 1..n : Of(queue[i], kind, u)
                          /\ \A j \in 1..n : j > i => ~Of(queue[j], other, u)
    BY <1>3 DEF Asked, n
  <2>2. Of(queue'[i], kind, u) /\ i \in 1..(n + 1)
    BY <1>1, <1>2, <2>1
  <2>3. \A j \in 1..(n + 1) : j > i => ~Of(queue'[j], other, u)
    BY <1>1, <1>2, <1>3, <2>1
  <2> QED  BY <1>1, <2>2, <2>3 DEF Asked, Of
<1>4. ASSUME NEW kind, ~Of(op, kind, u), NotAsked(kind, u)
      PROVE  NotAsked(kind, u)'
  BY <1>1, <1>2, <1>4 DEF NotAsked, Of, n
<1>5. ASSUME NEW kind, NEW other, Of(op, kind, u)
      PROVE  Asked(kind, other, u)'
  BY <1>1, <1>2, <1>5 DEF Asked, Of
<1> QED  BY <1>3, <1>4, <1>5 DEF GoneOrGoing, ThereOrComing

\* The first operation of the queue is performed; what comes to its end is no user's topic.
LEMMA Performed ==
  ASSUME PushTypeOK, queue # <<>>, NEW k \in {Len(queue) - 1, Len(queue)},
         queue' \in Seq(OpType), Len(queue') = k,
         \A i \in 1..(Len(queue) - 1) : queue'[i] = queue[i + 1],
         k = Len(queue) => queue'[k].topic = Push!USER_APP_TAG,
         topics' = IF queue[1].kind = "sub" THEN topics \cup {queue[1].topic}
                                            ELSE topics \ {queue[1].topic},
         NEW u
  PROVE  /\ GoneOrGoing(u) => GoneOrGoing(u)'
         /\ ThereOrComing(u) => ThereOrComing(u)'
<1> DEFINE n == Len(queue)
<1>1. /\ n \in Nat /\ n >= 1 /\ 1 \in 1..n /\ queue[1] \in OpType
  BY DEF PushTypeOK
<1>2. queue[1].kind \in {"sub", "unsub"}
  BY <1>1 DEF OpType
<1>3. \A i \in 1..k : /\ i \in 1..(n - 1) \/ (i = n /\ k = n)
                      /\ \A kind : Of(queue'[i], kind, u) => i \in 1..(n - 1)
  <2>1. \A i \in 1..k : i \in 1..(n - 1) \/ (i = n /\ k = n)
    BY <1>1
  <2>2. k = n => \A kind : ~Of(queue'[n], kind, u)
    BY TopicsDiffer DEF Of
  <2> QED  BY <2>1, <2>2
<1>4. \A i \in 1..n : i # 1 => i - 1 \in 1..(n - 1) /\ i - 1 \in 1..k /\ queue'[i - 1] = queue[i]
  BY <1>1
<1>5. \A i \in 1..(n - 1) : i + 1 \in 1..n /\ queue'[i] = queue[i + 1] /\ i + 1 # 1
  BY <1>1
<1> HIDE DEF n
<1>6. ASSUME NEW kind, NEW other, Asked(kind, other, u)
      PROVE  Asked(kind, other, u)' \/ (Of(queue[1], kind, u) /\ NotAsked(other, u)')
  <2>1. PICK i \in 1..n : Of(queue[i], kind, u)
                          /\ \A j \in 1..n : j > i => ~Of(queue[j], other, u)
    BY <1>6 DEF Asked, n
  <2>2. \A j \in 1..k : j > i - 1 => ~Of(queue'[j], other, u)
    <3> SUFFICES ASSUME NEW j \in 1..k, j > i - 1, Of(queue'[j], other, u)
                 PROVE  FALSE
      OBVIOUS
    <3>1. j \in 1..(n - 1)
      BY <1>3
    <3>2. j + 1 \in 1..n /\ queue'[j] = queue[j + 1] /\ j + 1 > i
      BY <1>1, <1>5, <3>1
    <3> QED  BY <2>1, <3>2
  <2>3. CASE i = 1
    <3>1. \A j \in 1..k : j > i - 1
      BY <2>3
    <3>2. NotAsked(other, u)'
      BY <2>2, <3>1 DEF NotAsked, Of
    <3> QED  BY <2>1, <2>3, <3>2
  <2>4. CASE i # 1
    <3>1. i - 1 \in 1..k /\ Of(queue'[i - 1], kind, u)
      BY <1>4, <2>1, <2>4
    <3> QED  BY <2>2, <3>1 DEF Asked, Of
  <2> QED  BY <2>3, <2>4
<1>7. ASSUME NEW kind, NotAsked(kind, u)
      PROVE  NotAsked(kind, u)' /\ ~Of(queue[1], kind, u)
  <2>1. ~Of(queue[1], kind, u)
    BY <1>1, <1>7 DEF NotAsked, n
  <2>2. ASSUME NEW i \in 1..k, Of(queue'[i], kind, u)
        PROVE  FALSE
    BY <1>3, <1>5, <1>7, <2>2 DEF NotAsked, n
  <2> QED  BY <2>1, <2>2 DEF NotAsked, Of
<1>8. GoneOrGoing(u) => GoneOrGoing(u)'
  <2>1. CASE Asked("unsub", "sub", u)
    BY <1>6, <2>1 DEF GoneOrGoing, Of
  <2>2. CASE NotAsked("sub", u) /\ Push!UserTopic(u) \notin topics
    BY <1>2, <1>7, <2>2 DEF GoneOrGoing, Of
  <2> QED  BY <2>1, <2>2 DEF GoneOrGoing
<1>9. ThereOrComing(u) => ThereOrComing(u)'
  <2>1. CASE Asked("sub", "unsub", u)
    BY <1>6, <2>1 DEF ThereOrComing, Of
  <2>2. CASE NotAsked("unsub", u) /\ Push!UserTopic(u) \in topics
    BY <1>2, <1>7, <2>2 DEF ThereOrComing, Of
  <2> QED  BY <2>1, <2>2 DEF ThereOrComing
<1> QED  BY <1>8, <1>9

\* A call starts, or goes on to wait for the permission, or ends before it has asked.
LEMMA CallKeeps ==
  ASSUME WhileNoneFails, NEW s \in Runs, run[s] \in {"idle", "saved"},
         NEW st \in {"saved", "permission", "done"}, run' = [run EXCEPT ![s] = st],
         UNCHANGED <<queue, topics>>
  PROVE  /\ run' \in [Runs -> RunStates] /\ QueueOfRuns' /\ run'[s] = st
         /\ \A u : GoneOrGoing(u) => GoneOrGoing(u)'
         /\ \A w \in Runs : w # s => run'[w] = run[w]
<1>1. run \in [Runs -> RunStates]
  BY DEF WhileNoneFails, PushTypeOK
<1>2. \A i \in 1..Len(queue) : queue[i].run \in Runs
  <2>1. \A i \in 1..Len(queue) : queue[i] \in OpType
    BY DEF WhileNoneFails, PushTypeOK
  <2> QED  BY <2>1 DEF OpType
<1>3. QueueOfRuns'
  BY <1>1, <1>2 DEF WhileNoneFails, QueueOfRuns
<1> QED
  BY <1>1, <1>3 DEF RunStates, GoneOrGoing, Asked, NotAsked, Of

\* A call asks for the operation on the user's topic.
LEMMA AskKeepsQueue ==
  ASSUME WhileNoneFails, NEW s \in Runs, NEW u \in Push!Ids,
         NEW kind \in {"sub", "unsub"}, NEW st \in {"subUser", "unsubUser"},
         kind = "sub" <=> st = "subUser",
         run[s] \in {"idle", "permission"}, run' = [run EXCEPT ![s] = st],
         queue' = Push!Ask(s, kind, Push!UserTopic(u))
  PROVE  /\ run' \in [Runs -> RunStates] /\ queue' \in Seq(OpType) /\ QueueOfRuns'
         /\ \E op \in OpType : /\ queue' = Append(queue, op) /\ Of(op, kind, u)
                               /\ \A k : k # kind => \A v : ~Of(op, k, v)
                               /\ \A v : v # u => ~Of(op, kind, v)
<1> DEFINE op == [run |-> s, kind |-> kind, topic |-> Push!UserTopic(u)]
           n == Len(queue)
<1>1. /\ op \in OpType /\ op.run = s /\ op.kind = kind /\ op.topic = Push!UserTopic(u)
      /\ queue' = Append(queue, op)
  BY DEF OpType, TopicNames, Push!Ask
<1> HIDE DEF op
<1>2. run \in [Runs -> RunStates] /\ queue \in Seq(OpType) /\ n \in Nat
  BY DEF WhileNoneFails, PushTypeOK
<1>3. /\ queue' \in Seq(OpType) /\ Len(queue') = n + 1
      /\ \A i \in 1..n : queue'[i] = queue[i]
      /\ queue'[n + 1] = op
  BY <1>1, <1>2, AppendFacts
<1>4. \A i \in 1..n : queue[i].run \in Runs
  <2>1. \A i \in 1..n : queue[i] \in OpType
    BY <1>2
  <2> QED  BY <2>1 DEF OpType
<1>5. \A i \in 1..(n + 1) : i \in 1..n \/ i = n + 1
  BY <1>2
<1>6. \A i \in 1..n : queue[i].run # s
  BY DEF WhileNoneFails, QueueOfRuns
<1>7. run' \in [Runs -> RunStates] /\ run'[s] = st /\ \A w \in Runs : w # s => run'[w] = run[w]
  BY <1>2 DEF RunStates
<1>8. QueueOfRuns'
  <2>1. \A i, j \in 1..Len(queue') : queue'[i].run = queue'[j].run => i = j
    <3> HIDE DEF n
    <3> QED  BY <1>1, <1>3, <1>5, <1>6 DEF n, WhileNoneFails, QueueOfRuns
  <2>2. ASSUME NEW i \in 1..Len(queue')
        PROVE  \/ run'[queue'[i].run] = "subUser" /\ queue'[i].kind = "sub"
               \/ run'[queue'[i].run] = "unsubUser" /\ queue'[i].kind = "unsub"
               \/ run'[queue'[i].run] = "subTag" /\ queue'[i].kind = "sub"
                    /\ queue'[i].topic = Push!USER_APP_TAG
               \/ run'[queue'[i].run] = "unsubTag" /\ queue'[i].kind = "unsub"
                    /\ queue'[i].topic = Push!USER_APP_TAG
    <3>1. CASE i \in 1..n
      <4>1. queue'[i] = queue[i] /\ run'[queue[i].run] = run[queue[i].run]
        BY <1>3, <1>4, <1>6, <1>7, <3>1
      <4> QED  BY <3>1, <4>1 DEF WhileNoneFails, QueueOfRuns
    <3>2. CASE i = n + 1
      BY <1>1, <1>3, <1>7, <3>2
    <3> QED  BY <1>3, <1>5, <3>1, <3>2
  <2> QED  BY <2>1, <2>2 DEF QueueOfRuns
<1>9. /\ Of(op, kind, u) /\ \A k : k # kind => \A v : ~Of(op, k, v)
      /\ \A v : v # u => ~Of(op, kind, v)
  BY <1>1, TopicsDiffer DEF Of
<1> QED  BY <1>1, <1>3, <1>7, <1>8, <1>9

\* The head of the queue and its call.
LEMMA HeadFacts ==
  ASSUME WhileNoneFails, queue # <<>>
  PROVE  /\ Head(queue) = queue[1] /\ queue[1] \in OpType /\ 1 \in 1..Len(queue)
         /\ queue[1].run \in Runs
         /\ \A i \in 1..(Len(queue) - 1) :
              /\ i + 1 \in 1..Len(queue)
              /\ queue[i + 1].run \in Runs /\ queue[i + 1].run # queue[1].run
<1>1. /\ Head(queue) = queue[1] /\ queue[1] \in OpType /\ 1 \in 1..Len(queue)
      /\ Len(queue) \in Nat /\ \A i \in 1..Len(queue) : queue[i] \in OpType
  BY TailFacts DEF WhileNoneFails, PushTypeOK
<1>2. \A i \in 1..Len(queue) : queue[i].run \in Runs
  BY <1>1 DEF OpType
<1>3. ASSUME NEW i \in 1..(Len(queue) - 1)
      PROVE  i + 1 \in 1..Len(queue) /\ i + 1 # 1
  BY <1>1
<1>4. ASSUME NEW i \in 1..(Len(queue) - 1)
      PROVE  queue[i + 1].run # queue[1].run
  BY <1>1, <1>3 DEF WhileNoneFails, QueueOfRuns
<1> QED  BY <1>1, <1>2, <1>3, <1>4

LEMMA FirstDoneKeeps ==
  ASSUME WhileNoneFails, Push!FirstDone
  PROVE  WhileNoneFails'
<1> DEFINE n == Len(queue)
           op == queue[1]
           x == [run |-> op.run, kind |-> Push!KindOf[run[op.run]], topic |-> Push!USER_APP_TAG]
<1>0. /\ run \in [Runs -> RunStates] /\ queue \in Seq(OpType) /\ n \in Nat
  BY DEF WhileNoneFails, PushTypeOK
<1>1. /\ queue # <<>> /\ Head(queue) = op /\ op \in OpType /\ op.run \in Runs /\ 1 \in 1..n
      /\ \A i \in 1..(n - 1) : /\ i + 1 \in 1..n
                               /\ queue[i + 1].run \in Runs /\ queue[i + 1].run # op.run
  BY HeadFacts DEF Push!FirstDone
<1>2. /\ run[op.run] \in {"subUser", "unsubUser"}
      /\ topics' = IF op.kind = "sub" THEN topics \cup {op.topic} ELSE topics \ {op.topic}
      /\ run' = [run EXCEPT ![op.run] = Push!Second[run[op.run]]]
      /\ queue' = Append(Tail(queue), x)
      /\ UNCHANGED <<userId, signedIn, clearing, seen>>
  BY <1>1 DEF Push!FirstDone
<1>3. /\ op.kind = "sub" <=> run[op.run] = "subUser"
      /\ run'[op.run] = IF op.kind = "sub" THEN "subTag" ELSE "unsubTag"
      /\ run' \in [Runs -> RunStates]
      /\ \A w \in Runs : w # op.run => run'[w] = run[w]
  <2>1. op.kind = "sub" <=> run[op.run] = "subUser"
    BY <1>1, <1>2 DEF WhileNoneFails, QueueOfRuns
  <2>2. Push!Second[run[op.run]] = IF op.kind = "sub" THEN "subTag" ELSE "unsubTag"
    BY <1>2, <2>1 DEF Push!Second
  <2> QED  BY <1>0, <1>1, <1>2, <2>1, <2>2 DEF RunStates
<1>4. x \in OpType /\ x.run = op.run /\ x.topic = Push!USER_APP_TAG
      /\ x.kind = IF op.kind = "sub" THEN "sub" ELSE "unsub"
  <2>1. Push!KindOf[run[op.run]] = IF op.kind = "sub" THEN "sub" ELSE "unsub"
    BY <1>2, <1>3 DEF Push!KindOf
  <2> QED  BY <1>1, <2>1 DEF OpType, TopicNames
<1> HIDE DEF x
<1>5. /\ queue' \in Seq(OpType) /\ Len(queue') = n
      /\ \A i \in 1..(n - 1) : queue'[i] = queue[i + 1]
      /\ queue'[n] = x
  <2>1. /\ Tail(queue) \in Seq(OpType) /\ Len(Tail(queue)) = n - 1
        /\ \A i \in 1..(n - 1) : Tail(queue)[i] = queue[i + 1]
    BY <1>0, <1>1, TailFacts
  <2>2. n - 1 + 1 = n
    BY <1>0
  <2> QED  BY <1>2, <1>4, <2>1, <2>2, AppendFacts
<1>6. \A u : /\ GoneOrGoing(u) => GoneOrGoing(u)'
             /\ ThereOrComing(u) => ThereOrComing(u)'
  BY <1>1, <1>2, <1>4, <1>5, Performed DEF WhileNoneFails
<1>7. PushTypeOK'
  BY <1>2, <1>3, <1>5 DEF WhileNoneFails, PushTypeOK
<1>8. QueueOfRuns'
  <2>0. \A i \in 1..n : i \in 1..(n - 1) \/ i = n
    BY <1>0
  <2>1. ASSUME NEW i \in 1..n, NEW j \in 1..n, queue'[i].run = queue'[j].run
        PROVE  i = j
    <3>1. CASE i \in 1..(n - 1) /\ j \in 1..(n - 1)
      <4>1. queue[i + 1].run = queue[j + 1].run /\ i + 1 \in 1..n /\ j + 1 \in 1..n
        BY <1>1, <1>5, <2>1, <3>1
      <4>2. i + 1 = j + 1
        BY <4>1 DEF WhileNoneFails, QueueOfRuns
      <4> QED  BY <4>2
    <3>2. CASE i = n /\ j \in 1..(n - 1)
      BY <1>1, <1>4, <1>5, <2>1, <3>2
    <3>3. CASE j = n /\ i \in 1..(n - 1)
      BY <1>1, <1>4, <1>5, <2>1, <3>3
    <3> QED  BY <2>0, <3>1, <3>2, <3>3
  <2>2. ASSUME NEW i \in 1..n
        PROVE  \/ run'[queue'[i].run] = "subUser" /\ queue'[i].kind = "sub"
               \/ run'[queue'[i].run] = "unsubUser" /\ queue'[i].kind = "unsub"
               \/ run'[queue'[i].run] = "subTag" /\ queue'[i].kind = "sub"
                    /\ queue'[i].topic = Push!USER_APP_TAG
               \/ run'[queue'[i].run] = "unsubTag" /\ queue'[i].kind = "unsub"
                    /\ queue'[i].topic = Push!USER_APP_TAG
    <3>1. CASE i \in 1..(n - 1)
      <4>1. /\ queue'[i] = queue[i + 1] /\ i + 1 \in 1..n
            /\ run'[queue[i + 1].run] = run[queue[i + 1].run]
        BY <1>1, <1>3, <1>5, <3>1
      <4> QED  BY <4>1 DEF WhileNoneFails, QueueOfRuns
    <3>2. CASE i = n
      BY <1>3, <1>4, <1>5, <3>2
    <3> QED  BY <2>0, <3>1, <3>2
  <2> QED  BY <1>5, <2>1, <2>2 DEF QueueOfRuns
<1>9. LeaversGo'
  BY <1>2, <1>6 DEF WhileNoneFails, LeaversGo, Push!Clearing
<1>10. OwnTopicComes'
  <2>1. \A s \in Runs : run[s] \in {"saved", "permission"} => run'[s] = run[s]
    BY <1>2, <1>3
  <2> QED  BY <1>2, <1>6, <2>1 DEF WhileNoneFails, OwnTopicComes, Steady, Push!Clearing
<1>11. NoneUnsubscribes'
  BY <1>1, <1>2, <1>3 DEF WhileNoneFails, NoneUnsubscribes, Steady, Push!Clearing
<1>12. TagComes'
  <2> SUFFICES ASSUME Steady, ~seen.late
               PROVE  \E s \in Runs : run'[s] \in {"saved", "permission", "subUser", "subTag"}
    BY <1>2 DEF TagComes, Steady, Push!Clearing
  <2>1. run[op.run] # "unsubUser"
    BY <1>1 DEF WhileNoneFails, NoneUnsubscribes
  <2> QED  BY <1>1, <1>2, <1>3, <2>1
<1> QED
  BY <1>7, <1>8, <1>9, <1>10, <1>11, <1>12 DEF WhileNoneFails

LEMMA SecondDoneKeeps ==
  ASSUME WhileNoneFails, Push!SecondDone
  PROVE  WhileNoneFails'
<1> DEFINE n == Len(queue)
           op == queue[1]
<1>0. /\ run \in [Runs -> RunStates] /\ queue \in Seq(OpType) /\ n \in Nat
  BY DEF WhileNoneFails, PushTypeOK
<1>1. /\ queue # <<>> /\ Head(queue) = op /\ op \in OpType /\ op.run \in Runs /\ 1 \in 1..n
      /\ \A i \in 1..(n - 1) : /\ i + 1 \in 1..n
                               /\ queue[i + 1].run \in Runs /\ queue[i + 1].run # op.run
  BY HeadFacts DEF Push!SecondDone
<1>2. /\ run[op.run] \in {"subTag", "unsubTag"}
      /\ topics' = IF op.kind = "sub" THEN topics \cup {op.topic} ELSE topics \ {op.topic}
      /\ run' = [run EXCEPT ![op.run] = "done"]
      /\ queue' = Tail(queue)
      /\ UNCHANGED <<userId, signedIn, clearing, seen>>
  BY <1>1 DEF Push!SecondDone
<1>3. /\ op.kind = "sub" <=> run[op.run] = "subTag"
      /\ op.topic = Push!USER_APP_TAG
  BY <1>1, <1>2 DEF WhileNoneFails, QueueOfRuns
<1>4. /\ run' \in [Runs -> RunStates] /\ run'[op.run] = "done"
      /\ \A w \in Runs : w # op.run => run'[w] = run[w]
  BY <1>0, <1>1, <1>2 DEF RunStates
<1>5. /\ queue' \in Seq(OpType) /\ Len(queue') = n - 1
      /\ \A i \in 1..(n - 1) : queue'[i] = queue[i + 1]
  BY <1>0, <1>1, <1>2, TailFacts
<1>6. \A u : /\ GoneOrGoing(u) => GoneOrGoing(u)'
             /\ ThereOrComing(u) => ThereOrComing(u)'
  <2>1. n - 1 # n
    BY <1>0
  <2> QED  BY <1>1, <1>2, <1>5, <2>1, Performed DEF WhileNoneFails
<1>7. PushTypeOK'
  BY <1>2, <1>4, <1>5 DEF WhileNoneFails, PushTypeOK
<1>8. QueueOfRuns'
  <2>1. ASSUME NEW i \in 1..(n - 1), NEW j \in 1..(n - 1), queue'[i].run = queue'[j].run
        PROVE  i = j
    <3>1. queue[i + 1].run = queue[j + 1].run /\ i + 1 \in 1..n /\ j + 1 \in 1..n
      BY <1>1, <1>5, <2>1
    <3>2. i + 1 = j + 1
      BY <3>1 DEF WhileNoneFails, QueueOfRuns
    <3> QED  BY <3>2
  <2>2. ASSUME NEW i \in 1..(n - 1)
        PROVE  /\ queue'[i] = queue[i + 1] /\ i + 1 \in 1..n
               /\ run'[queue[i + 1].run] = run[queue[i + 1].run]
    BY <1>1, <1>4, <1>5
  <2>3. ASSUME NEW i \in 1..(n - 1)
        PROVE  \/ run'[queue'[i].run] = "subUser" /\ queue'[i].kind = "sub"
               \/ run'[queue'[i].run] = "unsubUser" /\ queue'[i].kind = "unsub"
               \/ run'[queue'[i].run] = "subTag" /\ queue'[i].kind = "sub"
                    /\ queue'[i].topic = Push!USER_APP_TAG
               \/ run'[queue'[i].run] = "unsubTag" /\ queue'[i].kind = "unsub"
                    /\ queue'[i].topic = Push!USER_APP_TAG
    BY <2>2 DEF WhileNoneFails, QueueOfRuns
  <2> QED  BY <1>5, <2>1, <2>3 DEF QueueOfRuns
<1>9. LeaversGo'
  BY <1>2, <1>6 DEF WhileNoneFails, LeaversGo, Push!Clearing
<1>10. OwnTopicComes'
  <2>1. \A s \in Runs : run[s] \in {"saved", "permission"} => run'[s] = run[s]
    BY <1>2, <1>4
  <2> QED  BY <1>2, <1>6, <2>1 DEF WhileNoneFails, OwnTopicComes, Steady, Push!Clearing
<1>11. NoneUnsubscribes'
  BY <1>1, <1>2, <1>4 DEF WhileNoneFails, NoneUnsubscribes, Steady, Push!Clearing
<1>12. TagComes'
  <2> SUFFICES ASSUME Steady, ~seen.late
               PROVE  Push!USER_APP_TAG \in topics'
    BY <1>2 DEF TagComes, Steady, Push!Clearing
  <2>1. run[op.run] # "unsubTag"
    BY <1>1 DEF WhileNoneFails, NoneUnsubscribes
  <2> QED  BY <1>2, <1>3, <2>1
<1> QED
  BY <1>7, <1>8, <1>9, <1>10, <1>11, <1>12 DEF WhileNoneFails

LEMMA PermittedKeeps ==
  ASSUME PushInv, ~seen.failed, NEW s \in Runs, Push!Permitted(s)
  PROVE  PushInv'
<1> USE DEF PushInv
<1>1. /\ run[s] = "permission" /\ run' = [run EXCEPT ![s] = "subUser"]
      /\ queue' = Push!Ask(s, "sub", Push!UserTopic(userId))
      /\ UNCHANGED <<userId, signedIn, clearing, topics>>
  BY DEF Push!Permitted
<1>2. userId \in Push!Ids /\ run \in [Runs -> RunStates]
  BY DEF WhileNoneFails, PushTypeOK
<1>3. /\ seen' \in SeenType
      /\ UNCHANGED <<seen.failed, seen.late, seen.switched, seen.replaced>>
      /\ seen'.raced = IF Push!Clearing # {} THEN seen.raced \cup {userId} ELSE seen.raced
  BY <1>2 DEF Push!Permitted, SeenType
<1>4. /\ run' \in [Runs -> RunStates] /\ queue' \in Seq(OpType) /\ QueueOfRuns'
      /\ \E op \in OpType : /\ queue' = Append(queue, op) /\ Of(op, "sub", userId)
                            /\ \A k : k # "sub" => \A v : ~Of(op, k, v)
                            /\ \A v : v # userId => ~Of(op, "sub", v)
  BY <1>1, <1>2, AskKeepsQueue
<1>5. PICK op \in OpType : /\ queue' = Append(queue, op) /\ Of(op, "sub", userId)
                           /\ \A k : k # "sub" => \A v : ~Of(op, k, v)
                           /\ \A v : v # userId => ~Of(op, "sub", v)
  BY ONLY <1>4, Zenon
<1>6. LeaversGo'
  <2> SUFFICES ASSUME NEW u \in Users, u \notin seen'.raced, u \notin seen'.replaced,
                      u # userId \/ Push!Clearing # {}
               PROVE  GoneOrGoing(u)'
    BY <1>1 DEF LeaversGo, Push!Clearing
  <2>1. u \notin seen.raced /\ u \notin seen.replaced /\ u # userId
    BY <1>3
  <2>2. GoneOrGoing(u)
    BY <2>1 DEF WhileNoneFails, LeaversGo
  <2>3. ~Of(op, "sub", u)
    BY <1>5, <2>1
  <2> QED  BY <1>1, <1>5, <2>1, <2>2, <2>3, AskedLast DEF WhileNoneFails
<1>7. OwnTopicComes'
  <2>1. ThereOrComing(userId)'
    <3> DEFINE u == userId
    <3>1. ThereOrComing(u)'
      BY <1>1, <1>5, AskedLast DEF WhileNoneFails
    <3>2. userId' = userId
      BY <1>1
    <3> QED  BY <3>1, <3>2
  <2> QED  BY <2>1 DEF OwnTopicComes
<1>8. run'[s] = "subUser" /\ \A w \in Runs : w # s => run'[w] = run[w]
  BY <1>1, <1>2
<1>9. NoneUnsubscribes' /\ TagComes'
  BY <1>1, <1>3, <1>8 DEF WhileNoneFails, NoneUnsubscribes, TagComes, Steady, Push!Clearing
<1>10. PushTypeOK'
  BY <1>1, <1>4 DEF WhileNoneFails, PushTypeOK
<1>11. userId' \in Push!Ids
  BY <1>10 DEF PushTypeOK
<1> QED  BY <1>3, <1>4, <1>6, <1>7, <1>9, <1>10, <1>11 DEF WhileNoneFails

\* saveUserData, whoever it saves.
LEMMA SaveKeeps ==
  ASSUME PushInv, ~seen.failed, NEW s \in Runs, NEW u \in Users, Push!SaveUserData(u, s)
  PROVE  PushInv'
<1> USE DEF PushInv
<1> DEFINE l == \E w \in Runs : run[w] \in {"unsubUser", "unsubTag"}
           p == IF userId # u /\ Push!Clearing = {} THEN seen.replaced \cup {userId}
                ELSE seen.replaced
<1>1. /\ run[s] = "idle" /\ run' = [run EXCEPT ![s] = "saved"]
      /\ userId' = u /\ UNCHANGED <<clearing, queue, topics>>
      /\ seen' = [seen EXCEPT !.replaced = p, !.late = l, !.switched = FALSE]
  BY DEF Push!SaveUserData, SeenType
<1>2. l \in BOOLEAN /\ p \in SUBSET Push!Ids
  BY DEF SeenType
<1> HIDE DEF l, p
<1>3. /\ seen' \in SeenType /\ seen'.raced = seen.raced /\ seen'.replaced = p /\ seen'.late = l
  BY <1>1, <1>2 DEF SeenType
<1>4. /\ run' \in [Runs -> RunStates] /\ QueueOfRuns' /\ run'[s] = "saved"
      /\ \A v : GoneOrGoing(v) => GoneOrGoing(v)'
      /\ \A w \in Runs : w # s => run'[w] = run[w]
  BY <1>1, CallKeeps
<1>5. PushTypeOK' /\ userId' \in Push!Ids
  BY <1>1, <1>4 DEF WhileNoneFails, PushTypeOK, Push!Ids
<1>6. LeaversGo'
  <2> SUFFICES ASSUME NEW v \in Users, v \notin seen.raced, v \notin p,
                      v # u \/ Push!Clearing # {}
               PROVE  GoneOrGoing(v)'
    BY <1>1, <1>3 DEF LeaversGo, Push!Clearing
  <2>1. v \notin seen.replaced /\ (v # userId \/ Push!Clearing # {})
    BY DEF p
  <2> QED  BY <1>4, <2>1 DEF WhileNoneFails, LeaversGo
<1>7. OwnTopicComes' /\ TagComes'
  BY <1>4 DEF OwnTopicComes, TagComes
<1>8. NoneUnsubscribes'
  BY <1>3, <1>4 DEF NoneUnsubscribes, l
<1> QED  BY <1>3, <1>4, <1>5, <1>6, <1>7, <1>8 DEF WhileNoneFails

\* Then its subscription, and the switch turned on.
LEMMA StartKeeps ==
  ASSUME PushInv, ~seen.failed, NEW s \in Runs, run[s] \in {"idle", "saved"},
         Push!Subscribe(s), UNCHANGED <<userId, signedIn, clearing, queue, topics, seen>>
  PROVE  PushInv'
<1> USE DEF PushInv
<1> DEFINE st == IF signedIn THEN "permission" ELSE "done"
<1>1. run' = [run EXCEPT ![s] = st] /\ st \in {"saved", "permission", "done"}
  BY DEF Push!Subscribe
<1>2. signedIn => st = "permission"
  OBVIOUS
<1> HIDE DEF st
<1>3. /\ run' \in [Runs -> RunStates] /\ QueueOfRuns' /\ run'[s] = st
      /\ \A u : GoneOrGoing(u) => GoneOrGoing(u)'
      /\ \A w \in Runs : w # s => run'[w] = run[w]
  BY <1>1, CallKeeps
<1>4. PushTypeOK' /\ userId' \in Push!Ids /\ seen' \in SeenType
  BY <1>3 DEF WhileNoneFails, PushTypeOK
<1>5. LeaversGo'
  BY <1>3 DEF WhileNoneFails, LeaversGo, Push!Clearing
<1>6. OwnTopicComes' /\ TagComes'
  BY <1>2, <1>3 DEF OwnTopicComes, TagComes, Steady
<1>7. NoneUnsubscribes'
  BY <1>1, <1>3 DEF WhileNoneFails, NoneUnsubscribes, Steady, Push!Clearing
<1> QED  BY <1>3, <1>4, <1>5, <1>6, <1>7 DEF WhileNoneFails

\* The switch turned off, and clearPreferences.
LEMMA StopKeeps ==
  ASSUME PushInv, ~seen.failed, NEW s \in Runs, Push!Unsubscribe(s, userId),
         UNCHANGED <<userId, topics>>, seen' \in SeenType,
         clearing' \in [Runs -> {"no", "flag", "id"}],
         \/ UNCHANGED clearing /\ seen'.raced = seen.raced /\ seen'.replaced = seen.replaced
              /\ seen'.switched
         \/ clearing'[s] # "no" /\ seen'.raced = seen.raced \ {userId}
              /\ seen'.replaced = seen.replaced \ {userId}
  PROVE  PushInv'
<1> USE DEF PushInv
<1>1. userId \in Push!Ids /\ run[s] = "idle"
      /\ run' = [run EXCEPT ![s] = "unsubUser"]
      /\ queue' = Push!Ask(s, "unsub", Push!UserTopic(userId))
  BY DEF WhileNoneFails, PushTypeOK, Push!Unsubscribe
<1>2. /\ run' \in [Runs -> RunStates] /\ queue' \in Seq(OpType) /\ QueueOfRuns'
      /\ \E op \in OpType : /\ queue' = Append(queue, op) /\ Of(op, "unsub", userId)
                            /\ \A k : k # "unsub" => \A v : ~Of(op, k, v)
  BY <1>1, AskKeepsQueue
<1>3. PICK op \in OpType : /\ queue' = Append(queue, op) /\ Of(op, "unsub", userId)
                           /\ \A v : ~Of(op, "sub", v)
  BY <1>2
<1>4. LeaversGo'
  <2> SUFFICES ASSUME NEW u \in Users, u \notin seen'.raced, u \notin seen'.replaced,
                      u # userId \/ Push!Clearing' # {}
               PROVE  GoneOrGoing(u)'
    BY DEF LeaversGo
  <2>1. CASE u = userId
    BY <1>3, <2>1, AskedLast DEF WhileNoneFails
  <2>2. CASE u # userId
    <3>1. u \notin seen.raced /\ u \notin seen.replaced
      BY <2>2
    <3>2. GoneOrGoing(u)
      BY <2>2, <3>1 DEF WhileNoneFails, LeaversGo
    <3> QED  BY <1>3, <3>2, AskedLast DEF WhileNoneFails
  <2> QED  BY <2>1, <2>2
<1>5. ~Steady'
  BY DEF Steady, Push!Clearing
<1>6. OwnTopicComes' /\ TagComes' /\ NoneUnsubscribes'
  BY <1>5 DEF OwnTopicComes, TagComes, NoneUnsubscribes
<1>7. PushTypeOK'
  BY <1>2 DEF WhileNoneFails, PushTypeOK
<1> QED  BY <1>2, <1>4, <1>6, <1>7 DEF WhileNoneFails

LEMMA ClearingKeeps ==
  ASSUME PushInv, ~seen.failed, NEW s \in Runs, Push!LoggedOut(s) \/ Push!Cleared(s)
  PROVE  PushInv'
<1> USE DEF PushInv
<1>1. /\ UNCHANGED <<run, queue, topics, seen>> /\ clearing[s] # "no"
      /\ \/ UNCHANGED userId /\ clearing' = [clearing EXCEPT ![s] = "id"]
         \/ userId' = Nobody /\ clearing' = [clearing EXCEPT ![s] = "no"]
  BY DEF Push!LoggedOut, Push!Cleared
<1>2. \A u : GoneOrGoing(u) => GoneOrGoing(u)'
  BY <1>1 DEF GoneOrGoing, Asked, NotAsked, Of
<1>3. PushTypeOK' /\ QueueOfRuns'
  BY <1>1 DEF WhileNoneFails, PushTypeOK, QueueOfRuns, Push!Ids
<1>4. LeaversGo'
  <2>1. Push!Clearing # {}
    BY <1>1 DEF Push!Clearing
  <2> QED  BY <1>1, <1>2, <2>1 DEF WhileNoneFails, LeaversGo
<1>5. ~Steady'
  <2>1. CASE UNCHANGED userId /\ clearing' = [clearing EXCEPT ![s] = "id"]
    <3>1. clearing'[s] = "id"
      BY <2>1 DEF WhileNoneFails, PushTypeOK
    <3> QED  BY <3>1 DEF Steady, Push!Clearing
  <2>2. CASE userId' = Nobody
    BY <2>2, UsersAssumption DEF Steady
  <2> QED  BY <1>1, <2>1, <2>2
<1>6. OwnTopicComes' /\ TagComes' /\ NoneUnsubscribes'
  BY <1>5 DEF OwnTopicComes, TagComes, NoneUnsubscribes
<1>7. userId' \in Push!Ids /\ seen' \in SeenType
  BY <1>1, <1>3 DEF PushTypeOK
<1> QED  BY <1>3, <1>4, <1>6, <1>7 DEF WhileNoneFails

\* What the history records keeps its type, and a failure stays one.
LEMMA SeenStep ==
  ASSUME PushInv, Push!Next
  PROVE  seen' \in SeenType /\ userId' \in Push!Ids /\ (seen.failed => seen'.failed)
<1> USE DEF PushInv
<1>1. ASSUME NEW s \in Runs, NEW u \in Users, Push!SaveUserData(u, s)
      PROVE  seen' \in SeenType /\ userId' \in Push!Ids /\ (seen.failed => seen'.failed)
  <2> DEFINE l == \E w \in Runs : run[w] \in {"unsubUser", "unsubTag"}
             p == IF userId # u /\ Push!Clearing = {} THEN seen.replaced \cup {userId}
                  ELSE seen.replaced
  <2>1. /\ l \in BOOLEAN /\ p \in SUBSET Push!Ids /\ userId' = u
        /\ seen' = [seen EXCEPT !.replaced = p, !.late = l, !.switched = FALSE]
    BY <1>1 DEF Push!SaveUserData, SeenType
  <2> HIDE DEF l, p
  <2> QED  BY <2>1 DEF SeenType, Push!Ids
<1>2. ASSUME NEW s \in Runs, Push!Switch(s)
      PROVE  seen' \in SeenType /\ userId' \in Push!Ids /\ (seen.failed => seen'.failed)
  BY <1>2 DEF Push!Switch, SeenType
<1>3. ASSUME NEW s \in Runs, Push!Permitted(s)
      PROVE  seen' \in SeenType /\ userId' \in Push!Ids /\ (seen.failed => seen'.failed)
  BY <1>3 DEF Push!Permitted, SeenType
<1>4. ASSUME NEW s \in Runs, Push!RunFails(s)
      PROVE  seen' \in SeenType /\ userId' \in Push!Ids /\ (seen.failed => seen'.failed)
  BY <1>4 DEF Push!RunFails, SeenType
<1>5. ASSUME NEW s \in Runs, Push!SignOut(s)
      PROVE  seen' \in SeenType /\ userId' \in Push!Ids /\ (seen.failed => seen'.failed)
  BY <1>5 DEF Push!SignOut, SeenType
<1>6. ASSUME UNCHANGED seen, UNCHANGED userId \/ userId' = Nobody
      PROVE  seen' \in SeenType /\ userId' \in Push!Ids /\ (seen.failed => seen'.failed)
  BY <1>6 DEF Push!Ids
<1> QED
  BY <1>1, <1>2, <1>3, <1>4, <1>5, <1>6 DEF Push!Next, Push!SubscribeSaved, Push!FirstDone,
     Push!SecondDone, Push!LoggedOut, Push!Cleared

LEMMA PushStep == PushInv /\ [Push!Next]_(Push!vars) => PushInv'
<1> SUFFICES ASSUME PushInv, [Push!Next]_(Push!vars) PROVE PushInv'
  OBVIOUS
<1>1. CASE UNCHANGED Push!vars
  BY <1>1 DEF Push!vars, PushInv, WhileNoneFails, PushTypeOK, QueueOfRuns, LeaversGo, Steady,
     OwnTopicComes, NoneUnsubscribes, TagComes, GoneOrGoing, ThereOrComing, Asked, NotAsked, Of,
     Push!Clearing
<1>2. CASE Push!Next /\ seen'.failed
  BY <1>2, SeenStep DEF PushInv
<1>3. CASE Push!Next /\ ~seen'.failed
  <2>0. /\ seen' \in SeenType /\ userId' \in Push!Ids /\ ~seen.failed /\ WhileNoneFails
        /\ clearing \in [Runs -> {"no", "flag", "id"}]
    BY <1>3, SeenStep DEF PushInv, WhileNoneFails, PushTypeOK
  <2>1. ASSUME NEW s \in Runs, Push!SubscribeSaved(s)
        PROVE  PushInv'
    BY <2>0, <2>1, StartKeeps DEF Push!SubscribeSaved
  <2>2. ASSUME NEW s \in Runs, Push!Switch(s)
        PROVE  PushInv'
    <3>1. CASE Push!Subscribe(s) /\ UNCHANGED <<queue, seen>>
      BY <2>0, <2>2, <3>1, StartKeeps DEF Push!Switch
    <3>2. CASE Push!Unsubscribe(s, userId) /\ seen' = [seen EXCEPT !.switched = TRUE]
      <4>1. seen'.raced = seen.raced /\ seen'.replaced = seen.replaced /\ seen'.switched
        BY <3>2 DEF PushInv, SeenType
      <4> QED  BY <2>0, <2>2, <3>2, <4>1, StopKeeps DEF Push!Switch
    <3> QED  BY <2>2, <3>1, <3>2 DEF Push!Switch
  <2>3. ASSUME NEW s \in Runs, Push!SignOut(s)
        PROVE  PushInv'
    <3>1. clearing' \in [Runs -> {"no", "flag", "id"}] /\ clearing'[s] = "flag"
      BY <2>0, <2>3 DEF Push!SignOut
    <3>2. seen'.raced = seen.raced \ {userId} /\ seen'.replaced = seen.replaced \ {userId}
      BY <2>3 DEF Push!SignOut, PushInv, SeenType
    <3> QED  BY <2>0, <2>3, <3>1, <3>2, StopKeeps DEF Push!SignOut
  <2>4. ASSUME NEW s \in Runs, NEW u \in Users, Push!SaveUserData(u, s)
        PROVE  PushInv'
    BY <2>0, <2>4, SaveKeeps
  <2>5. ASSUME Push!FirstDone \/ Push!SecondDone
        PROVE  PushInv'
    BY <2>0, <2>5, FirstDoneKeeps, SecondDoneKeeps DEF PushInv
  <2>6. ASSUME NEW s \in Runs, Push!RunFails(s)
        PROVE  seen'.failed
    BY <2>6 DEF Push!RunFails, PushInv, SeenType
  <2> QED
    BY <1>3, <2>0, <2>1, <2>2, <2>3, <2>4, <2>5, <2>6, PermittedKeeps, ClearingKeeps
    DEF Push!Next
<1> QED  BY <1>1, <1>2, <1>3

\* Once no call runs, the queue is empty.
LEMMA SettledIsEmpty ==
  ASSUME WhileNoneFails, Push!Settled
  PROVE  /\ Len(queue) = 0
         /\ \A s \in Runs : run[s] \in {"idle", "done"}
<1>1. \A s \in Runs : run[s] \in {"idle", "done"}
  BY DEF Push!Settled, Push!Working
<1>2. Len(queue) = 0
  <2> SUFFICES ASSUME Len(queue) # 0 PROVE FALSE
    OBVIOUS
  <2>1. 1 \in 1..Len(queue) /\ queue[1] \in OpType
    BY DEF WhileNoneFails, PushTypeOK
  <2>2. queue[1].run \in Runs
    BY <2>1 DEF OpType
  <2> QED  BY <1>1, <2>1, <2>2 DEF WhileNoneFails, QueueOfRuns
<1> QED  BY <1>1, <1>2

\* For any users and any number of calls: a signed-in user who has not touched the switch
\* ends up with the own topic, and with the application's unless an unsubscription was
\* still running at the last save, in whatever order answers were saved, preferences
\* cleared, permissions given and the queue worked off.
THEOREM SignedInIsSubscribed == Push!Spec => []SubscribedWhenSettled
<1>1. PushInv => SubscribedWhenSettled
  <2> SUFFICES ASSUME PushInv, Push!Settled, signedIn, userId \in Users, ~seen.switched,
                      ~seen.failed
               PROVE  /\ Push!UserTopic(userId) \in topics
                      /\ Push!USER_APP_TAG \in topics \/ seen.late
    BY DEF SubscribedWhenSettled, Push!SubscribedWhenSettled
  <2>1. WhileNoneFails
    BY DEF PushInv
  <2>2. Len(queue) = 0 /\ \A s \in Runs : run[s] \in {"idle", "done"}
    BY <2>1, SettledIsEmpty
  <2> QED
    BY <2>1, <2>2 DEF WhileNoneFails, OwnTopicComes, TagComes, ThereOrComing, Asked, Steady,
       Push!Settled
<1> QED  BY <1>1, PushInit, PushStep, PTL DEF Push!Spec

\* For any users and any number of calls: the device keeps the topic of a user who is not the
\* one in the store only if, since that user's last sign-out, a subscription got its
\* permission in the midst of a sign-out, or another account was saved over the user.
THEOREM LeaversAreUnsubscribed == Push!Spec => []NoTopicLeftBehind
<1>1. PushInv => NoTopicLeftBehind
  <2> SUFFICES ASSUME PushInv, Push!Settled, ~seen.failed, NEW u \in Users \ {userId},
                      Push!UserTopic(u) \in topics, u \notin seen.raced \cup seen.replaced
               PROVE  FALSE
    BY DEF NoTopicLeftBehind, Push!NoTopicLeftBehind
  <2>1. WhileNoneFails
    BY DEF PushInv
  <2>2. Len(queue) = 0
    BY <2>1, SettledIsEmpty
  <2> QED  BY <2>1, <2>2 DEF WhileNoneFails, LeaversGo, GoneOrGoing, Asked
<1> QED  BY <1>1, PushInit, PushStep, PTL DEF Push!Spec

-----------------------------------------------------------------------------
(* The booking list.                                                        *)

RowType == [filter : Filters, row : Nat]

ReqType == [page : Nat, filter : Filters, state : {"sent", "ok", "failed", "orphan", "gone"}]

ListTypeOK ==
  /\ req \in Seq(ReqType) /\ Len(req) >= 1
  /\ page = req[Len(req)].page
  /\ filter \in Filters
  /\ applied \in Seq(1..Len(req))

\* The pages asked for run from 1 upwards, without a gap, to the last one.
PagesRun ==
  \A i \in 1..Len(req) :
    /\ req[i].page \in 1..i
    /\ \A j \in 0..(req[i].page - 1) : req[i - j].page = req[i].page - j

\* The last n answers that went into the list are those of the pages 1 to n of a filter.
Chain(n, f) ==
  \A i \in 1..n : LET r == applied[Len(applied) - n + i] IN req[r].page = i /\ req[r].filter = f

\* The list is the one these answers make.
ChainShown ==
  \A n \in 1..Len(applied), f \in Filters : Chain(n, f) =>
    /\ bookings = List!Slice(f, 0, List!Lesser(n * PerPage, Rows[f]))
    /\ isLastPage => Len(bookings) = Rows[f]

ListInv == ListTypeOK /\ PagesRun /\ ChainShown

\* Rows a+1 to b, as a sequence.
LEMMA SliceFacts ==
  ASSUME NEW f \in Filters, NEW a \in Nat, NEW b \in Nat, a <= b
  PROVE  /\ List!Slice(f, a, b) \in Seq(RowType)
         /\ Len(List!Slice(f, a, b)) = b - a
         /\ \A i \in 1..(b - a) : List!Slice(f, a, b)[i] = [filter |-> f, row |-> a + i]
<1> DEFINE s == [i \in 1..(b - a) |-> [filter |-> f, row |-> a + i]]
<1>1. b - a \in Nat /\ s \in [1..(b - a) -> RowType]
  BY DEF RowType
<1>2. List!Slice(f, a, b) = s
  BY DEF List!Slice
<1>3. \A i \in 1..(b - a) : s[i] = [filter |-> f, row |-> a + i]
  OBVIOUS
<1> HIDE DEF s
<1> QED  BY <1>1, <1>2, <1>3, FunctionIsSeq

\* The first b rows.
LEMMA FirstRows ==
  ASSUME NEW f \in Filters, NEW b \in Nat
  PROVE  /\ List!Slice(f, 0, b) \in Seq(RowType)
         /\ Len(List!Slice(f, 0, b)) = b
         /\ \A i \in 1..b : List!Slice(f, 0, b)[i] = [filter |-> f, row |-> i]
<1>1. 0 \in Nat /\ 0 <= b /\ b - 0 = b /\ \A i \in 1..b : 0 + i = i
  OBVIOUS
<1>2. /\ List!Slice(f, 0, b) \in Seq(RowType)
      /\ Len(List!Slice(f, 0, b)) = b - 0
      /\ \A i \in 1..(b - 0) : List!Slice(f, 0, b)[i] = [filter |-> f, row |-> 0 + i]
  BY <1>1, SliceFacts, Zenon
<1> QED  BY <1>1, <1>2

\* Two slices that meet make one.
LEMMA SlicesMeet ==
  ASSUME NEW f \in Filters, NEW a \in Nat, NEW b \in Nat, a <= b
  PROVE  List!Slice(f, 0, a) \o List!Slice(f, a, b) = List!Slice(f, 0, b)
<1> DEFINE s == List!Slice(f, 0, a)
           t == List!Slice(f, a, b)
           u == List!Slice(f, 0, b)
<1>1. /\ s \in Seq(RowType) /\ Len(s) = a
      /\ \A i \in 1..a : s[i] = [filter |-> f, row |-> i]
  BY FirstRows
<1>2. /\ t \in Seq(RowType) /\ Len(t) = b - a
      /\ \A i \in 1..(b - a) : t[i] = [filter |-> f, row |-> a + i]
  BY SliceFacts
<1>3. /\ u \in Seq(RowType) /\ Len(u) = b
      /\ \A i \in 1..b : u[i] = [filter |-> f, row |-> i]
  BY FirstRows
<1> HIDE DEF s, t, u
<1>4. /\ s \o t \in Seq(RowType) /\ Len(s \o t) = b
      /\ \A i \in 1..b : (s \o t)[i] = IF i <= a THEN s[i] ELSE t[i - a]
  <2>1. /\ s \o t \in Seq(RowType) /\ Len(s \o t) = Len(s) + Len(t)
        /\ \A i \in 1..(Len(s) + Len(t)) : (s \o t)[i] = IF i <= Len(s) THEN s[i] ELSE t[i - Len(s)]
    BY <1>1, <1>2, ConcatProperties
  <2>2. a + (b - a) = b
    OBVIOUS
  <2> QED  BY <1>1, <1>2, <2>1, <2>2
<1>5. \A i \in 1..b : (s \o t)[i] = u[i]
  <2> SUFFICES ASSUME NEW i \in 1..b
               PROVE  (s \o t)[i] = u[i]
    OBVIOUS
  <2>1. CASE i <= a
    <3>1. i \in 1..a
      BY <2>1
    <3> QED  BY <1>1, <1>3, <1>4, <2>1, <3>1
  <2>2. CASE ~(i <= a)
    <3>1. i - a \in 1..(b - a) /\ a + (i - a) = i
      BY <2>2
    <3> QED  BY <1>2, <1>3, <1>4, <2>2, <3>1
  <2> QED  BY <2>1, <2>2
<1>6. s \o t = u
  BY <1>3, <1>4, <1>5
<1> QED  BY <1>6 DEF s, t, u

\* A page of the backend.
LEMMA PageFacts ==
  ASSUME NEW f \in Filters, NEW p \in Nat, p >= 1
  PROVE  LET rows == List!PageOf(f, p)
             before == List!Lesser((p - 1) * PerPage, Rows[f])
             upto == List!Lesser(p * PerPage, Rows[f])
         IN  /\ before \in Nat /\ upto \in Nat /\ before <= upto
             /\ rows \in Seq(RowType) /\ Len(rows) = upto - before
             /\ List!Slice(f, 0, before) \o rows = List!Slice(f, 0, upto)
             /\ p = 1 => before = 0
             /\ Len(rows) # PerPage => upto = Rows[f]
<1> DEFINE P == PerPage
           R == Rows[f]
           b == (p - 1) * P
           e == p * P
           before == List!Lesser(b, R)
           upto == List!Lesser(e, R)
           rows == List!PageOf(f, p)
<1>1. P \in Nat /\ P >= 1 /\ R \in Nat
  BY ListAssumption
<1>2. b \in Nat /\ e \in Nat /\ e = b + P /\ (p = 1 => b = 0)
  BY <1>1
<1>3. rows = IF b >= R THEN <<>> ELSE List!Slice(f, b, upto)
  BY DEF List!PageOf
<1>4. before = (IF b < R THEN b ELSE R) /\ upto = (IF e < R THEN e ELSE R)
  BY DEF List!Lesser
<1> HIDE DEF P, R, b, e, before, upto, rows
<1>5. before \in Nat /\ upto \in Nat /\ before <= upto /\ (p = 1 => before = 0)
  BY <1>1, <1>2, <1>4
<1>6. CASE b >= R
  <2>1. before = R /\ upto = R /\ rows = <<>>
    BY <1>1, <1>2, <1>3, <1>4, <1>6
  <2>2. List!Slice(f, 0, R) \in Seq(RowType)
    BY <1>1, SliceFacts
  <2>3. /\ rows \in Seq(RowType) /\ Len(rows) = upto - before
        /\ List!Slice(f, 0, before) \o rows = List!Slice(f, 0, upto)
    BY <1>1, <2>1, <2>2
  <2> QED  BY <1>5, <2>1, <2>3 DEF P, R, b, e, before, upto, rows
<1>7. CASE ~(b >= R)
  <2>1. before = b /\ rows = List!Slice(f, before, upto)
    BY <1>1, <1>2, <1>3, <1>4, <1>7
  <2>2. rows \in Seq(RowType) /\ Len(rows) = upto - before
    BY <1>5, <2>1, SliceFacts
  <2>3. List!Slice(f, 0, before) \o rows = List!Slice(f, 0, upto)
    BY <1>5, <2>1, SlicesMeet
  <2>4. Len(rows) # P => upto = R
    BY <1>1, <1>2, <1>4, <2>1, <2>2
  <2> QED  BY <1>5, <2>2, <2>3, <2>4 DEF P, R, b, e, before, upto, rows
<1> QED  BY <1>6, <1>7

LEMMA ListInit == List!Init => ListInv
<1> SUFFICES ASSUME List!Init PROVE ListInv
  OBVIOUS
<1> DEFINE r == List!Sent(1, NoFilter)
<1>1. /\ r \in ReqType /\ r.page = 1 /\ r.state = "sent"
      /\ req = <<r>> /\ page = 1 /\ filter = NoFilter /\ applied = <<>>
  BY ListAssumption DEF List!Init, List!Sent, ReqType
<1> HIDE DEF r
<1>2. req \in Seq(ReqType) /\ Len(req) = 1 /\ req[1] = r
  BY <1>1
<1>3. applied \in Seq(1..Len(req)) /\ Len(applied) = 0
  BY <1>1
<1>4. ListTypeOK
  BY <1>1, <1>2, <1>3, ListAssumption DEF ListTypeOK
<1>5. PagesRun
  BY <1>1, <1>2 DEF PagesRun
<1>6. ChainShown
  <2>1. 1..Len(applied) = {}
    BY <1>3
  <2> QED  BY <2>1 DEF ChainShown
<1> QED  BY <1>4, <1>5, <1>6 DEF ListInv

\* What the tests below need of the requests: a page and a filter for each.
LEMMA ReqFacts ==
  ASSUME ListTypeOK
  PROVE  /\ Len(req) \in Nat /\ DOMAIN req = 1..Len(req)
         /\ \A i \in 1..Len(req) : /\ req[i] \in ReqType /\ req[i].page \in Nat
                                   /\ req[i].filter \in Filters
<1>1. Len(req) \in Nat /\ DOMAIN req = 1..Len(req) /\ \A i \in 1..Len(req) : req[i] \in ReqType
  BY DEF ListTypeOK
<1> QED  BY <1>1 DEF ReqType

\* No page or filter of a request changes, and requests are only added.
SameRequests ==
  /\ req' \in Seq(ReqType) /\ Len(req') >= Len(req)
  /\ \A i \in 1..Len(req) : req'[i].page = req[i].page /\ req'[i].filter = req[i].filter

\* Then the answers that went into the list stay what they were.
LEMMA ChainStays ==
  ASSUME ListInv, SameRequests, \/ UNCHANGED <<applied, bookings, isLastPage>>
                                \/ applied' = <<>>
  PROVE  ChainShown' /\ applied' \in Seq(1..Len(req'))
<1>1. Len(req) \in Nat /\ Len(req') \in Nat /\ applied \in Seq(1..Len(req)) /\ Len(applied) \in Nat
  BY DEF ListInv, ListTypeOK, SameRequests
<1>2. CASE UNCHANGED <<applied, bookings, isLastPage>>
  <2>1. applied' \in Seq(1..Len(req'))
    <3>1. 1..Len(req) \subseteq 1..Len(req')
      BY <1>1 DEF SameRequests
    <3>2. \A i \in 1..Len(applied) : applied[i] \in 1..Len(req')
      BY <1>1, <3>1
    <3>3. applied \in Seq(1..Len(req'))
      BY <1>1, <3>2
    <3> QED  BY <1>2, <3>3
  <2>2. ASSUME NEW n \in 1..Len(applied), NEW f \in Filters, Chain(n, f)'
        PROVE  Chain(n, f)
    <3> SUFFICES ASSUME NEW i \in 1..n
                 PROVE  LET r == applied[Len(applied) - n + i]
                        IN  req[r].page = i /\ req[r].filter = f
      BY DEF Chain
    <3>1. Len(applied) - n + i \in 1..Len(applied)
      BY <1>1
    <3> DEFINE r == applied[Len(applied) - n + i]
    <3>2. r \in 1..Len(req)
      BY <1>1, <3>1
    <3>3. req'[r].page = i /\ req'[r].filter = f
      BY <1>2, <2>2 DEF Chain
    <3> HIDE DEF r
    <3>4. req[r].page = i /\ req[r].filter = f
      BY <3>2, <3>3 DEF SameRequests
    <3> QED  BY <3>4 DEF r
  <2> QED  BY <1>2, <2>1, <2>2 DEF ListInv, ChainShown
<1>3. CASE applied' = <<>>
  <2>1. 1..Len(applied') = {} /\ applied' \in Seq(1..Len(req'))
    BY <1>3
  <2> QED  BY <2>1 DEF ChainShown
<1> QED  BY <1>2, <1>3

\* A request is sent: the first page, or the one after the last.
LEMMA RequestKeeps ==
  ASSUME ListInv, NEW q \in Seq(ReqType), Len(q) = Len(req),
         \A i \in 1..Len(req) : q[i].page = req[i].page /\ q[i].filter = req[i].filter,
         NEW p \in {1, page + 1}, NEW f \in Filters, req' = Append(q, List!Sent(p, f)),
         page' = p, filter' \in Filters,
         UNCHANGED <<applied, bookings, isLastPage>> \/ applied' = <<>>
  PROVE  ListInv'
<1> DEFINE n == Len(req)
           s == List!Sent(p, f)
<1>1. /\ n \in Nat /\ n >= 1 /\ page = req[n].page
      /\ \A i \in 1..n : req[i].page \in Nat
  BY ReqFacts DEF ListInv, ListTypeOK
<1>2. page \in 1..n /\ p \in Nat
  BY <1>1 DEF ListInv, PagesRun
<1>3. s \in ReqType /\ s.page = p /\ s.state = "sent"
  BY <1>2 DEF List!Sent, ReqType
<1> HIDE DEF s
<1>4. /\ req' \in Seq(ReqType) /\ Len(req') = n + 1 /\ req'[n + 1] = s
      /\ \A i \in 1..n : req'[i] = q[i]
  BY <1>3, AppendFacts DEF s
<1> HIDE DEF n
<1>5. SameRequests
  BY <1>1, <1>4 DEF SameRequests, n
<1>6. ChainShown' /\ applied' \in Seq(1..Len(req'))
  BY <1>5, ChainStays
<1>7. ListTypeOK'
  BY <1>1, <1>3, <1>4, <1>6 DEF ListTypeOK
<1>8. PagesRun'
  <2> SUFFICES ASSUME NEW i \in 1..(n + 1)
               PROVE  /\ req'[i].page \in 1..i
                      /\ \A j \in 0..(req'[i].page - 1) : req'[i - j].page = req'[i].page - j
    BY <1>4 DEF PagesRun
  <2>0. \A k \in 1..n : req'[k].page = req[k].page
    BY <1>5 DEF SameRequests, n
  <2>1. CASE i \in 1..n
    <3>1. req[i].page \in 1..i
          /\ \A j \in 0..(req[i].page - 1) : req[i - j].page = req[i].page - j
      BY <2>1 DEF ListInv, PagesRun, n
    <3>2. \A j \in 0..(req[i].page - 1) : i - j \in 1..n
      BY <1>1, <2>1, <3>1
    <3> QED  BY <2>0, <2>1, <3>1, <3>2
  <2>2. CASE i = n + 1
    <3>1. req'[i].page = p /\ p \in 1..i
      BY <1>1, <1>2, <1>3, <1>4, <2>2
    <3>2. ASSUME NEW j \in 0..(p - 1)
          PROVE  req'[i - j].page = p - j
      <4>1. CASE j = 0
        <5>1. i - j = i /\ p - j = p
          BY <1>1, <1>2, <2>2, <4>1
        <5> QED  BY <3>1, <5>1
      <4>2. CASE j # 0
        <5>1. p = page + 1 /\ j - 1 \in 0..(page - 1) /\ i - j = n - (j - 1) /\ p - j = page - (j - 1)
              /\ n - (j - 1) \in 1..n
          <6>1. j \in Nat /\ j >= 1 /\ j <= p - 1 /\ n \in Nat /\ page \in Nat /\ page <= n
            BY <1>1, <1>2, <4>2
          <6>2. p = page + 1
            BY <1>2, <6>1
          <6>3. j - 1 \in 0..(page - 1) /\ n - (j - 1) \in 1..n
            BY <6>1, <6>2
          <6>4. i - j = n - (j - 1) /\ p - j = page - (j - 1)
            BY <2>2, <6>1, <6>2
          <6> QED  BY <6>2, <6>3, <6>4
        <5>2. req[n - (j - 1)].page = req[n].page - (j - 1)
          <6>1. n \in 1..n
            BY <1>1
          <6> QED  BY <1>1, <5>1, <6>1 DEF ListInv, PagesRun, n
        <5> QED  BY <1>1, <2>0, <5>1, <5>2
      <4> QED  BY <4>1, <4>2
    <3> QED  BY <3>1, <3>2
  <2>3. i \in 1..n \/ i = n + 1
    BY <1>1
  <2> QED  BY <2>1, <2>2, <2>3
<1> QED  BY <1>6, <1>7, <1>8 DEF ListInv

\* Only states of requests change.
LEMMA StatesKeep ==
  ASSUME ListInv, SameRequests, Len(req') = Len(req), UNCHANGED page, filter' \in Filters
  PROVE  PagesRun' /\ (applied' \in Seq(1..Len(req')) => ListTypeOK')
<1> DEFINE n == Len(req)
<1>1. /\ n \in Nat /\ n >= 1 /\ \A i \in 1..n : req'[i].page = req[i].page
  BY DEF ListInv, ListTypeOK, SameRequests
<1>2. PagesRun'
  <2> SUFFICES ASSUME NEW i \in 1..n
               PROVE  /\ req'[i].page \in 1..i
                      /\ \A j \in 0..(req'[i].page - 1) : req'[i - j].page = req'[i].page - j
    BY DEF PagesRun
  <2>1. req[i].page \in 1..i
        /\ \A j \in 0..(req[i].page - 1) : req[i - j].page = req[i].page - j
    BY DEF ListInv, PagesRun
  <2>2. \A j \in 0..(req[i].page - 1) : i - j \in 1..n
    BY <1>1, <2>1
  <2> QED  BY <1>1, <2>1, <2>2
<1> QED  BY <1>1, <1>2 DEF ListInv, ListTypeOK, SameRequests

LEMMA OrphanedFacts ==
  ASSUME ListTypeOK
  PROVE  /\ List!Orphaned(req) \in Seq(ReqType) /\ Len(List!Orphaned(req)) = Len(req)
         /\ \A i \in 1..Len(req) :
              /\ List!Orphaned(req)[i].page = req[i].page
              /\ List!Orphaned(req)[i].filter = req[i].filter
              /\ req[i].state \in {"sent", "orphan"} => List!Orphaned(req)[i].state = "orphan"
<1> DEFINE n == Len(req)
           o(i) == IF req[i].state = "sent" THEN [req[i] EXCEPT !.state = "orphan"] ELSE req[i]
           os == [i \in 1..n |-> o(i)]
<1>1. n \in Nat /\ DOMAIN req = 1..n /\ \A i \in 1..n : req[i] \in ReqType
  BY ReqFacts
<1>2. \A i \in 1..n : /\ o(i) \in ReqType /\ o(i).page = req[i].page /\ o(i).filter = req[i].filter
                      /\ req[i].state \in {"sent", "orphan"} => o(i).state = "orphan"
  BY <1>1 DEF ReqType
<1>3. List!Orphaned(req) = os
  BY <1>1 DEF List!Orphaned
<1> HIDE DEF o
<1>4. os \in [1..n -> ReqType] /\ \A i \in 1..n : os[i] = o(i)
  BY <1>2
<1> HIDE DEF os
<1>5. os \in Seq(ReqType) /\ Len(os) = n
  BY <1>1, <1>4, FunctionIsSeq
<1> QED  BY <1>2, <1>3, <1>4, <1>5

\* The state of one request changes.
LEMMA OneState ==
  ASSUME ListTypeOK, NEW r \in 1..Len(req), NEW st \in {"ok", "failed", "gone"},
         req' = [req EXCEPT ![r].state = st]
  PROVE  SameRequests /\ Len(req') = Len(req)
<1> DEFINE q == [req[r] EXCEPT !.state = st]
<1>1. q \in ReqType /\ q.page = req[r].page /\ q.filter = req[r].filter
  BY ReqFacts DEF ReqType
<1>2. req' = [req EXCEPT ![r] = q]
  OBVIOUS
<1> HIDE DEF q
<1>3. /\ req' \in Seq(ReqType) /\ Len(req') = Len(req) /\ req'[r] = q
      /\ \A j \in 1..Len(req) : j # r => req'[j] = req[j]
  <2>1. req \in Seq(ReqType)
    BY DEF ListTypeOK
  <2>2. /\ [req EXCEPT ![r] = q] \in Seq(ReqType) /\ Len([req EXCEPT ![r] = q]) = Len(req)
        /\ [req EXCEPT ![r] = q][r] = q
        /\ \A j \in 1..Len(req) : j # r => [req EXCEPT ![r] = q][j] = req[j]
    BY <1>1, <2>1, ReplaceFacts
  <2> QED  BY ONLY <1>2, <2>2, Zenon
<1> QED  BY <1>1, <1>3, ReqFacts DEF SameRequests

LEMMA AnswerKeeps ==
  ASSUME ListInv, NEW r \in 1..Len(req), List!Answer(r)
  PROVE  ListInv'
<1> DEFINE m == Len(applied)
           rows == List!PageOf(req[r].filter, req[r].page)
<1>0. ListTypeOK /\ PagesRun
  BY DEF ListInv
<1>1. /\ req' = [req EXCEPT ![r].state = "ok"] /\ applied' = Append(applied, r)
      /\ bookings' = List!Cleared(req[r].page, bookings) \o rows
      /\ isLastPage' = (Len(rows) # PerPage) /\ UNCHANGED <<page, filter>>
  BY DEF List!Answer
<1>2. SameRequests /\ Len(req') = Len(req)
  BY <1>0, <1>1, OneState
<1>3. applied \in Seq(1..Len(req)) /\ m \in Nat /\ req[r].page \in Nat /\ req[r].filter \in Filters
  BY <1>0, ReqFacts DEF ListTypeOK
<1>4. /\ applied' \in Seq(1..Len(req)) /\ Len(applied') = m + 1 /\ applied'[m + 1] = r
      /\ \A i \in 1..m : applied'[i] = applied[i]
  BY <1>1, <1>3, AppendFacts
<1>5. PagesRun' /\ ListTypeOK'
  <2>1. filter' \in Filters
    BY <1>0, <1>1 DEF ListTypeOK
  <2> QED  BY <1>1, <1>2, <1>4, <2>1, StatesKeep
<1> HIDE DEF m, rows
<1>6. ASSUME NEW n \in 1..(m + 1), NEW f \in Filters, Chain(n, f)'
      PROVE  /\ bookings' = List!Slice(f, 0, List!Lesser(n * PerPage, Rows[f]))
             /\ isLastPage' => Len(bookings') = Rows[f]
  <2>1. ASSUME NEW i \in 1..n
        PROVE  LET a == applied'[m + 1 - n + i]
               IN  a \in 1..Len(req) /\ req[a].page = i /\ req[a].filter = f
    <3>1. m + 1 - n + i \in 1..(m + 1)
      BY <1>3
    <3> DEFINE a == applied'[m + 1 - n + i]
    <3>2. a \in 1..Len(req)
      BY <1>4, <3>1
    <3>3. req'[a].page = i /\ req'[a].filter = f
      <4>1. \A k \in 1..n : /\ req'[applied'[Len(applied') - n + k]].page = k
                            /\ req'[applied'[Len(applied') - n + k]].filter = f
        BY <1>6 DEF Chain
      <4>2. Len(applied') - n + i = m + 1 - n + i
        BY <1>3, <1>4
      <4> QED  BY <4>1, <4>2, Zenon
    <3> HIDE DEF a
    <3>4. req[a].page = i /\ req[a].filter = f
      BY <1>2, <3>2, <3>3 DEF SameRequests
    <3> QED  BY <3>2, <3>4 DEF a
  <2>2. req[r].page = n /\ req[r].filter = f
    <3>1. n \in 1..n /\ m + 1 - n + n = m + 1
      BY <1>3
    <3> QED  BY <1>4, <2>1, <3>1
  <2> DEFINE before == List!Lesser((n - 1) * PerPage, Rows[f])
             upto == List!Lesser(n * PerPage, Rows[f])
  <2>3. /\ before \in Nat /\ upto \in Nat /\ before <= upto
        /\ rows \in Seq(RowType)
        /\ List!Slice(f, 0, before) \o rows = List!Slice(f, 0, upto)
        /\ n = 1 => before = 0
        /\ Len(rows) # PerPage => upto = Rows[f]
    <3>1. n \in Nat /\ n >= 1
      OBVIOUS
    <3> QED  BY <2>2, <3>1, PageFacts DEF rows
  <2>4. List!Cleared(n, bookings) = List!Slice(f, 0, before)
    <3>1. CASE n = 1
      <4>1. List!Slice(f, 0, 0) = <<>>
        <5>1. List!Slice(f, 0, 0) \in Seq(RowType) /\ Len(List!Slice(f, 0, 0)) = 0
          BY FirstRows
        <5> QED  BY <5>1
      <4> QED  BY <2>3, <3>1, <4>1 DEF List!Cleared
    <3>2. CASE n # 1
      <4>1. n - 1 \in 1..m
        BY <1>3, <3>2
      <4>2. Chain(n - 1, f)
        <5> SUFFICES ASSUME NEW i \in 1..(n - 1)
                     PROVE  LET a == applied[m - (n - 1) + i]
                            IN  req[a].page = i /\ req[a].filter = f
          BY DEF Chain, m
        <5>1. i \in 1..n /\ m - (n - 1) + i = m + 1 - n + i /\ m - (n - 1) + i \in 1..m
          BY <1>3, <4>1
        <5>2. applied'[m - (n - 1) + i] = applied[m - (n - 1) + i]
          BY <1>4, <5>1
        <5> QED  BY <2>1, <5>1, <5>2
      <4>3. bookings = List!Slice(f, 0, before)
        BY <4>1, <4>2 DEF ListInv, ChainShown, m
      <4> QED  BY <3>2, <4>3 DEF List!Cleared
    <3> QED  BY <3>1, <3>2
  <2>5. bookings' = List!Slice(f, 0, upto)
    BY <1>1, <2>2, <2>3, <2>4
  <2>6. isLastPage' => Len(bookings') = Rows[f]
    <3>1. Len(List!Slice(f, 0, upto)) = upto
      BY <2>3, FirstRows
    <3> QED  BY <1>1, <2>3, <2>5, <3>1
  <2> QED  BY <2>5, <2>6
<1>7. ChainShown'
  BY <1>4, <1>6 DEF ChainShown
<1> QED  BY <1>5, <1>7 DEF ListInv

LEMMA ListStep ==
  ASSUME ListInv, [List!Next]_List!vars
  PROVE  ListInv'
<1>0. /\ ListTypeOK /\ filter \in Filters /\ Len(req) \in Nat /\ DOMAIN req = 1..Len(req)
      /\ req \in Seq(ReqType)
  BY ReqFacts DEF ListInv, ListTypeOK
<1>1. CASE List!Open
  <2>1. /\ req' = Append(List!Orphaned(req), List!Sent(1, filter)) /\ page' = 1
        /\ applied' = <<>> /\ filter' = NoFilter
    BY <1>1 DEF List!Open
  <2>2. filter' \in Filters
    BY <2>1, ListAssumption
  <2> QED  BY <1>0, <2>1, <2>2, OrphanedFacts, RequestKeeps
<1>2. CASE List!Leave
  <2>1. /\ req' = List!Orphaned(req) /\ filter' = NoFilter
        /\ UNCHANGED <<page, isLastPage, bookings, applied>>
    BY <1>2 DEF List!Leave
  <2>2. SameRequests /\ Len(req') = Len(req)
    BY <1>0, <2>1, OrphanedFacts DEF SameRequests
  <2>3. filter' \in Filters
    BY <2>1, ListAssumption
  <2>4. ChainShown' /\ PagesRun' /\ ListTypeOK'
    BY <2>1, <2>2, <2>3, ChainStays, StatesKeep
  <2> QED  BY <2>4 DEF ListInv
<1>3. CASE List!OtherScreen \/ List!ForgetCache
  <2>1. /\ filter' \in Filters
        /\ UNCHANGED <<req, page, isLastPage, bookings, applied>>
    BY <1>0, <1>3 DEF List!OtherScreen, List!ForgetCache
  <2>2. SameRequests /\ Len(req') = Len(req)
    BY <1>0, <2>1 DEF SameRequests
  <2>3. ChainShown' /\ PagesRun' /\ ListTypeOK'
    BY <2>1, <2>2, ChainStays, StatesKeep
  <2> QED  BY <2>3 DEF ListInv
<1>4. CASE List!NextPage \/ List!Refresh \/ List!ApplyFilter
  <2>1. PICK p \in {1, page + 1}, f \in Filters :
          /\ req' = Append(req, List!Sent(p, f)) /\ page' = p /\ filter' \in Filters
          /\ UNCHANGED <<applied, bookings, isLastPage>>
    BY <1>0, <1>4 DEF List!NextPage, List!Refresh, List!ApplyFilter, List!Request
  <2> QED  BY <1>0, <2>1, RequestKeeps
<1>5. ASSUME NEW r \in 1..Len(req), List!Fail(r) \/ List!OrphanEnds(r)
      PROVE  ListInv'
  <2>1. PICK st \in {"failed", "gone"} :
          /\ req' = [req EXCEPT ![r].state = st]
          /\ UNCHANGED <<page, isLastPage, bookings, filter, applied>>
    BY <1>5 DEF List!Fail, List!OrphanEnds
  <2>2. SameRequests /\ Len(req') = Len(req)
    BY <1>0, <2>1, OneState
  <2>3. filter' \in Filters
    BY <1>0, <2>1
  <2>4. ChainShown' /\ PagesRun' /\ ListTypeOK'
    BY <2>1, <2>2, <2>3, ChainStays, StatesKeep
  <2> QED  BY <2>4 DEF ListInv
<1>6. CASE UNCHANGED List!vars
  BY <1>6 DEF List!vars, ListInv, ListTypeOK, PagesRun, ChainShown, Chain
<1> QED
  BY <1>0, <1>1, <1>2, <1>3, <1>4, <1>5, <1>6, AnswerKeeps DEF List!Next

\* The last refresh is as far back as the current page tells.
LEMMA RefreshFacts ==
  ASSUME ListInv
  PROVE  /\ page \in 1..Len(req) /\ List!LastRefresh = Len(req) - page + 1
         /\ \A i \in 1..page : /\ Len(req) - page + i \in 1..Len(req)
                               /\ req[Len(req) - page + i].page = i
<1> DEFINE n == Len(req)
           L == n - page + 1
<1>1. n \in Nat /\ n >= 1 /\ n \in 1..n /\ page = req[n].page /\ DOMAIN req = 1..n
  BY ReqFacts DEF ListInv, ListTypeOK
<1>2. page \in 1..n /\ \A j \in 0..(page - 1) : req[n - j].page = page - j
  BY <1>1 DEF ListInv, PagesRun
<1>3. ASSUME NEW i \in 1..page
      PROVE  n - page + i \in 1..n /\ req[n - page + i].page = i
  <2>1. page - i \in 0..(page - 1) /\ n - (page - i) = n - page + i /\ page - (page - i) = i
        /\ n - page + i \in 1..n
    BY <1>1, <1>2
  <2> QED  BY <1>2, <2>1
<1>4. L \in 1..n /\ req[L].page = 1 /\ \A q \in 1..n : q > L => req[q].page # 1
  <2>1. 1 \in 1..page
    BY <1>2
  <2>2. ASSUME NEW q \in 1..n, q > L
        PROVE  req[q].page # 1
    <3>1. q - L + 1 \in 1..page /\ n - page + (q - L + 1) = q /\ q - L + 1 # 1
      <4>1. n \in Int /\ page \in Int /\ q \in Int /\ page >= 1 /\ q <= n /\ q > n - page + 1
        BY <1>1, <1>2, <2>2
      <4>2. L = n - page + 1
        OBVIOUS
      <4> HIDE DEF L, n
      <4> QED  BY <4>1, <4>2
    <3> QED  BY <1>3, <3>1
  <2> QED  BY <1>1, <1>2, <1>3, <2>1, <2>2
<1> HIDE DEF L
<1> DEFINE Last(r) == req[r].page = 1 /\ \A q \in 1..n : q > r => req[q].page # 1
<1>5. \A r \in 1..n : Last(r) => r = L
  <2> SUFFICES ASSUME NEW r \in 1..n, Last(r)
               PROVE  r = L
    OBVIOUS
  <2>1. ~(r > L) /\ ~(L > r)
    BY <1>4
  <2> QED  BY <1>4, <2>1
<1>6. Last(L)
  BY <1>4
<1>7. List!LastRefresh = CHOOSE r \in 1..n : Last(r)
  BY <1>1 DEF List!LastRefresh
<1> HIDE DEF Last, n
<1>8. (CHOOSE r \in 1..n : Last(r)) = L
  BY <1>4, <1>5, <1>6
<1> QED  BY <1>2, <1>3, <1>7, <1>8 DEF L, n

LEMMA ListWhole == ListInv => ListIsWhole
<1> SUFFICES ASSUME ListInv, List!AppliedInOrder, List!SameFilter
             PROVE  /\ bookings = List!Slice(filter, 0, List!Lesser(page * PerPage, Rows[filter]))
                    /\ isLastPage => Len(bookings) = Rows[filter]
  BY DEF ListIsWhole, List!ListIsWhole
<1> DEFINE n == Len(req)
           L == List!LastRefresh
<1>1. /\ page \in 1..n /\ L = n - page + 1 /\ n \in Nat /\ DOMAIN req = 1..n
      /\ \A i \in 1..page : n - page + i \in 1..n /\ req[n - page + i].page = i
  BY RefreshFacts, ReqFacts DEF ListInv
<1>2. Len(applied) \in Nat /\ filter \in Filters
  BY DEF ListInv, ListTypeOK
<1>3. n - L + 1 = page /\ \A i \in 1..page : L - 1 + i = n - page + i
  BY <1>1
<1>4. /\ Len(applied) >= page
      /\ \A i \in 1..page : applied[Len(applied) - page + i] = L - 1 + i
  BY <1>3 DEF List!AppliedInOrder
<1>5. \A i \in 1..page : req[n - page + i].filter = filter
  <2>1. \A i \in 1..page : n - page + i \in L..n
    BY <1>1
  <2> QED  BY <2>1 DEF List!SameFilter
<1> HIDE DEF L
<1>6. Chain(page, filter)
  <2> SUFFICES ASSUME NEW i \in 1..page
               PROVE  LET r == applied[Len(applied) - page + i]
                      IN  req[r].page = i /\ req[r].filter = filter
    BY DEF Chain
  <2>1. applied[Len(applied) - page + i] = n - page + i
    BY <1>3, <1>4
  <2> QED  BY <1>1, <1>5, <2>1
<1>7. page \in 1..Len(applied)
  BY <1>1, <1>2, <1>4
<1>8. /\ bookings = List!Slice(filter, 0, List!Lesser(page * PerPage, Rows[filter]))
      /\ isLastPage => Len(bookings) = Rows[filter]
  BY <1>2, <1>6, <1>7 DEF ListInv, ChainShown
<1> QED  BY <1>8

\* For any filters, numbers of bookings, page size and number of requests: when the answers
\* since the last refresh came in order and for one filter, the list holds the backend's
\* bookings up to its page, whatever was asked for, failed or was overtaken before, and it is
\* not called complete too early.
THEOREM BookingListIsWhole == List!Spec => []ListIsWhole
<1>1. ListInv /\ [List!Next]_List!vars => ListInv'
  BY ListStep
<1> QED
  BY <1>1, ListInit, ListWhole, PTL DEF List!Spec

-----------------------------------------------------------------------------
(* Sums.  The library's sum takes an element of the set, CHOOSE says which, and goes   *)
(* on with the rest.  What holds of every sum is shown by induction over the subsets  *)
(* of a finite set, in the form of its smallest counterexample.                       *)

Pick(s) == CHOOSE x \in s : TRUE

\* g, unfolded once; a sum is a g for which this changes nothing.
Unfolded(g, w, S) == [s \in SUBSET S |-> IF s = {} THEN 0 ELSE w[Pick(s)] + g[s \ {Pick(s)}]]
IsSum(g, w, S) == g = Unfolded(g, w, S)

LEMMA NatSetInduction ==
  ASSUME NEW G, 0 \in G, \A n \in Nat : n \in G => n + 1 \in G
  PROVE  Nat \subseteq G
<1> DEFINE C == Nat \ G
           R == OpToRel(<, Nat)
<1> SUFFICES ASSUME C # {} PROVE FALSE
  OBVIOUS
<1>1. IsWellFoundedOn(R, Nat)
  BY NatLessThanWellFounded
<1>2. PICK n \in C : \A m \in C : <<m, n>> \notin R
  <2>1. C \subseteq Nat
    OBVIOUS
  <2> HIDE DEF C, R
  <2> QED  BY <1>1, <2>1, WFMin
<1>3. n \in Nat \ {0} /\ n - 1 \in Nat
  <2>1. n \in Nat /\ n \notin G
    OBVIOUS
  <2> HIDE DEF C, R
  <2> QED  BY <2>1
<1>4. <<n - 1, n>> \in R
  BY <1>3 DEF OpToRel
<1>5. n - 1 \in G
  BY <1>2, <1>3, <1>4
<1>6. n = (n - 1) + 1
  BY <1>3
<1> QED  BY <1>2, <1>3, <1>5, <1>6

LEMMA SmallestSubset ==
  ASSUME NEW S, IsFiniteSet(S), NEW C \in SUBSET (SUBSET S), C # {}
  PROVE  \E s \in C : \A t \in C : t \subseteq s => t = s
<1> DEFINE R == StrictSubsetOrdering(S)
<1>1. IsWellFoundedOn(R, SUBSET S)
  BY FS_StrictSubsetOrderingWellFounded, FS_FiniteSubsetsOfFinite
<1>2. PICK s \in C : \A t \in C : <<t, s>> \notin R
  <2> HIDE DEF R
  <2> QED  BY <1>1, WFMin
<1>3. \A t \in C : t \subseteq s => t = s
  BY <1>2 DEF StrictSubsetOrdering
<1> QED  BY <1>3

LEMMA SubsetInduction ==
  ASSUME NEW S, IsFiniteSet(S), NEW G \in SUBSET (SUBSET S), {} \in G,
         \A s \in SUBSET S : s # {} /\ s \ {Pick(s)} \in G => s \in G
  PROVE  S \in G
<1> DEFINE C == (SUBSET S) \ G
<1> SUFFICES ASSUME C # {} PROVE FALSE
  OBVIOUS
<1>1. PICK s \in C : \A t \in C : t \subseteq s => t = s
  <2>1. C \in SUBSET (SUBSET S)
    OBVIOUS
  <2> HIDE DEF C
  <2> QED  BY <2>1, SmallestSubset
<1>2. s # {}
  BY <1>1
<1>3. Pick(s) \in s
  BY <1>2 DEF Pick
<1>4. s \ {Pick(s)} \in G
  BY <1>1, <1>3
<1> QED  BY <1>1, <1>2, <1>4

\* Taking the first element of a subset away.
LEMMA PickFacts ==
  ASSUME NEW S, IsFiniteSet(S), NEW s \in SUBSET S
  PROVE  /\ IsFiniteSet(s) /\ Cardinality(s) \in Nat
         /\ Cardinality(s) <= Cardinality(S)
         /\ Cardinality(s) = 0 => s = {}
         /\ s # {} => /\ Pick(s) \in s
                      /\ s \ {Pick(s)} \in SUBSET S
                      /\ Cardinality(s \ {Pick(s)}) \in Nat
                      /\ Cardinality(s) = Cardinality(s \ {Pick(s)}) + 1
<1>1. IsFiniteSet(s) /\ Cardinality(s) <= Cardinality(S)
  BY FS_Subset
<1>2. Cardinality(s) \in Nat /\ (Cardinality(s) = 0 => s = {})
  BY <1>1, FS_CardinalityType, FS_EmptySet
<1>3. s # {} => Pick(s) \in s
  BY DEF Pick
<1>4. IsFiniteSet(s \ {Pick(s)}) /\ Cardinality(s \ {Pick(s)}) \in Nat
  BY <1>1, FS_RemoveElement, FS_CardinalityType
<1>5. s # {} => Cardinality(s \ {Pick(s)}) = Cardinality(s) - 1
  BY <1>1, <1>3, FS_RemoveElement
<1> QED  BY <1>1, <1>2, <1>3, <1>4, <1>5

\* Right for the subsets of up to n elements.
RightUpTo(g, w, S, n) ==
  \A s \in SUBSET S : Cardinality(s) <= n => g[s] = Unfolded(g, w, S)[s]

\* There is a sum: unfolding extends one that is right up to n elements by another element.
LEMMA SumExists ==
  ASSUME NEW S, IsFiniteSet(S), NEW w
  PROVE  \E g : IsSum(g, w, S)
<1> DEFINE G == {n \in Nat : \E g : RightUpTo(g, w, S, n)}
<1>1. 0 \in G
  <2> DEFINE g == [s \in SUBSET S |-> 0]
  <2>1. ASSUME NEW s \in SUBSET S, Cardinality(s) <= 0 PROVE s = {}
    <3>1. Cardinality(s) \in Nat /\ (Cardinality(s) = 0 => s = {})
      BY PickFacts
    <3> QED  BY <2>1, <3>1
  <2>2. g[{}] = Unfolded(g, w, S)[{}]
    BY DEF Unfolded
  <2>3. RightUpTo(g, w, S, 0)
    BY <2>1, <2>2 DEF RightUpTo
  <2> QED  BY <2>3
<1>2. ASSUME NEW n \in Nat, n \in G
      PROVE  n + 1 \in G
  <2>1. PICK g : RightUpTo(g, w, S, n)
    BY <1>2
  <2> DEFINE h == Unfolded(g, w, S)
  <2>2. ASSUME NEW s \in SUBSET S, Cardinality(s) <= n + 1
        PROVE  h[s] = Unfolded(h, w, S)[s]
    <3>1. CASE s = {}
      BY <3>1 DEF Unfolded
    <3>2. CASE s # {}
      <4>0. /\ s \ {Pick(s)} \in SUBSET S /\ Cardinality(s \ {Pick(s)}) \in Nat
            /\ Cardinality(s) = Cardinality(s \ {Pick(s)}) + 1
        BY <3>2, PickFacts
      <4>1. Cardinality(s \ {Pick(s)}) <= n
        BY <2>2, <4>0
      <4>2. h[s \ {Pick(s)}] = g[s \ {Pick(s)}]
        BY <2>1, <4>0, <4>1 DEF RightUpTo
      <4>3. h[s] = w[Pick(s)] + g[s \ {Pick(s)}]
        BY <3>2 DEF Unfolded
      <4>4. Unfolded(h, w, S)[s] = w[Pick(s)] + h[s \ {Pick(s)}]
        BY <3>2 DEF Unfolded
      <4> QED  BY <4>2, <4>3, <4>4
    <3> QED  BY <3>1, <3>2
  <2>3. RightUpTo(h, w, S, n + 1)
    BY <2>2 DEF RightUpTo
  <2> QED  BY <2>3
<1>3. Cardinality(S) \in G
  <2> HIDE DEF G
  <2>1. Nat \subseteq G
    BY <1>1, <1>2, NatSetInduction
  <2>2. Cardinality(S) \in Nat
    BY FS_CardinalityType
  <2> QED  BY <2>1, <2>2
<1>4. PICK g : RightUpTo(g, w, S, Cardinality(S))
  BY <1>3
<1> DEFINE h == Unfolded(g, w, S)
<1>5. \A s \in SUBSET S : g[s] = h[s]
  BY <1>4, PickFacts DEF RightUpTo
<1>6. \A s \in SUBSET S : s # {} => h[s \ {Pick(s)}] = g[s \ {Pick(s)}]
  BY <1>5, PickFacts
<1>7. \A s \in SUBSET S : h[s] = Unfolded(h, w, S)[s]
  BY <1>6 DEF Unfolded
<1>8. /\ h = [s \in SUBSET S |-> h[s]]
      /\ Unfolded(h, w, S) = [s \in SUBSET S |-> Unfolded(h, w, S)[s]]
  BY DEF Unfolded
<1>9. IsSum(h, w, S)
  BY <1>7, <1>8 DEF IsSum
<1> QED  BY <1>9

\* The library's sum over S is that of a sum at S.
LEMMA SumIsSum ==
  ASSUME NEW S, IsFiniteSet(S), NEW w
  PROVE  \E g : IsSum(g, w, S) /\ Price!SumFunctionOnSet(w, S) = g[S]
<1> DEFINE g == CHOOSE g : IsSum(g, w, S)
<1>1. IsSum(g, w, S)
  BY SumExists
<1>2. Price!SumFunctionOnSet(w, S) = g[S]
  BY DEF Price!SumFunctionOnSet, Price!FoldFunctionOnSet, Price!MapThenFoldSet, IsSum, Unfolded, Pick
<1> QED  BY <1>1, <1>2

LEMMA SumUnfolds ==
  ASSUME NEW S, NEW w, NEW g, IsSum(g, w, S)
  PROVE  /\ g[{}] = 0
         /\ \A s \in SUBSET S : s # {} =>
              /\ Pick(s) \in s /\ s \ {Pick(s)} \in SUBSET S
              /\ g[s] = w[Pick(s)] + g[s \ {Pick(s)}]
<1> DEFINE u == Unfolded(g, w, S)
<1>1. g = u
  BY DEF IsSum
<1>2. u[{}] = 0
  BY DEF Unfolded
<1>3. \A s \in SUBSET S : s # {} => u[s] = w[Pick(s)] + g[s \ {Pick(s)}]
  BY DEF Unfolded
<1>4. \A s \in SUBSET S : s # {} => Pick(s) \in s
  BY DEF Pick
<1> HIDE DEF u
<1> QED  BY <1>1, <1>2, <1>3, <1>4

\* A sum of amounts is an amount.
LEMMA SumType ==
  ASSUME NEW S, IsFiniteSet(S), NEW w, NEW T \in {Nat, Int}, \A x \in S : w[x] \in T
  PROVE  Price!SumFunctionOnSet(w, S) \in T
<1>1. PICK g : IsSum(g, w, S) /\ Price!SumFunctionOnSet(w, S) = g[S]
  BY SumIsSum
<1> DEFINE G == {s \in SUBSET S : g[s] \in T}
<1>2. {} \in G
  BY <1>1, SumUnfolds
<1>3. ASSUME NEW s \in SUBSET S, s # {}, s \ {Pick(s)} \in G
      PROVE  s \in G
  <2>1. g[s] = w[Pick(s)] + g[s \ {Pick(s)}] /\ Pick(s) \in s
    BY <1>1, <1>3, SumUnfolds
  <2>2. w[Pick(s)] \in T /\ g[s \ {Pick(s)}] \in T
    BY <1>3, <2>1
  <2> QED  BY <2>1, <2>2
<1>4. S \in G
  <2>1. G \in SUBSET (SUBSET S)
    OBVIOUS
  <2> HIDE DEF G
  <2> QED  BY <1>2, <1>3, <2>1, SubsetInduction
<1> QED  BY <1>1, <1>4

\* A sum of multiples is a multiple.
LEMMA SumMultiple ==
  ASSUME NEW S, IsFiniteSet(S), NEW w, NEW d \in Int, \A x \in S : \E k \in Int : w[x] = k * d
  PROVE  \E k \in Int : Price!SumFunctionOnSet(w, S) = k * d
<1>1. PICK g : IsSum(g, w, S) /\ Price!SumFunctionOnSet(w, S) = g[S]
  BY SumIsSum
<1> DEFINE G == {s \in SUBSET S : \E k \in Int : g[s] = k * d}
<1>2. {} \in G
  <2>1. g[{}] = 0 * d
    BY <1>1, SumUnfolds
  <2> QED  BY <2>1
<1>3. ASSUME NEW s \in SUBSET S, s # {}, s \ {Pick(s)} \in G
      PROVE  s \in G
  <2>1. g[s] = w[Pick(s)] + g[s \ {Pick(s)}] /\ Pick(s) \in s
    BY <1>1, <1>3, SumUnfolds
  <2>2. PICK k \in Int : w[Pick(s)] = k * d
    BY <2>1
  <2>3. PICK l \in Int : g[s \ {Pick(s)}] = l * d
    BY <1>3
  <2>4. k + l \in Int /\ k * d + l * d = (k + l) * d
    OBVIOUS
  <2> QED  BY <2>1, <2>2, <2>3, <2>4
<1>4. S \in G
  <2>1. G \in SUBSET (SUBSET S)
    OBVIOUS
  <2> HIDE DEF G
  <2> QED  BY <1>2, <1>3, <2>1, SubsetInduction
<1> QED  BY <1>1, <1>4

LEMMA Distributes == \A a, b, c \in Int : a * (b + c) = a * b + a * c
  OBVIOUS

\* Amounts that are near a percentage of x and a fixed part, one by one, are so together.
LEMMA SumNear ==
  ASSUME NEW S, IsFiniteSet(S), NEW a, NEW p, NEW f, NEW x \in Int, NEW k \in Int,
         \A t \in S : /\ a[t] \in Int /\ p[t] \in Int /\ f[t] \in Int
                      /\ 100 * a[t] - x * p[t] - 100 * f[t] \in -k..k
  PROVE  100 * Price!SumFunctionOnSet(a, S) - x * Price!SumFunctionOnSet(p, S)
           - 100 * Price!SumFunctionOnSet(f, S) \in -(k * Cardinality(S))..(k * Cardinality(S))
<1>1. PICK ga : IsSum(ga, a, S) /\ Price!SumFunctionOnSet(a, S) = ga[S]
  BY SumIsSum
<1>2. PICK gp : IsSum(gp, p, S) /\ Price!SumFunctionOnSet(p, S) = gp[S]
  BY SumIsSum
<1>3. PICK gf : IsSum(gf, f, S) /\ Price!SumFunctionOnSet(f, S) = gf[S]
  BY SumIsSum
<1> DEFINE Off(s) == 100 * ga[s] - x * gp[s] - 100 * gf[s]
           G == {s \in SUBSET S : /\ ga[s] \in Int /\ gp[s] \in Int /\ gf[s] \in Int
                                  /\ Off(s) \in -(k * Cardinality(s))..(k * Cardinality(s))}
<1>4. {} \in G
  <2>1. ga[{}] = 0 /\ gp[{}] = 0 /\ gf[{}] = 0
    BY <1>1, <1>2, <1>3, SumUnfolds
  <2>2. Cardinality({}) = 0
    BY FS_EmptySet
  <2>3. k * 0 = 0 /\ x * 0 = 0
    OBVIOUS
  <2>4. Off({}) \in -(k * Cardinality({}))..(k * Cardinality({}))
    BY <2>1, <2>2, <2>3
  <2> QED  BY <2>1, <2>4
<1>5. ASSUME NEW s \in SUBSET S, s # {}, s \ {Pick(s)} \in G
      PROVE  s \in G
  <2> DEFINE t == Pick(s)
             r == s \ {Pick(s)}
             m == Cardinality(r)
  <2>1. /\ ga[s] = a[t] + ga[r] /\ gp[s] = p[t] + gp[r] /\ gf[s] = f[t] + gf[r]
        /\ t \in S
    BY <1>1, <1>2, <1>3, <1>5, SumUnfolds
  <2>2. m \in Nat /\ Cardinality(s) = m + 1
    BY <1>5, PickFacts
  <2>3. /\ a[t] \in Int /\ p[t] \in Int /\ f[t] \in Int
        /\ 100 * a[t] - x * p[t] - 100 * f[t] \in -k..k
        /\ ga[r] \in Int /\ gp[r] \in Int /\ gf[r] \in Int
        /\ 100 * ga[r] - x * gp[r] - 100 * gf[r] \in -(k * m)..(k * m)
    BY <1>5, <2>1
  <2> HIDE DEF t, r, m
  <2>4. x * (p[t] + gp[r]) = x * p[t] + x * gp[r]
    BY <2>3, Distributes
  <2>5. k * (m + 1) = k * m + k * 1
    BY <2>2, Distributes
  <2>6. /\ ga[s] \in Int /\ gp[s] \in Int /\ gf[s] \in Int
        /\ Off(s) = (100 * a[t] - x * p[t] - 100 * f[t])
                      + (100 * ga[r] - x * gp[r] - 100 * gf[r])
    BY <2>1, <2>3, <2>4
  <2>7. Off(s) \in -(k * Cardinality(s))..(k * Cardinality(s))
    BY <2>2, <2>3, <2>5, <2>6
  <2> QED  BY <2>6, <2>7
<1>6. S \in G
  <2>1. G \in SUBSET (SUBSET S)
    OBVIOUS
  <2> HIDE DEF G
  <2> QED  BY <1>4, <1>5, <2>1, SubsetInduction
<1> QED  BY <1>1, <1>2, <1>3, <1>6

-----------------------------------------------------------------------------
(* The price.                                                               *)

\* The sum of the taxes as a function of the rounding.
RoundedAt(g, ties, n, d) ==
  LET step == d * g
      q == n \div step
      twice == 2 * (n - q * step)
  IN IF twice > step \/ (twice = step /\ q % 2 \in ties) THEN (q + 1) * g ELSE q * g
TaxesAt(g, ties, x) ==
  RoundedAt(g, ties, Price!SumFunction(
    [t \in Taxes |-> IF t.type = "percent" THEN RoundedAt(g, ties, x * t.value, 100)
                     ELSE RoundedAt(g, ties, t.value, 1)]), 1)

LEMMA TaxesOfRounding == \A x : Price!CalculateTotalTaxAmount(x) = TaxesAt(grain, tiesUp, x)
BY DEF Price!CalculateTotalTaxAmount, Price!TaxAmount, Price!Rounded, TaxesAt, RoundedAt

\* The service and the rounding do not change, so neither does the quote for given inputs.
LEMMA QuoteStays ==
  ASSUME UNCHANGED <<service, grain, tiesUp>>
  PROVE  (Price!FinalCalculations(itemCount, appliedCouponData, addons))'
           = Price!FinalCalculations(itemCount', appliedCouponData', addons')
<1>1. \A x : (Price!CalculateTotalTaxAmount(x))' = Price!CalculateTotalTaxAmount(x)
  <2>1. (\A x : Price!CalculateTotalTaxAmount(x) = TaxesAt(grain, tiesUp, x))'
    BY TaxesOfRounding, PTL
  <2>2. \A x : (Price!CalculateTotalTaxAmount(x))' = TaxesAt(grain', tiesUp', x)
    BY <2>1
  <2> QED  BY <2>2, TaxesOfRounding
<1>2. \A n, d : (Price!Rounded(n, d))' = Price!Rounded(n, d)
  BY DEF Price!Rounded
<1>3. \A n : (Price!TotalServicePrice(n))' = Price!TotalServicePrice(n)
  BY <1>2 DEF Price!TotalServicePrice
<1>4. \A n : (Price!DiscountAmount(n))' = Price!DiscountAmount(n)
  BY <1>2 DEF Price!DiscountAmount
<1>5. \A c, n : (Price!CalculateCouponDiscount(c, n))' = Price!CalculateCouponDiscount(c, n)
  BY <1>2 DEF Price!CalculateCouponDiscount
<1> QED  BY <1>1, <1>2, <1>3, <1>4, <1>5 DEF Price!FinalCalculations

\* What Rounded is of n/d: the multiple of the grain below it, or the next one, whichever is
\* nearer.
LEMMA RoundCases ==
  ASSUME grain \in {1, 10, 100}, NEW n \in Int, NEW d \in {1, 100}
  PROVE  LET step == d * grain
             q == n \div step
             r == n - q * step
         IN  /\ q \in Int /\ r \in Int /\ 0 <= r /\ r < step /\ n = q * step + r
             /\ \/ Price!Rounded(n, d) = q * grain /\ 2 * r <= step
                \/ Price!Rounded(n, d) = (q + 1) * grain /\ 2 * r >= step
<1> DEFINE step == d * grain
           q == n \div step
           r == n - q * step
<1>1. step \in {1, 10, 100, 1000, 10000}
  OBVIOUS
<1>2. q \in Int /\ r \in Int /\ 0 <= r /\ r < step /\ n = q * step + r
  <2> HIDE DEF step
  <2> QED  BY <1>1
<1>3. \/ Price!Rounded(n, d) = q * grain /\ ~(2 * r > step)
      \/ Price!Rounded(n, d) = (q + 1) * grain /\ (2 * r > step \/ 2 * r = step)
  BY DEF Price!Rounded
<1>4. step \in Int
  BY <1>1
<1> HIDE DEF step, q, r
<1>5. /\ ~(2 * r > step) => 2 * r <= step
      /\ 2 * r > step \/ 2 * r = step => 2 * r >= step
  BY <1>2, <1>4
<1>6. \/ Price!Rounded(n, d) = q * grain /\ 2 * r <= step
      \/ Price!Rounded(n, d) = (q + 1) * grain /\ 2 * r >= step
  BY <1>3, <1>5
<1> QED  BY <1>2, <1>6 DEF step, q, r

\* A rounded amount is a whole number of the smallest amount shown, at most half of it away,
\* and not negative if what is rounded is not.
LEMMA RoundFacts ==
  ASSUME grain \in {1, 10, 100}, NEW n \in Int, NEW d \in {1, 100}
  PROVE  /\ Price!Rounded(n, d) \in Int
         /\ \E k \in Int : Price!Rounded(n, d) = k * grain
         /\ n >= 0 => Price!Rounded(n, d) >= 0
         /\ 2 * (d * Price!Rounded(n, d) - n) \in -(d * grain)..(d * grain)
<1> DEFINE step == d * grain
           q == n \div step
           r == n - q * step
           R == Price!Rounded(n, d)
<1>1. /\ q \in Int /\ r \in Int /\ 0 <= r /\ r < step /\ n = q * step + r
      /\ \/ R = q * grain /\ 2 * r <= step
         \/ R = (q + 1) * grain /\ 2 * r >= step
  BY RoundCases, ZenonT(60)
<1>2. step \in {1, 10, 100, 1000, 10000}
  OBVIOUS
<1> HIDE DEF q, r, R
<1>3. R \in Int /\ \E k \in Int : R = k * grain
  <2>1. R \in Int
    BY <1>1
  <2>2. q + 1 \in Int /\ q \in Int
    BY <1>1
  <2>3. \E k \in Int : R = k * grain
    BY <1>1, <2>2, Zenon
  <2> QED  BY <2>1, <2>3
<1>4. n >= 0 => q >= 0
  BY <1>1, <1>2
<1>5. n >= 0 => R >= 0
  BY <1>1, <1>4
<1>6. \/ d * R = q * step /\ 2 * r <= step
      \/ d * R = (q + 1) * step /\ 2 * r >= step
  BY <1>1
<1>7. d * R \in Int
  BY <1>3
<1> HIDE DEF step
<1>8. (q + 1) * step = q * step + step
  BY <1>1, <1>2
<1>9. \/ d * R - n = -r /\ 2 * r <= step
      \/ d * R - n = step - r /\ 2 * r >= step
  BY <1>1, <1>2, <1>6, <1>7, <1>8
<1>10. 2 * (d * R - n) \in -step..step
  BY <1>1, <1>2, <1>7, <1>9
<1> QED  BY <1>3, <1>5, <1>10 DEF R, step

\* An amount that is a whole number of the smallest one shown stays as it is.
LEMMA RoundExact ==
  ASSUME grain \in {1, 10, 100}, NEW k \in Int
  PROVE  Price!Rounded(k * grain, 1) = k * grain
<1> DEFINE n == k * grain
           R == Price!Rounded(n, 1)
<1>1. n \in Int
  OBVIOUS
<1>2. /\ R \in Int /\ \E l \in Int : R = l * grain
      /\ 2 * (1 * R - n) \in -(1 * grain)..(1 * grain)
  <2> HIDE DEF n
  <2> QED  BY <1>1, RoundFacts
<1> HIDE DEF R
<1>3. PICK l \in Int : R = l * grain
  BY <1>2
<1>4. 2 * (l * grain - k * grain) \in -grain..grain
  BY <1>2, <1>3
<1>5. l = k
  BY <1>4
<1> QED  BY <1>3, <1>5 DEF R

\* A percentage of a price, rounded, is not more than the price.
LEMMA DiscountFits ==
  ASSUME grain \in {1, 10, 100}, NEW k \in Int, NEW n \in Nat, n <= 100 * (k * grain)
  PROVE  Price!Rounded(n, 100) <= k * grain
<1>1. n \in Int
  OBVIOUS
<1> DEFINE R == Price!Rounded(n, 100)
<1>2. /\ R \in Int /\ \E l \in Int : R = l * grain
      /\ 2 * (100 * R - n) \in -(100 * grain)..(100 * grain)
  BY <1>1, RoundFacts, ZenonT(60)
<1> HIDE DEF R
<1>3. PICK l \in Int : R = l * grain
  BY <1>2
<1>4. l <= k
  BY <1>2, <1>3
<1> QED  BY <1>3, <1>4 DEF R

\* What a coupon takes off, in percent and as an amount; the exact price; the share of the
\* taxes in percent and as an amount.
PercentOf(c) == IF c = NoCoupon \/ c.type = "fixed" THEN 0 ELSE c.discount
FixedOf(c) == IF c # NoCoupon /\ c.type = "fixed" THEN c.discount ELSE 0
ExactPrice(q) == IF service.package # NoPackage THEN service.package ELSE service.price * q
ServiceOff == IF service.package # NoPackage THEN 0 ELSE service.discount

\* The prices, as far as PricesAssumption goes.
LEMMA Inputs ==
  ASSUME service \in Services, grain \in Grains, NEW q \in Nat,
         NEW c \in Coupons \cup {NoCoupon}, NEW ad \in SUBSET DOMAIN AddonPrices
  PROVE  /\ grain \in {1, 10, 100}
         /\ ExactPrice(q) \in Nat /\ ServiceOff \in 0..100
         /\ PercentOf(c) \in 0..100 /\ FixedOf(c) \in Nat
         /\ Price!SumFunctionOnSet(AddonPrices, ad) \in Nat
<1>1. /\ grain \in {1, 10, 100}
      /\ service.price \in Nat /\ service.discount \in 0..100
      /\ service.package # NoPackage => service.package \in Nat
  BY PricesAssumption
<1>2. ExactPrice(q) \in Nat
  <2>1. service.price * q \in Nat
    BY <1>1
  <2> QED  BY <1>1, <2>1 DEF ExactPrice
<1>3. ServiceOff \in 0..100
  BY <1>1 DEF ServiceOff
<1>4. c # NoCoupon => c.discount \in Nat /\ (c.type # "fixed" => c.discount <= 100)
  BY PricesAssumption
<1>5. PercentOf(c) \in 0..100 /\ FixedOf(c) \in Nat
  BY <1>4 DEF PercentOf, FixedOf
<1>6. IsFiniteSet(ad) /\ \A x \in ad : AddonPrices[x] \in Nat
  BY PricesAssumption, FS_Subset
<1>7. Price!SumFunctionOnSet(AddonPrices, ad) \in Nat
  BY <1>6, SumType
<1> QED  BY <1>1, <1>2, <1>3, <1>5, <1>7

\* The amounts of a calculation up to the subtotal, each with what it is a rounding of.
LEMMA SubTotalFacts ==
  ASSUME service \in Services, grain \in Grains, NEW q \in Nat,
         NEW c \in Coupons \cup {NoCoupon}, NEW ad \in SUBSET DOMAIN AddonPrices
  PROVE  LET m == Price!FinalCalculations(q, c, ad)
             left == m.total - m.discount - m.coupon + Price!SumFunctionOnSet(AddonPrices, ad)
         IN  /\ m.total \in Nat /\ m.discount \in Int /\ m.coupon \in Int
             /\ m.subTotal \in Int /\ (\E k \in Int : m.subTotal = k * grain)
             /\ c = NoCoupon => m.subTotal >= 0
             /\ 2 * (m.total - ExactPrice(q)) \in -grain..grain
             /\ 2 * (100 * m.discount - m.total * ServiceOff) \in -(100 * grain)..(100 * grain)
             /\ 2 * (100 * m.coupon - m.total * PercentOf(c) - 100 * FixedOf(c))
                  \in -(100 * grain)..(100 * grain)
             /\ 2 * (m.subTotal - left) \in -grain..grain
             /\ m.addonAmount = Price!SumFunctionOnSet(AddonPrices, ad) /\ left \in Int
             /\ left >= 0 => m.subTotal >= 0
<1> DEFINE total == Price!TotalServicePrice(q)
           discount == Price!DiscountAmount(total)
           coupon == Price!CalculateCouponDiscount(c, total)
           sum == Price!SumFunctionOnSet(AddonPrices, ad)
           left == total - discount - coupon + sum
           sub == Price!Rounded(left, 1)
           base == ExactPrice(q)
           off == ServiceOff
           pct == PercentOf(c)
           fix == FixedOf(c)
<1>1. /\ grain \in {1, 10, 100} /\ base \in Nat /\ off \in 0..100
      /\ pct \in 0..100 /\ fix \in Nat /\ sum \in Nat
  BY Inputs
<1>2. /\ Price!FinalCalculations(q, c, ad).total = total
      /\ Price!FinalCalculations(q, c, ad).discount = discount
      /\ Price!FinalCalculations(q, c, ad).coupon = coupon
      /\ Price!FinalCalculations(q, c, ad).subTotal = sub
      /\ Price!FinalCalculations(q, c, ad).addonAmount = sum
  BY DEF Price!FinalCalculations
<1>3. total = Price!Rounded(base, 1)
  BY DEF Price!TotalServicePrice, ExactPrice
<1>4. /\ discount = IF off # 0 THEN Price!Rounded(total * off, 100) ELSE 0
      /\ coupon = IF c = NoCoupon THEN 0
                  ELSE IF c.type = "fixed" THEN Price!Rounded(fix, 1)
                  ELSE Price!Rounded(total * pct, 100)
  BY DEF Price!DiscountAmount, ServiceOff, Price!CalculateCouponDiscount, PercentOf, FixedOf
<1>5. /\ c = NoCoupon => pct = 0 /\ fix = 0
      /\ c # NoCoupon /\ c.type = "fixed" => pct = 0
      /\ c # NoCoupon /\ c.type # "fixed" => fix = 0
  BY DEF PercentOf, FixedOf
<1> HIDE DEF total, discount, coupon, sum, sub, base, off, pct, fix
<1>6. /\ total \in Nat /\ (\E k \in Int : total = k * grain)
      /\ 2 * (total - base) \in -grain..grain
  <2>0. base \in Int
    BY <1>1
  <2>1. /\ total \in Int /\ (\E k \in Int : total = k * grain) /\ (base >= 0 => total >= 0)
        /\ 2 * (1 * total - base) \in -(1 * grain)..(1 * grain)
    BY <1>1, <1>3, <2>0, RoundFacts
  <2> QED  BY <1>1, <2>1
<1>7. /\ discount \in Int /\ discount <= total
      /\ 2 * (100 * discount - total * off) \in -(100 * grain)..(100 * grain)
  <2> DEFINE n == total * off
  <2>1. CASE off = 0
    <3>1. discount = 0 /\ n = 0
      BY <1>4, <1>6, <2>1
    <3> HIDE DEF n
    <3>2. discount \in Int /\ discount <= total /\ 2 * (100 * discount - n) = 0
      BY <1>6, <3>1
    <3> QED  BY <1>1, <3>2 DEF n
  <2>2. CASE off # 0
    <3>1. n \in Nat /\ n <= 100 * total
      <4>1. n \in Nat
        BY <1>1, <1>6
      <4>2. off \in Int /\ 100 - off >= 0
        BY <1>1
      <4>3. total * (100 - off) >= 0
        BY <1>6, <4>2
      <4>4. total * (100 - off) = 100 * total - n
        BY <1>6, <4>2
      <4> QED  BY <1>6, <4>1, <4>3, <4>4
    <3>2. discount = Price!Rounded(n, 100)
      BY <1>4, <2>2
    <3> HIDE DEF n
    <3>3. /\ Price!Rounded(n, 100) \in Int
          /\ 2 * (100 * Price!Rounded(n, 100) - n) \in -(100 * grain)..(100 * grain)
      BY <1>1, <3>1, RoundFacts
    <3>4. PICK k \in Int : total = k * grain
      BY <1>6
    <3>5. Price!Rounded(n, 100) <= k * grain
      BY <1>1, <3>1, <3>4, DiscountFits
    <3> QED  BY <3>2, <3>3, <3>4, <3>5 DEF n
  <2> QED  BY <2>1, <2>2
<1>8. /\ coupon \in Int /\ (c = NoCoupon => coupon = 0)
      /\ 2 * (100 * coupon - total * pct - 100 * fix) \in -(100 * grain)..(100 * grain)
  <2> DEFINE n == total * pct
  <2>0. n \in Int /\ (pct = 0 => n = 0)
    BY <1>1, <1>6
  <2> HIDE DEF n
  <2>1. CASE c = NoCoupon
    <3>1. coupon = 0 /\ pct = 0 /\ fix = 0
      BY <1>4, <1>5, <2>1
    <3>2. 2 * (100 * coupon - n - 100 * fix) = 0
      BY <2>0, <3>1
    <3> QED  BY <1>1, <3>1, <3>2 DEF n
  <2>2. CASE c # NoCoupon /\ c.type = "fixed"
    <3>1. coupon = Price!Rounded(fix, 1) /\ n = 0
      BY <1>4, <1>5, <2>0, <2>2
    <3>2. coupon \in Int /\ 2 * (1 * coupon - fix) \in -(1 * grain)..(1 * grain)
      BY <1>1, <3>1, RoundFacts
    <3>3. 2 * (100 * coupon - n - 100 * fix) \in -(100 * grain)..(100 * grain)
      BY <1>1, <3>1, <3>2
    <3> QED  BY <2>2, <3>2, <3>3 DEF n
  <2>3. CASE c # NoCoupon /\ c.type # "fixed"
    <3>1. coupon = Price!Rounded(n, 100) /\ fix = 0
      BY <1>4, <1>5, <2>3 DEF n
    <3>2. coupon \in Int /\ 2 * (100 * coupon - n) \in -(100 * grain)..(100 * grain)
      BY <1>1, <2>0, <3>1, RoundFacts
    <3>3. 2 * (100 * coupon - n - 100 * fix) \in -(100 * grain)..(100 * grain)
      BY <2>0, <3>1, <3>2
    <3> QED  BY <2>3, <3>2, <3>3 DEF n
  <2> QED  BY <2>1, <2>2, <2>3
<1>9. left \in Int /\ (c = NoCoupon => left >= 0)
  BY <1>1, <1>6, <1>7, <1>8
<1>10. /\ sub \in Int /\ (\E k \in Int : sub = k * grain) /\ (left >= 0 => sub >= 0)
       /\ 2 * (1 * sub - left) \in -(1 * grain)..(1 * grain)
  <2> HIDE DEF left
  <2> QED  BY <1>1, <1>9, RoundFacts DEF sub
<1>11. 2 * (sub - left) \in -grain..grain /\ (c = NoCoupon => sub >= 0)
  <2> HIDE DEF left
  <2> QED  BY <1>1, <1>9, <1>10
<1> QED
  BY <1>2, <1>6, <1>7, <1>8, <1>9, <1>10, <1>11 DEF sum, base, off, pct, fix

\* The taxes, and the total: rounding the sum of the taxes and the total changes nothing.
LEMMA TaxFacts ==
  ASSUME service \in Services, grain \in Grains, NEW q \in Nat,
         NEW c \in Coupons \cup {NoCoupon}, NEW ad \in SUBSET DOMAIN AddonPrices
  PROVE  LET m == Price!FinalCalculations(q, c, ad)
             k == 50 * grain
         IN  /\ m.tax \in Int /\ m.grandTotal = m.subTotal + m.tax
             /\ Price!PercentTaxes \in Nat /\ Price!FixedTaxes \in Nat
             /\ Cardinality(Taxes) \in Nat
             /\ 100 * m.tax - m.subTotal * Price!PercentTaxes - 100 * Price!FixedTaxes
                  \in -(k * Cardinality(Taxes))..(k * Cardinality(Taxes))
<1> DEFINE x == Price!FinalCalculations(q, c, ad).subTotal
           a == [t \in Taxes |-> Price!TaxAmount(t, x)]
           p == [t \in Taxes |-> IF t.type = "percent" THEN t.value ELSE 0]
           f == [t \in Taxes |-> IF t.type = "percent" THEN 0 ELSE t.value]
           sum == Price!SumFunctionOnSet(a, Taxes)
           k == 50 * grain
<1>1. /\ Price!PercentTaxes = Price!SumFunctionOnSet(p, Taxes)
      /\ Price!FixedTaxes = Price!SumFunctionOnSet(f, Taxes)
      /\ Price!FinalCalculations(q, c, ad).tax = Price!Rounded(sum, 1)
      /\ Price!FinalCalculations(q, c, ad).grandTotal
           = Price!Rounded(x + Price!FinalCalculations(q, c, ad).tax, 1)
  BY DEF Price!PercentTaxes, Price!FixedTaxes, Price!SumFunction, Price!FinalCalculations,
         Price!CalculateTotalTaxAmount
<1>2. x \in Int /\ \E l \in Int : x = l * grain
  BY SubTotalFacts
<1>3. grain \in {1, 10, 100} /\ IsFiniteSet(Taxes) /\ \A t \in Taxes : t.value \in Nat
  BY PricesAssumption
<1>4. k \in Int /\ Cardinality(Taxes) \in Nat
  BY <1>3, FS_CardinalityType
<1> HIDE DEF x
<1>5. ASSUME NEW t \in Taxes
      PROVE  /\ a[t] \in Int /\ (\E l \in Int : a[t] = l * grain)
             /\ p[t] \in Nat /\ f[t] \in Nat
             /\ 100 * a[t] - x * p[t] - 100 * f[t] \in -k..k
  <2>1. t.value \in Nat /\ t.value \in Int
    BY <1>3
  <2>2. CASE t.type = "percent"
    <3> DEFINE n == x * t.value
    <3>1. n \in Int
      BY <1>2, <2>1
    <3>2. a[t] = Price!Rounded(n, 100) /\ x * p[t] = n /\ p[t] = t.value /\ f[t] = 0
      BY <2>2 DEF Price!TaxAmount
    <3> HIDE DEF n, a, p, f
    <3>3. /\ a[t] \in Int /\ (\E l \in Int : a[t] = l * grain)
          /\ 2 * (100 * a[t] - n) \in -(100 * grain)..(100 * grain)
      <4> DEFINE R == Price!Rounded(n, 100)
      <4>1. /\ R \in Int /\ (\E l \in Int : R = l * grain)
            /\ 2 * (100 * R - n) \in -(100 * grain)..(100 * grain)
        BY <1>3, <3>1, RoundFacts, ZenonT(60)
      <4>2. a[t] = R
        BY <3>2
      <4> HIDE DEF R
      <4> QED  BY <4>1, <4>2
    <3>4. 100 * a[t] - n - 100 * f[t] \in -k..k
      BY <1>3, <3>1, <3>2, <3>3
    <3> QED  BY <2>1, <3>2, <3>3, <3>4
  <2>3. CASE t.type # "percent"
    <3>1. a[t] = Price!Rounded(t.value, 1) /\ p[t] = 0 /\ f[t] = t.value
      BY <2>3 DEF Price!TaxAmount
    <3> HIDE DEF a, p, f
    <3>2. /\ a[t] \in Int /\ (\E l \in Int : a[t] = l * grain)
          /\ 2 * (1 * a[t] - t.value) \in -(1 * grain)..(1 * grain)
      <4> DEFINE n == t.value
                 R == Price!Rounded(n, 1)
      <4>1. n \in Int
        BY <2>1
      <4> HIDE DEF n
      <4>2. /\ R \in Int /\ (\E l \in Int : R = l * grain)
            /\ 2 * (1 * R - n) \in -(1 * grain)..(1 * grain)
        BY <1>3, <4>1, RoundFacts
      <4>3. a[t] = R
        BY <3>1 DEF n
      <4> HIDE DEF R
      <4> QED  BY <4>2, <4>3 DEF n
    <3>3. x * p[t] = 0
      BY <1>2, <3>1
    <3>4. 100 * a[t] - x * p[t] - 100 * f[t] \in -k..k
      BY <1>3, <2>1, <3>1, <3>2, <3>3
    <3> QED  BY <2>1, <3>1, <3>2, <3>4
  <2> QED  BY <2>2, <2>3
<1> HIDE DEF a, p, f, sum
<1>6. sum \in Int /\ \E l \in Int : sum = l * grain
  <2>1. \A t \in Taxes : a[t] \in Int
    BY <1>5
  <2>2. \A t \in Taxes : \E l \in Int : a[t] = l * grain
    BY <1>5
  <2>3. Int \in {Nat, Int} /\ grain \in Int
    BY <1>3
  <2>4. sum \in Int
    BY <1>3, <2>1, <2>3, SumType DEF sum
  <2>5. \E l \in Int : Price!SumFunctionOnSet(a, Taxes) = l * grain
    <3>1. ASSUME NEW d \in Int, d = grain
          PROVE  \E l \in Int : Price!SumFunctionOnSet(a, Taxes) = l * d
      <4>1. IsFiniteSet(Taxes) /\ \A t \in Taxes : \E l \in Int : a[t] = l * d
        BY <1>3, <2>2, <3>1
      <4> QED  BY <4>1, SumMultiple, Zenon
    <3> QED  BY <2>3, <3>1
  <2> QED  BY <2>4, <2>5 DEF sum
<1>7. Price!PercentTaxes \in Nat /\ Price!FixedTaxes \in Nat
  BY <1>1, <1>3, <1>5, SumType
<1>8. 100 * sum - x * Price!PercentTaxes - 100 * Price!FixedTaxes
        \in -(k * Cardinality(Taxes))..(k * Cardinality(Taxes))
  <2> HIDE DEF k
  <2>1. \A t \in Taxes : /\ a[t] \in Int /\ p[t] \in Int /\ f[t] \in Int
                         /\ 100 * a[t] - x * p[t] - 100 * f[t] \in -k..k
    BY <1>5
  <2>2. 100 * Price!SumFunctionOnSet(a, Taxes) - x * Price!SumFunctionOnSet(p, Taxes)
          - 100 * Price!SumFunctionOnSet(f, Taxes)
          \in -(k * Cardinality(Taxes))..(k * Cardinality(Taxes))
    BY <1>2, <1>3, <1>4, <2>1, SumNear, ZenonT(60)
  <2> QED  BY <1>1, <2>2 DEF sum
<1>9. Price!FinalCalculations(q, c, ad).tax = sum
  BY <1>1, <1>3, <1>6, RoundExact
<1>10. Price!FinalCalculations(q, c, ad).grandTotal = x + sum
  <2>1. PICK l \in Int : x = l * grain
    BY <1>2
  <2>2. PICK n \in Int : sum = n * grain
    BY <1>6
  <2>3. x + sum = (l + n) * grain /\ l + n \in Int
    BY <1>3, <2>1, <2>2
  <2> QED  BY <1>1, <1>3, <1>9, <2>3, RoundExact
<1> QED  BY <1>4, <1>6, <1>7, <1>8, <1>9, <1>10 DEF x

\* A product of two bounded numbers.
LEMMA ProductBound ==
  ASSUME NEW x \in Int, NEW y \in Int, NEW a \in Int, NEW b \in Int, x \in -a..a, y \in -b..b
  PROVE  x * y \in -(a * b)..(a * b)
<1>1. /\ (a - x) * (b + y) >= 0 /\ (a + x) * (b - y) >= 0
      /\ (a - x) * (b - y) >= 0 /\ (a + x) * (b + y) >= 0
  <2>1. /\ a - x \in Nat /\ a + x \in Nat /\ b - y \in Nat /\ b + y \in Nat
    OBVIOUS
  <2>2. \A m, n \in Nat : m * n >= 0
    OBVIOUS
  <2> QED  BY <2>1, <2>2
<1>2. /\ (a - x) * (b + y) = a * b + a * y - x * b - x * y
      /\ (a + x) * (b - y) = a * b - a * y + x * b - x * y
      /\ (a - x) * (b - y) = a * b - a * y - x * b + x * y
      /\ (a + x) * (b + y) = a * b + a * y + x * b + x * y
  OBVIOUS
<1> DEFINE ab == a * b
           ay == a * y
           xb == x * b
           xy == x * y
<1>3. ab \in Int /\ ay \in Int /\ xb \in Int /\ xy \in Int
  OBVIOUS
<1>4. /\ ab + ay - xb - xy >= 0 /\ ab - ay + xb - xy >= 0
      /\ ab - ay - xb + xy >= 0 /\ ab + ay + xb + xy >= 0
  BY <1>1, <1>2
<1> HIDE DEF ab, ay, xb, xy
<1>5. xy \in -ab..ab
  BY <1>3, <1>4
<1> QED  BY <1>5 DEF ab, xy

\* What each amount up to the subtotal is a rounding of.
Roundings(g, base, total, discount, coupon, extra, sub, off, pct, fix) ==
  /\ 2 * (total - base) \in -g..g
  /\ 2 * (100 * discount - total * off) \in -(100 * g)..(100 * g)
  /\ 2 * (100 * coupon - total * pct - 100 * fix) \in -(100 * g)..(100 * g)
  /\ 2 * (sub - (total - discount - coupon + extra)) \in -g..g
NearBy(g, base, extra, sub, off, pct, fix) ==
  100 * sub - (base * (100 - (off + pct)) - 100 * fix + 100 * extra) \in -(200 * g)..(200 * g)

\* The subtotal is off by at most two grains: half of one each for the price, the discount, the
\* coupon and the subtotal itself.  In hundredths.
LEMMA NearSubTotal ==
  ASSUME NEW g \in Nat, NEW base \in Int, NEW total \in Int, NEW discount \in Int,
         NEW coupon \in Int, NEW extra \in Int, NEW sub \in Int,
         NEW off \in 0..100, NEW pct \in 0..100, NEW fix \in Int,
         Roundings(g, base, total, discount, coupon, extra, sub, off, pct, fix)
  PROVE  NearBy(g, base, extra, sub, off, pct, fix)
<1> DEFINE d == 100 - (off + pct)
           e == total - base
           to == total * off
           tp == total * pct
           bd == base * d
           ed == (2 * e) * d
<1>0. /\ 2 * (total - base) \in -g..g
      /\ 2 * (100 * discount - total * off) \in -(100 * g)..(100 * g)
      /\ 2 * (100 * coupon - total * pct - 100 * fix) \in -(100 * g)..(100 * g)
      /\ 2 * (sub - (total - discount - coupon + extra)) \in -g..g
  BY DEF Roundings
<1>1. d \in Int /\ d \in -100..100 /\ e \in Int /\ 2 * e \in Int /\ 2 * e \in -g..g
  BY <1>0
<1>2. ed \in -(g * 100)..(g * 100)
  <2> HIDE DEF d, e
  <2>1. g \in Int /\ 100 \in Int
    OBVIOUS
  <2> QED  BY <1>1, <2>1, ProductBound
<1>3. ed = 2 * (100 * total - to - tp - bd)
  OBVIOUS
<1>4. to \in Int /\ tp \in Int /\ bd \in Int
  OBVIOUS
<1> HIDE DEF to, tp, bd, ed
<1>5. 2 * (100 * sub - (bd - 100 * fix + 100 * extra)) \in -(400 * g)..(400 * g)
  BY <1>0, <1>2, <1>3, <1>4 DEF to, tp
<1> QED  BY <1>4, <1>5 DEF bd, NearBy

\* The total is off by what the subtotal is, taxed, and by half a grain for every tax.
LEMMA NearTotal ==
  ASSUME NEW g \in Nat, NEW sub \in Int, NEW exact \in Int, NEW tax \in Int,
         NEW P \in Nat, NEW F \in Nat, NEW N \in Nat,
         100 * sub - exact \in -(200 * g)..(200 * g),
         100 * tax - sub * P - 100 * F \in -((50 * g) * N)..((50 * g) * N)
  PROVE  10000 * (sub + tax) - (exact * (100 + P) + 10000 * F)
           \in -(g * (200 * (100 + P) + 5000 * N))..(g * (200 * (100 + P) + 5000 * N))
<1> DEFINE x == 100 * sub - exact
           y == 100 + P
           xy == x * y
           gy == g * y
           gN == g * N
           sP == sub * P
           ey == exact * y
<1>1. x \in Int /\ y \in Int /\ y \in -y..y /\ x \in -(200 * g)..(200 * g) /\ 200 * g \in Int
  OBVIOUS
<1>2. xy \in -((200 * g) * y)..((200 * g) * y)
  <2> HIDE DEF x, y
  <2> QED  BY <1>1, ProductBound
<1>3. /\ (200 * g) * y = 200 * gy /\ (50 * g) * N = 50 * gN
      /\ g * (200 * (100 + P) + 5000 * N) = 200 * gy + 5000 * gN
  OBVIOUS
<1>4. xy = 10000 * sub + 100 * sP - ey
  OBVIOUS
<1>5. xy \in Int /\ gy \in Int /\ gN \in Int /\ sP \in Int /\ ey \in Int
  OBVIOUS
<1>6. 100 * tax - sP - 100 * F \in -(50 * gN)..(50 * gN)
  BY <1>3
<1>7. xy \in -(200 * gy)..(200 * gy)
  BY <1>2, <1>3
<1> HIDE DEF xy, gy, gN, sP, ey
<1>8. 10000 * (sub + tax) - (ey + 10000 * F) \in -(200 * gy + 5000 * gN)..(200 * gy + 5000 * gN)
  BY <1>4, <1>5, <1>6, <1>7
<1> QED  BY <1>3, <1>8 DEF ey

PriceTypeOK ==
  /\ service \in Services /\ grain \in Grains /\ itemCount \in Nat \ {0}
  /\ appliedCouponData \in Coupons \cup {NoCoupon}
  /\ addons \in SUBSET DOMAIN AddonPrices

PriceInv == PriceTypeOK /\ Price!QuoteOfPresentInputs

LEMMA PriceInit == Price!Init => PriceInv
<1> SUFFICES ASSUME Price!Init PROVE PriceInv
  OBVIOUS
<1>1. PriceTypeOK
  BY DEF Price!Init, PriceTypeOK
<1>2. bookingAmountModel = Price!FinalCalculations(itemCount, appliedCouponData, addons)
  BY DEF Price!Init
<1>3. appliedCouponData = NoCoupon
  BY DEF Price!Init
<1>4. bookingAmountModel.subTotal >= 0
  BY <1>1, <1>2, <1>3, SubTotalFacts DEF PriceTypeOK
<1> QED  BY <1>1, <1>2, <1>4 DEF PriceInv, Price!QuoteOfPresentInputs

\* setPrice, whatever it is called with: the coupon stays or is dropped, and the amounts are
\* those of what is left.
LEMMA SetPriceKeeps ==
  ASSUME PriceInv, NEW q \in Nat \ {0}, NEW c \in Coupons \cup {NoCoupon},
         NEW ad \in SUBSET DOMAIN AddonPrices, Price!SetPrice(q, c, ad)
  PROVE  PriceInv'
<1>1. itemCount' = q /\ addons' = ad /\ UNCHANGED <<service, grain, tiesUp>>
  BY DEF Price!SetPrice
<1>2. service \in Services /\ grain \in Grains
  BY DEF PriceInv, PriceTypeOK
<1> DEFINE m == Price!FinalCalculations(q, c, ad)
           bare == Price!FinalCalculations(q, NoCoupon, ad)
<1>3. \/ FALSE \in Price!IsNegative(m) /\ appliedCouponData' = c /\ bookingAmountModel' = m
      \/ appliedCouponData' = NoCoupon /\ bookingAmountModel' = bare
  BY DEF Price!SetPrice, Price!Priced
<1>4. m.subTotal \in Int /\ bare.subTotal \in Int /\ bare.subTotal >= 0
  BY <1>2, SubTotalFacts, ZenonT(60)
<1>5. FALSE \in Price!IsNegative(m) => m.subTotal >= 0
  <2> DEFINE left == m.total - m.discount - m.coupon + m.addonAmount
  <2>1. left \in Int /\ (left >= 0 => m.subTotal >= 0)
    BY <1>2, SubTotalFacts, ZenonT(60)
  <2> HIDE DEF m
  <2>2. FALSE \in Price!IsNegative(m) => left = 0 \/ ~(left < 0)
    BY ZenonT(60) DEF Price!IsNegative
  <2> HIDE DEF left
  <2> QED  BY <2>1, <2>2
<1>6. /\ appliedCouponData' \in {c, NoCoupon}
      /\ bookingAmountModel' = Price!FinalCalculations(itemCount', appliedCouponData', addons')
      /\ bookingAmountModel'.subTotal >= 0
  BY <1>1, <1>3, <1>4, <1>5
<1>7. bookingAmountModel' = (Price!FinalCalculations(itemCount, appliedCouponData, addons))'
  BY <1>1, <1>6, QuoteStays
<1>8. PriceTypeOK'
  BY <1>1, <1>2, <1>6 DEF PriceTypeOK
<1> QED  BY <1>6, <1>7, <1>8 DEF PriceInv, Price!QuoteOfPresentInputs

LEMMA PriceStep ==
  ASSUME PriceInv, [Price!Next]_Price!vars
  PROVE  PriceInv'
<1>1. /\ itemCount \in Nat \ {0} /\ appliedCouponData \in Coupons \cup {NoCoupon}
      /\ addons \in SUBSET DOMAIN AddonPrices
  BY DEF PriceInv, PriceTypeOK
<1>2. CASE Price!Increment
  BY <1>1, <1>2, SetPriceKeeps DEF Price!Increment
<1>3. CASE Price!Decrement
  <2> DEFINE q == IF itemCount # 1 THEN itemCount - 1 ELSE itemCount
  <2>1. q \in Nat \ {0}
    BY <1>1
  <2>2. Price!SetPrice(q, appliedCouponData, addons)
    BY <1>3 DEF Price!Decrement
  <2> HIDE DEF q
  <2> QED  BY <1>1, <2>1, <2>2, SetPriceKeeps
<1>4. CASE Price!RemoveCoupon
  BY <1>1, <1>4, SetPriceKeeps DEF Price!RemoveCoupon
<1>5. ASSUME NEW c \in Coupons, Price!ApplyCoupon(c)
      PROVE  PriceInv'
  BY <1>1, <1>5, SetPriceKeeps DEF Price!ApplyCoupon
<1>6. ASSUME NEW a \in DOMAIN AddonPrices, Price!RemoveAddon(a)
      PROVE  PriceInv'
  BY <1>1, <1>6, SetPriceKeeps DEF Price!RemoveAddon
<1>7. CASE UNCHANGED Price!vars
  <2>1. UNCHANGED <<service, grain, tiesUp, itemCount, appliedCouponData, addons, bookingAmountModel>>
    BY <1>7 DEF Price!vars
  <2>2. PriceTypeOK'
    BY <2>1 DEF PriceInv, PriceTypeOK
  <2>3. bookingAmountModel' = (Price!FinalCalculations(itemCount, appliedCouponData, addons))'
    BY <2>1, QuoteStays DEF PriceInv, Price!QuoteOfPresentInputs
  <2> QED  BY <2>1, <2>2, <2>3 DEF PriceInv, Price!QuoteOfPresentInputs
<1> QED
  BY <1>2, <1>3, <1>4, <1>5, <1>6, <1>7 DEF Price!Next

\* For any prices, percentages, coupons, add-ons and taxes, and any order of the handlers: the
\* amounts shown and sent are those of the quantity, coupon and add-ons shown, and the
\* subtotal is not negative, also after setPrice has dropped the coupon.
THEOREM QuoteIsPresent == Price!Spec => []QuoteOfPresentInputs
<1>1. PriceInv /\ [Price!Next]_Price!vars => PriceInv'
  BY PriceStep
<1>2. PriceInv => QuoteOfPresentInputs
  BY DEF PriceInv, QuoteOfPresentInputs
<1> QED
  BY <1>1, <1>2, PriceInit, PTL DEF Price!Spec

\* The exact subtotal, in hundredths, and ten thousand times the exact total, of any inputs.
ExactSub(q, c, ad) ==
  ExactPrice(q) * (100 - (ServiceOff + PercentOf(c))) - 100 * FixedOf(c)
    + 100 * Price!SumFunctionOnSet(AddonPrices, ad)
Exact(q, c, ad) == ExactSub(q, c, ad) * (100 + Price!PercentTaxes) + 10000 * Price!FixedTaxes

LEMMA ExactTotalIs == Price!ExactTotal = Exact(itemCount, appliedCouponData, addons)
<1>1. Price!PercentOff = ServiceOff + PercentOf(appliedCouponData)
  BY DEF Price!PercentOff, ServiceOff, PercentOf
<1>2. Price!FixedOff = FixedOf(appliedCouponData)
  BY DEF Price!FixedOff, FixedOf
<1> QED
  BY <1>1, <1>2 DEF Price!ExactTotal, Exact, ExactSub, ExactPrice

\* Whatever the inputs, the total is the exact one up to the roundings.
LEMMA NearExact ==
  ASSUME service \in Services, grain \in Grains, NEW q \in Nat,
         NEW c \in Coupons \cup {NoCoupon}, NEW ad \in SUBSET DOMAIN AddonPrices
  PROVE  /\ Price!FinalCalculations(q, c, ad).grandTotal \in Int
         /\ Exact(q, c, ad) \in Int /\ Price!Allowance \in Nat
         /\ 10000 * Price!FinalCalculations(q, c, ad).grandTotal - Exact(q, c, ad)
              \in -Price!Allowance..Price!Allowance
<1> DEFINE m == Price!FinalCalculations(q, c, ad)
           total == m.total
           discount == m.discount
           coupon == m.coupon
           sub == m.subTotal
           tax == m.tax
           base == ExactPrice(q)
           off == ServiceOff
           pct == PercentOf(c)
           fix == FixedOf(c)
           sum == Price!SumFunctionOnSet(AddonPrices, ad)
           exact == ExactSub(q, c, ad)
           P == Price!PercentTaxes
           F == Price!FixedTaxes
           N == Cardinality(Taxes)
<1>1. /\ grain \in {1, 10, 100} /\ base \in Nat /\ off \in 0..100
      /\ pct \in 0..100 /\ fix \in Nat /\ sum \in Nat
  BY Inputs
<1>2. /\ total \in Nat /\ discount \in Int /\ coupon \in Int /\ sub \in Int
      /\ 2 * (total - base) \in -grain..grain
      /\ 2 * (100 * discount - total * off) \in -(100 * grain)..(100 * grain)
      /\ 2 * (100 * coupon - total * pct - 100 * fix) \in -(100 * grain)..(100 * grain)
      /\ 2 * (sub - (total - discount - coupon + sum)) \in -grain..grain
  BY SubTotalFacts
<1>3. /\ tax \in Int /\ m.grandTotal = sub + tax /\ P \in Nat /\ F \in Nat /\ N \in Nat
      /\ 100 * tax - sub * P - 100 * F \in -((50 * grain) * N)..((50 * grain) * N)
  BY TaxFacts
<1>4. exact = base * (100 - (off + pct)) - 100 * fix + 100 * sum
  BY DEF ExactSub
<1>5. /\ Exact(q, c, ad) = exact * (100 + P) + 10000 * F
      /\ Price!Allowance = grain * (200 * (100 + P) + 5000 * N)
  <2>1. Exact(q, c, ad) = exact * (100 + P) + 10000 * F
    BY DEF Exact
  <2>2. Price!Allowance = grain * (200 * (100 + P) + 5000 * N)
    BY DEF Price!Allowance, Price!Cardinality, Cardinality
  <2> QED  BY <2>1, <2>2
<1> HIDE DEF m, total, discount, coupon, sub, tax, base, off, pct, fix, sum, exact, P, F, N
<1>6. grain \in Nat /\ base \in Int /\ total \in Int /\ fix \in Int /\ sum \in Int
  BY <1>1, <1>2
<1>7. 100 * sub - (base * (100 - (off + pct)) - 100 * fix + 100 * sum)
        \in -(200 * grain)..(200 * grain)
  <2>1. Roundings(grain, base, total, discount, coupon, sum, sub, off, pct, fix)
    BY <1>2 DEF Roundings
  <2>2. NearBy(grain, base, sum, sub, off, pct, fix)
    BY <1>1, <1>2, <1>6, <2>1, NearSubTotal
  <2> QED  BY <2>2 DEF NearBy
<1>8. exact \in Int
  <2>1. base * (100 - (off + pct)) \in Int
    BY <1>1, <1>6
  <2> QED  BY <1>4, <1>6, <2>1
<1>9. 100 * sub - exact \in -(200 * grain)..(200 * grain)
  BY <1>4, <1>7
<1>10. 10000 * (sub + tax) - (exact * (100 + P) + 10000 * F)
         \in -(grain * (200 * (100 + P) + 5000 * N))..(grain * (200 * (100 + P) + 5000 * N))
  BY <1>2, <1>3, <1>6, <1>8, <1>9, NearTotal
<1>11. exact * (100 + P) + 10000 * F \in Int /\ grain * (200 * (100 + P) + 5000 * N) \in Nat
  BY <1>3, <1>6, <1>8
<1>12. sub + tax \in Int
  BY <1>2, <1>3
<1> QED  BY <1>3, <1>5, <1>10, <1>11, <1>12 DEF m

\* For any prices, percentages, coupons, add-ons, taxes and number of decimals: the total
\* shown and sent is the exact one up to half a grain for each rounding that can matter.
THEOREM QuoteIsClose == Price!Spec => []QuoteIsNearExact
<1>1. PriceInv /\ [Price!Next]_Price!vars => PriceInv'
  BY PriceStep
<1>2. ASSUME PriceInv PROVE QuoteIsNearExact
  <2> DEFINE g == bookingAmountModel.grandTotal
             e == Price!ExactTotal
             w == Price!Allowance
  <2>1. /\ service \in Services /\ grain \in Grains /\ itemCount \in Nat
        /\ appliedCouponData \in Coupons \cup {NoCoupon} /\ addons \in SUBSET DOMAIN AddonPrices
    BY <1>2 DEF PriceInv, PriceTypeOK
  <2>2. bookingAmountModel = Price!FinalCalculations(itemCount, appliedCouponData, addons)
    BY <1>2 DEF PriceInv, Price!QuoteOfPresentInputs
  <2>3. g \in Int /\ e \in Int /\ w \in Nat /\ 10000 * g - e \in -w..w
    <3> DEFINE m == Price!FinalCalculations(itemCount, appliedCouponData, addons)
               x == Exact(itemCount, appliedCouponData, addons)
    <3>1. m.grandTotal \in Int /\ x \in Int /\ w \in Nat /\ 10000 * m.grandTotal - x \in -w..w
      BY <2>1, NearExact
    <3>2. g = m.grandTotal /\ e = x
      BY <2>2, ExactTotalIs
    <3> HIDE DEF g, e, w, m, x
    <3> QED  BY <3>1, <3>2
  <2> HIDE DEF g, e, w
  <2>4. Price!Magnitude(10000 * g - e) <= w
    BY <2>3 DEF Price!Magnitude
  <2> QED  BY <2>4 DEF QuoteIsNearExact, Price!QuoteIsNearExact, g, e, w
<1> QED
  BY <1>1, <1>2, PriceInit, PTL DEF Price!Spec

\* The exact total does not fall when the quantity grows and the coupon stays or is dropped,
\* as long as discount and coupon leave something of the price.
LEMMA ExactRises ==
  ASSUME service \in Services, grain \in Grains, NEW q \in Nat, NEW r \in Nat, q <= r,
         NEW c \in Coupons \cup {NoCoupon}, NEW d \in {c, NoCoupon},
         NEW ad \in SUBSET DOMAIN AddonPrices, ServiceOff + PercentOf(c) <= 100
  PROVE  Exact(q, c, ad) <= Exact(r, d, ad)
<1> DEFINE b == ExactPrice(q)
           e == ExactPrice(r)
           m == 100 - (ServiceOff + PercentOf(c))
           n == 100 - (ServiceOff + PercentOf(d))
           f == FixedOf(c)
           h == FixedOf(d)
           sum == Price!SumFunctionOnSet(AddonPrices, ad)
           x == ExactSub(q, c, ad)
           y == ExactSub(r, d, ad)
           P == 100 + Price!PercentTaxes
           F == Price!FixedTaxes
<1>1. /\ b \in Nat /\ e \in Nat /\ ServiceOff \in 0..100 /\ PercentOf(c) \in 0..100
      /\ PercentOf(d) \in 0..100 /\ f \in Nat /\ h \in Nat /\ sum \in Nat
  <2>1. d \in Coupons \cup {NoCoupon}
    OBVIOUS
  <2> QED  BY <2>1, Inputs
<1>2. PercentOf(d) <= PercentOf(c) /\ h <= f
  <2>1. CASE d = c
    BY <1>1, <2>1
  <2>2. CASE d = NoCoupon
    <3>1. PercentOf(d) = 0 /\ h = 0
      BY <2>2 DEF PercentOf, FixedOf
    <3> QED  BY <1>1, <3>1
  <2> QED  BY <2>1, <2>2
<1>3. b <= e
  <2>1. CASE service.package # NoPackage
    <3>1. b = e
      BY <2>1 DEF ExactPrice
    <3> QED  BY <1>1, <3>1
  <2>2. CASE service.package = NoPackage
    <3>1. b = service.price * q /\ e = service.price * r /\ service.price \in Nat
      BY <2>2, PricesAssumption DEF ExactPrice
    <3>2. service.price * (r - q) >= 0 /\ service.price * (r - q) = service.price * r - service.price * q
      BY <3>1
    <3> QED  BY <1>1, <3>1, <3>2
  <2> QED  BY <2>1, <2>2
<1>4. m \in Nat /\ n \in Nat /\ m <= n
  BY <1>1, <1>2, SMTT(20)
<1>5. P \in Nat /\ F \in Nat
  BY TaxFacts
<1>6. /\ x = b * m - 100 * f + 100 * sum
      /\ y = e * n - 100 * h + 100 * sum
  BY DEF ExactSub
<1>7. Exact(q, c, ad) = x * P + 10000 * F /\ Exact(r, d, ad) = y * P + 10000 * F
  BY DEF Exact
<1> HIDE DEF b, e, m, n, f, h, sum, x, y, P, F
<1>8. b * m <= e * n
  <2>1. (e - b) * n >= 0 /\ b * (n - m) >= 0
    <3>1. e - b \in Nat /\ n - m \in Nat
      BY <1>1, <1>3, <1>4
    <3>2. \A k, l \in Nat : k * l >= 0
      OBVIOUS
    <3> QED  BY <1>1, <1>4, <3>1, <3>2
  <2>2. (e - b) * n + b * (n - m) = e * n - b * m
    BY <1>1, <1>4
  <2>3. b * m \in Int /\ e * n \in Int /\ (e - b) * n \in Int /\ b * (n - m) \in Int
    BY <1>1, <1>4
  <2> QED  BY <2>1, <2>2, <2>3
<1>9. x \in Int /\ y \in Int /\ x <= y
  <2>1. b * m \in Int /\ e * n \in Int
    BY <1>1, <1>4
  <2> QED  BY <1>1, <1>2, <1>6, <1>8, <2>1
<1>10. x * P <= y * P
  <2>1. (y - x) * P >= 0 /\ (y - x) * P = y * P - x * P
    BY <1>5, <1>9
  <2>2. x * P \in Int /\ y * P \in Int
    BY <1>5, <1>9
  <2> QED  BY <2>1, <2>2
<1>11. x * P \in Int /\ y * P \in Int
  BY <1>5, <1>9
<1> QED  BY <1>5, <1>7, <1>10, <1>11

\* A change of the quantity keeps the add-ons and keeps or drops the coupon, and the amounts
\* are those of what is then shown.
LEMMA QuantityStep ==
  ASSUME PriceInv, Price!Next, itemCount' # itemCount
  PROVE  /\ itemCount' \in Nat /\ addons' = addons
         /\ appliedCouponData' \in {appliedCouponData, NoCoupon}
         /\ bookingAmountModel' = Price!FinalCalculations(itemCount', appliedCouponData', addons)
<1>1. itemCount \in Nat \ {0}
  BY DEF PriceInv, PriceTypeOK
<1>2. \E q \in Nat : Price!SetPrice(q, appliedCouponData, addons)
  <2>1. CASE Price!Increment
    BY <1>1, <2>1 DEF Price!Increment
  <2>2. CASE Price!Decrement
    <3> DEFINE q == IF itemCount # 1 THEN itemCount - 1 ELSE itemCount
    <3>1. q \in Nat
      BY <1>1
    <3>2. Price!SetPrice(q, appliedCouponData, addons)
      BY <2>2 DEF Price!Decrement
    <3> HIDE DEF q
    <3> QED  BY <3>1, <3>2
  <2>3. \A q, c, ad : Price!SetPrice(q, c, ad) => itemCount' = q
    BY DEF Price!SetPrice
  <2>4. ~Price!RemoveCoupon /\ \A c : ~Price!ApplyCoupon(c)
    BY <2>3 DEF Price!RemoveCoupon, Price!ApplyCoupon
  <2>5. \A a : ~Price!RemoveAddon(a)
    BY <2>3 DEF Price!RemoveAddon
  <2> QED  BY <2>1, <2>2, <2>4, <2>5 DEF Price!Next
<1>3. PICK q \in Nat : Price!SetPrice(q, appliedCouponData, addons)
  BY <1>2
<1> QED  BY <1>3 DEF Price!SetPrice, Price!Priced

\* For any prices, percentages, coupons, add-ons, taxes and number of decimals: up to the
\* roundings a larger quantity does not lower the total, and a smaller one raises it only when
\* setPrice drops the coupon, unless discount and coupon exceed the price.
THEOREM QuoteMovesWithQuantity == Price!Spec => QuoteFollowsQuantity
<1> DEFINE before == 10000 * bookingAmountModel.grandTotal
           after == 10000 * bookingAmountModel'.grandTotal
           Moves == /\ itemCount' > itemCount => after + 2 * Price!Allowance >= before
                    /\ itemCount' < itemCount =>
                         \/ after <= before + 2 * Price!Allowance
                         \/ appliedCouponData # NoCoupon /\ appliedCouponData' = NoCoupon
<1>1. PriceInv /\ [Price!Next]_Price!vars => PriceInv'
  BY PriceStep
<1>2. ASSUME PriceInv, Price!Next, Price!PercentOff <= 100 PROVE Moves
  <2> DEFINE x == Exact(itemCount, appliedCouponData, addons)
             y == Exact(itemCount', appliedCouponData', addons)
             w == Price!Allowance
             g == bookingAmountModel.grandTotal
             h == bookingAmountModel'.grandTotal
  <2>1. /\ service \in Services /\ grain \in Grains /\ itemCount \in Nat
        /\ appliedCouponData \in Coupons \cup {NoCoupon} /\ addons \in SUBSET DOMAIN AddonPrices
        /\ bookingAmountModel = Price!FinalCalculations(itemCount, appliedCouponData, addons)
    BY <1>2 DEF PriceInv, PriceTypeOK, Price!QuoteOfPresentInputs
  <2>2. ServiceOff + PercentOf(appliedCouponData) <= 100
    BY <1>2 DEF Price!PercentOff, ServiceOff, PercentOf
  <2>3. ASSUME itemCount' # itemCount
        PROVE  /\ itemCount' \in Nat /\ appliedCouponData' \in {appliedCouponData, NoCoupon}
               /\ g \in Int /\ h \in Int /\ x \in Int /\ y \in Int /\ w \in Nat
               /\ 10000 * g - x \in -w..w /\ 10000 * h - y \in -w..w
    <3>1. /\ itemCount' \in Nat /\ appliedCouponData' \in {appliedCouponData, NoCoupon}
          /\ bookingAmountModel' = Price!FinalCalculations(itemCount', appliedCouponData', addons)
      BY <1>2, <2>3, QuantityStep
    <3>2. appliedCouponData' \in Coupons \cup {NoCoupon}
      BY <2>1, <3>1
    <3>3. g \in Int /\ x \in Int /\ w \in Nat /\ 10000 * g - x \in -w..w
      BY <2>1, NearExact
    <3>4. h \in Int /\ y \in Int /\ 10000 * h - y \in -w..w
      BY <2>1, <3>1, <3>2, NearExact
    <3> QED  BY <3>1, <3>3, <3>4
  <2>4. ASSUME itemCount' > itemCount PROVE after + 2 * w >= before
    <3>1. itemCount' # itemCount
      BY <2>1, <2>4
    <3>2. itemCount <= itemCount'
      BY <2>1, <2>3, <2>4, <3>1
    <3>3. x <= y
      BY <2>1, <2>2, <2>3, <3>1, <3>2, ExactRises
    <3> HIDE DEF x, y, w, g, h
    <3>4. 10000 * h + 2 * w >= 10000 * g
      BY <2>3, <3>1, <3>3
    <3> QED  BY <3>4 DEF g, h
  <2>5. ASSUME itemCount' < itemCount, ~(appliedCouponData # NoCoupon /\ appliedCouponData' = NoCoupon)
        PROVE  after <= before + 2 * w
    <3>1. itemCount' # itemCount
      BY <2>1, <2>5
    <3>2. itemCount' <= itemCount /\ appliedCouponData' = appliedCouponData
      BY <2>1, <2>3, <2>5, <3>1
    <3>3. y <= x
      BY <2>1, <2>2, <2>3, <3>1, <3>2, ExactRises
    <3> HIDE DEF x, y, w, g, h
    <3>4. 10000 * h <= 10000 * g + 2 * w
      BY <2>3, <3>1, <3>3
    <3> QED  BY <3>4 DEF g, h
  <2> QED  BY <2>4, <2>5
<1>3. PriceInv /\ [Price!Next]_Price!vars => [Price!PercentOff <= 100 => Moves]_Price!vars
  BY <1>2
<1> QED
  BY <1>1, <1>3, PriceInit, PTL DEF Price!Spec, QuoteFollowsQuantity, Price!QuoteFollowsQuantity
=============================================================================
