--------------------------- MODULE JobRequestProofs ---------------------------
(***************************************************************************)
(* Bookings made from a job request, for any numbers of bids, reads and      *)
(* tries: provider and price are those of bids the backend has assigned, or  *)
(* of bids that a read put into the row of one while it was being accepted.  *)
(*                                                                           *)
(* The argument follows the shared object: what the backend answers, what an *)
(* acceptance writes, and what the open routes hold on to.                   *)
(***************************************************************************)
EXTENDS JobRequest, SequenceTheorems, TLAPS

Object == [provider : Bidders \cup {None}, price : Bidders \cup {None}]
Booking == [provider : Bidders \cup {None}, amount : Bidders \cup {None}]
Route == {Detail, Other} \cup {BookPost(r, p) : r \in Reads, p \in Bidders}
           \cup {ConfirmDialog(r, p) : r \in Reads, p \in Bidders}
           \cup {PaymentRoute(t) : t \in Tries}

JobTypeOK ==
  /\ SaveTypeOK
  /\ post \in Object
  /\ assigned \in SUBSET Bidders
  /\ swapped \in SUBSET Bidders
  /\ read \in [Reads -> {"unused", "sent", "served", "arrived", "failed"}]
  /\ obj \in [Reads -> Object]
  /\ detail \in [state : {"open", "closing", "gone"}, shows : Reads \cup {None}, future : Reads]
  /\ accept \in [Bidders -> {"idle", "sent", "served", "failed", "done"}]
  /\ routes \in Seq(Route)
  /\ request \in [Tries -> Booking]

\* The bids that the backend has assigned, or that took the row of one it has.
Chosen == assigned \cup swapped

\* The parts of an object that are filled come from such bids.
Priced(o) ==
  /\ o.price # None => o.price \in Chosen
  /\ o.provider # None => o.provider \in Chosen /\ o.price # None

ObjectsPriced == Priced(post) /\ \A r \in Reads : Priced(obj[r])

ServedIsAssigned == \A b \in Bidders : accept[b] = "served" => b \in assigned

ShownHasArrived == detail.shows # None => read[detail.shows] = "arrived"

\* A route that leads to a booking holds an assigned provider and a priced object.
LeadsToBooking(e, r, p) == e = BookPost(r, p) \/ e = ConfirmDialog(r, p)
Ready(r, p) == p \in Chosen /\ read[r] = "arrived" /\ obj[r].price # None
RouteReady(e) == \A r \in Reads, p \in Bidders : LeadsToBooking(e, r, p) => Ready(r, p)
RoutesReady == \A i \in 1..Len(routes) : RouteReady(routes[i])

RequestsAssigned ==
  \A t \in Tries : /\ t \in bookings => call[t] # "idle"
                   /\ call[t] # "idle" => request[t].provider \in Chosen
                                          /\ request[t].amount \in Chosen

Inv ==
  /\ JobTypeOK /\ ObjectsPriced /\ ServedIsAssigned /\ ShownHasArrived
  /\ RoutesReady /\ RequestsAssigned

LEMMA InvImplies == Inv => BooksAssignedOnly
<1> SUFFICES ASSUME Inv, NEW t \in bookings
             PROVE  {request[t].provider, request[t].amount} \subseteq assigned \cup swapped
  BY DEF BooksAssignedOnly
<1>1. t \in Tries
  BY DEF Inv, JobTypeOK, SaveTypeOK
<1>2. request[t].provider \in Chosen /\ request[t].amount \in Chosen
  BY <1>1 DEF Inv, RequestsAssigned
<1> QED  BY <1>2 DEF Chosen

-----------------------------------------------------------------------------
(* Routes.                                                                  *)

LEMMA PlainRoutes ==
  \A r \in Reads, p \in Bidders :
    /\ ~LeadsToBooking(Detail, r, p) /\ ~LeadsToBooking(Other, r, p)
    /\ \A t \in Tries : ~LeadsToBooking(PaymentRoute(t), r, p)
<1>1. /\ Detail.kind = "detail" /\ Other.kind = "other"
      /\ \A t : PaymentRoute(t).kind = "payment"
  BY DEF Detail, Other, PaymentRoute
<1>2. \A r, p : BookPost(r, p).kind = "book" /\ ConfirmDialog(r, p).kind = "confirm"
  BY DEF BookPost, ConfirmDialog
<1> QED  BY <1>1, <1>2 DEF LeadsToBooking

LEMMA RouteParts ==
  \A r, q \in Reads, p, b \in Bidders :
    /\ LeadsToBooking(BookPost(r, p), q, b) => r = q /\ p = b
    /\ LeadsToBooking(ConfirmDialog(r, p), q, b) => r = q /\ p = b
<1>1. \A r, p : /\ BookPost(r, p).kind = "book" /\ BookPost(r, p).obj = r
                /\ BookPost(r, p).provider = p
                /\ ConfirmDialog(r, p).kind = "confirm" /\ ConfirmDialog(r, p).obj = r
                /\ ConfirmDialog(r, p).provider = p
  BY DEF BookPost, ConfirmDialog
<1> QED  BY <1>1 DEF LeadsToBooking

LEMMA PoppedRoutes ==
  ASSUME routes \in Seq(Route)
  PROVE  /\ Popped \in Seq(Route) /\ Len(Popped) <= Len(routes)
         /\ \A i \in 1..Len(Popped) : Popped[i] = routes[i]
<1>1. CASE routes = <<>>
  BY <1>1 DEF Popped
<1>2. CASE routes # <<>>
  <2> DEFINE n == Len(routes) - 1
  <2>1. n \in Nat /\ n <= Len(routes) /\ Popped = SubSeq(routes, 1, n)
        /\ \A i \in 1..n : routes[i] \in Route
    BY <1>2, EmptySeq DEF Popped
  <2>2. /\ SubSeq(routes, 1, n) \in Seq(Route)
        /\ Len(SubSeq(routes, 1, n)) = IF 1 <= n THEN n - 1 + 1 ELSE 0
        /\ \A i \in 1..(n - 1 + 1) : SubSeq(routes, 1, n)[i] = routes[1 + i - 1]
    BY <2>1, SubSeqProperties
  <2> HIDE DEF n
  <2>3. n - 1 + 1 = n /\ (1 <= n \/ n = 0) /\ \A i \in 1..n : 1 + i - 1 = i
    BY <2>1
  <2>4. Len(Popped) = n
    BY <2>1, <2>2, <2>3
  <2>5. \A i \in 1..n : Popped[i] = routes[i]
    BY <2>1, <2>2, <2>3
  <2> QED  BY <2>1, <2>2, <2>4, <2>5
<1> QED  BY <1>1, <1>2

\* Objects that routes hold keep a price, and assignments are not taken back.
Stays ==
  /\ Chosen \subseteq Chosen'
  /\ \A r \in Reads : read[r] = "arrived" =>
       read'[r] = "arrived" /\ (obj[r].price # None => obj'[r].price # None)

\* The routes that are kept stay ready, and so does one that is ready when it comes.
LEMMA RoutesKept ==
  ASSUME Inv, Stays, NEW e \in Route, RouteReady(e)',
         \/ routes' \in {routes, Popped}
         \/ routes' \in {Append(routes, e), Append(Popped, e)}
  PROVE  routes' \in Seq(Route) /\ RoutesReady'
<1>1. \A x : RouteReady(x) => RouteReady(x)'
  BY DEF Stays, Chosen, RouteReady, Ready, LeadsToBooking
<1>2. routes \in Seq(Route) /\ \A i \in 1..Len(routes) : RouteReady(routes[i])
  BY DEF Inv, JobTypeOK, RoutesReady
<1>3. /\ Popped \in Seq(Route)
      /\ \A i \in 1..Len(Popped) : i \in 1..Len(routes) /\ Popped[i] = routes[i]
  BY <1>2, PoppedRoutes
<1>4. PICK s \in Seq(Route) :
        /\ \A i \in 1..Len(s) : RouteReady(s[i])
        /\ routes' = s \/ routes' = Append(s, e)
  BY <1>2, <1>3
<1>5. \A i \in 1..Len(s) : RouteReady(s[i])'
  BY <1>1, <1>4
<1>6. CASE routes' = s
  BY <1>5, <1>6 DEF RoutesReady
<1>7. CASE routes' = Append(s, e)
  <2>1. /\ Len(routes') = Len(s) + 1 /\ routes' \in Seq(Route)
        /\ \A i \in 1..Len(s) : routes'[i] = s[i]
        /\ routes'[Len(s) + 1] = e
    BY <1>7
  <2>2. ASSUME NEW i \in 1..Len(routes') PROVE RouteReady(routes[i])'
    <3>1. CASE i \in 1..Len(s)
      BY <1>5, <2>1, <3>1 DEF RouteReady, Ready, LeadsToBooking
    <3>2. CASE i = Len(s) + 1
      BY <2>1, <3>2 DEF RouteReady, Ready, LeadsToBooking
    <3> QED  BY <2>1, <3>1, <3>2
  <2> QED  BY <2>1, <2>2 DEF RoutesReady
<1> QED  BY <1>4, <1>6, <1>7
-----------------------------------------------------------------------------
LEMMA InitInv == Init => Inv
<1> SUFFICES ASSUME Init PROVE Inv
  OBVIOUS
<1>1. PICK r \in Reads : /\ read = [q \in Reads |-> IF q = r THEN "sent" ELSE "unused"]
                         /\ detail = [state |-> "open", shows |-> None, future |-> r]
  BY DEF Init
<1>2. routes = <<Detail>> /\ routes \in Seq(Route)
  BY DEF Init, Route
<1>3. Blank \in Object /\ Blank.price = None /\ Blank.provider = None
  BY DEF Blank, Object
<1>4. [provider |-> None, amount |-> None] \in Booking
  BY DEF Booking
<1>5. JobTypeOK
  <2>1. SaveTypeOK /\ post \in Object /\ assigned \in SUBSET Bidders /\ swapped \in SUBSET Bidders
    BY <1>3 DEF Init, SaveInit, SaveTypeOK
  <2>2. obj \in [Reads -> Object] /\ request \in [Tries -> Booking]
    BY <1>3, <1>4 DEF Init
  <2>3. detail \in [state : {"open", "closing", "gone"}, shows : Reads \cup {None}, future : Reads]
    BY <1>1
  <2>4. /\ read \in [Reads -> {"unused", "sent", "served", "arrived", "failed"}]
        /\ accept \in [Bidders -> {"idle", "sent", "served", "failed", "done"}]
    BY <1>1 DEF Init
  <2> QED  BY <1>2, <2>1, <2>2, <2>3, <2>4 DEF JobTypeOK
<1>6. ObjectsPriced
  BY <1>3 DEF Init, ObjectsPriced, Chosen, Priced
<1>7. ServedIsAssigned /\ ShownHasArrived /\ RequestsAssigned
  BY <1>1 DEF Init, SaveInit, ServedIsAssigned, ShownHasArrived, RequestsAssigned, Chosen
<1>8. RoutesReady
  BY <1>2, PlainRoutes DEF RoutesReady, RouteReady
<1> QED  BY <1>5, <1>6, <1>7, <1>8 DEF Inv

DetailType == [state : {"open", "closing", "gone"}, shows : Reads \cup {None}, future : Reads]

LEMMA Types ==
  ASSUME Inv
  PROVE  /\ SaveTypeOK /\ post \in Object /\ assigned \in SUBSET Bidders
         /\ swapped \in SUBSET Bidders /\ Chosen \in SUBSET Bidders
         /\ read \in [Reads -> {"unused", "sent", "served", "arrived", "failed"}]
         /\ obj \in [Reads -> Object] /\ detail \in DetailType
         /\ detail.shows \in Reads \cup {None}
         /\ accept \in [Bidders -> {"idle", "sent", "served", "failed", "done"}]
         /\ routes \in Seq(Route) /\ request \in [Tries -> Booking]
<1>1. detail \in DetailType
  BY DEF Inv, JobTypeOK, DetailType
<1>2. detail.shows \in Reads \cup {None}
  BY <1>1 DEF DetailType
<1> QED  BY <1>1, <1>2 DEF Inv, JobTypeOK, Chosen

\* A step that starts no booking, assigns nothing and writes no object.
LEMMA QuietStep ==
  ASSUME Inv, SaveTypeOK', detail' \in DetailType, routes' \in Seq(Route), RoutesReady',
         UNCHANGED <<post, assigned, swapped, obj, request>>,
         read' \in [Reads -> {"unused", "sent", "served", "arrived", "failed"}],
         accept' \in [Bidders -> {"idle", "sent", "served", "failed", "done"}],
         \A b \in Bidders : accept'[b] = "served" => accept[b] = "served",
         detail'.shows # None => read'[detail'.shows] = "arrived",
         \A t \in Tries : /\ call'[t] = "idle" <=> call[t] = "idle"
                          /\ t \in bookings' => t \in bookings \/ call[t] # "idle"
  PROVE  Inv'
<1>1. JobTypeOK'
  BY Types DEF JobTypeOK, DetailType
<1>2. ObjectsPriced'
  BY DEF Inv, ObjectsPriced, Chosen, Priced
<1>3. ServedIsAssigned' /\ ShownHasArrived'
  BY DEF Inv, ServedIsAssigned, ShownHasArrived
<1>4. RequestsAssigned'
  BY DEF Inv, RequestsAssigned, Chosen
<1> QED  BY <1>1, <1>2, <1>3, <1>4 DEF Inv

\* Such a step on the routes only, the detail screen's state aside.
LEMMA NavigationStep ==
  ASSUME Inv, UNCHANGED <<saveVars, post, assigned, swapped, read, obj, accept, request>>,
         NEW state \in {"open", "closing", "gone"},
         detail' = [detail EXCEPT !.state = state],
         NEW e \in Route, RouteReady(e),
         routes' \in {routes, Popped, Append(routes, e), Append(Popped, e)}
  PROVE  Inv'
<1>0. Stays /\ RouteReady(e)'
  BY DEF Stays, Chosen, RouteReady, Ready
<1>1. routes' \in Seq(Route) /\ RoutesReady'
  BY <1>0, RoutesKept
<1>2. detail' \in DetailType /\ detail'.shows = detail.shows
  BY Types DEF DetailType
<1>3. SaveTypeOK'
  BY Types DEF saveVars, SaveTypeOK
<1>4. detail'.shows # None => read'[detail'.shows] = "arrived"
  BY <1>2 DEF Inv, ShownHasArrived
<1> QED  BY <1>1, <1>2, <1>3, <1>4, Types, QuietStep DEF saveVars
-----------------------------------------------------------------------------
(* Navigation.                                                              *)

LEMMA NavigationKeeps ==
  ASSUME Inv, OpenBook \/ OpenOther \/ OpenConfirm \/ Back \/ Unmount
  PROVE  Inv'
<1>0. /\ detail \in DetailType /\ detail.state \in {"open", "closing", "gone"}
      /\ detail = [detail EXCEPT !.state = detail.state]
  BY Types DEF DetailType
<1>1. Detail \in Route /\ Other \in Route /\ RouteReady(Detail) /\ RouteReady(Other)
  BY PlainRoutes DEF Route, RouteReady
<1>2. CASE OpenBook
  <2> DEFINE r == detail.shows
             p == obj[r].provider
  <2>1. /\ r \in Reads /\ p # None /\ read[r] = "arrived"
        /\ routes' = Append(routes, BookPost(r, p))
    BY <1>2, Types DEF OpenBook, Inv, ShownHasArrived
  <2>2. p \in Chosen /\ obj[r].price # None
    BY <2>1 DEF Inv, ObjectsPriced, Chosen, Priced
  <2>3. p \in Bidders
    BY <2>2, Types
  <2>4. BookPost(r, p) \in Route /\ RouteReady(BookPost(r, p))
    BY <2>1, <2>2, <2>3, RouteParts DEF Route, RouteReady, Ready
  <2> HIDE DEF r, p
  <2>5. UNCHANGED <<saveVars, post, assigned, swapped, read, obj, accept, request, detail>>
    BY <1>2 DEF OpenBook
  <2> QED  BY <1>0, <2>1, <2>4, <2>5, NavigationStep
<1>3. CASE OpenConfirm
  <2>1. PICK r \in Reads, p \in Bidders :
          IsTop(BookPost(r, p)) /\ routes' = Append(routes, ConfirmDialog(r, p))
    BY <1>3 DEF OpenConfirm
  <2>2. Ready(r, p)
    <3>1. Len(routes) \in 1..Len(routes) /\ routes[Len(routes)] = BookPost(r, p)
      BY <2>1, Types DEF IsTop
    <3> QED  BY <3>1 DEF Inv, RoutesReady, RouteReady, LeadsToBooking
  <2>3. ConfirmDialog(r, p) \in Route /\ RouteReady(ConfirmDialog(r, p))
    BY <2>2, RouteParts DEF Route, RouteReady
  <2>4. UNCHANGED <<saveVars, post, assigned, swapped, read, obj, accept, request, detail>>
    BY <1>3 DEF OpenConfirm
  <2> QED  BY <1>0, <2>1, <2>3, <2>4, NavigationStep
<1>4. CASE OpenOther
  <2>1. UNCHANGED <<saveVars, post, assigned, swapped, read, obj, accept, request, detail>>
    BY <1>4 DEF OpenOther
  <2> QED  BY <1>0, <1>1, <1>4, <2>1, NavigationStep DEF OpenOther
<1>5. CASE Back \/ Unmount
  <2>1. /\ UNCHANGED <<saveVars, post, assigned, swapped, read, obj, accept, request>>
        /\ \E state \in {"open", "closing", "gone"} : detail' = [detail EXCEPT !.state = state]
        /\ routes' \in {routes, Popped}
    BY <1>0, <1>5 DEF Back, Unmount
  <2> QED  BY <1>1, <2>1, NavigationStep
<1> QED  BY <1>2, <1>3, <1>4, <1>5

-----------------------------------------------------------------------------
(* Reads.                                                                   *)

LEMMA ReadKeeps ==
  ASSUME Inv, NEW r \in Reads, Refresh(r) \/ Reload(r) \/ ReadArrives(r) \/ ReadFails(r)
  PROVE  Inv'
<1>1. /\ UNCHANGED <<call, wait, bookings, post, assigned, swapped, obj, accept, routes, request>>
      /\ loader' \in {loader, TRUE, FALSE}
  BY DEF Refresh, Reload, ReadArrives, ReadFails, saveVars
<1>2. /\ read[r] # "arrived"
      /\ \E to \in {"sent", "arrived", "failed"} : read' = [read EXCEPT ![r] = to]
  BY DEF Refresh, Reload, ReadArrives, ReadFails, SendRead
<1>3. /\ read' \in [Reads -> {"unused", "sent", "served", "arrived", "failed"}]
      /\ \A q \in Reads : read[q] = "arrived" => read'[q] = "arrived"
  BY <1>2, Types
<1>4. Stays /\ Detail \in Route /\ RouteReady(Detail)'
  BY <1>1, <1>3, PlainRoutes DEF Stays, Chosen, Route, RouteReady
<1>5. routes' \in Seq(Route) /\ RoutesReady'
  BY <1>1, <1>4, RoutesKept
<1>6. detail' \in DetailType /\ (detail'.shows # None => read'[detail'.shows] = "arrived")
  <2>1. ASSUME detail' = [detail EXCEPT !.future = r] \/ detail' = detail
        PROVE  detail' \in DetailType /\ detail'.shows = detail.shows
    BY <2>1, Types DEF DetailType
  <2>2. CASE Refresh(r) \/ Reload(r)
    BY <2>1, <2>2, <1>3, Types DEF Refresh, Reload, Inv, ShownHasArrived
  <2>3. ASSUME NEW x \in Reads \cup {None}, detail' = [detail EXCEPT !.shows = x],
               x # None => read'[x] = "arrived"
        PROVE  detail' \in DetailType /\ (detail'.shows # None => read'[detail'.shows] = "arrived")
    BY <2>3, Types DEF DetailType
  <2>4. detail.shows # None => read'[detail.shows] = "arrived"
    BY <1>3, Types DEF Inv, ShownHasArrived
  <2>5. CASE ReadArrives(r)
    <3>1. read'[r] = "arrived"
      BY <2>5, Types DEF ReadArrives
    <3>2. CASE detail.future = r /\ detail.state # "gone"
      BY <2>3, <2>5, <3>1, <3>2 DEF ReadArrives
    <3>3. CASE ~(detail.future = r /\ detail.state # "gone")
      BY <2>3, <2>4, <2>5, <3>3, Types DEF ReadArrives
    <3> QED  BY <3>2, <3>3
  <2>6. CASE ReadFails(r)
    <3>1. CASE detail.future = r
      BY <2>3, <2>6, <3>1 DEF ReadFails
    <3>2. CASE detail.future # r
      BY <2>3, <2>4, <2>6, <3>2, Types DEF ReadFails
    <3> QED  BY <3>1, <3>2
  <2> QED  BY <2>2, <2>5, <2>6
<1>7. SaveTypeOK'
  BY <1>1, Types DEF SaveTypeOK
<1> QED  BY <1>1, <1>3, <1>5, <1>6, <1>7, Types, QuietStep

LEMMA ServeReadKeeps ==
  ASSUME Inv, NEW r \in Reads, ServeRead(r)
  PROVE  Inv'
<1>1. /\ UNCHANGED <<saveVars, post, assigned, swapped, detail, accept, routes, request>>
      /\ read[r] = "sent" /\ read' = [read EXCEPT ![r] = "served"]
      /\ obj' = [obj EXCEPT ![r] = post]
  BY DEF ServeRead
<1>2. /\ read' \in [Reads -> {"unused", "sent", "served", "arrived", "failed"}]
      /\ obj' \in [Reads -> Object]
      /\ \A q \in Reads : read[q] = "arrived" => read'[q] = "arrived" /\ obj'[q] = obj[q]
      /\ \A q \in Reads : obj'[q] \in {post, obj[q]}
  BY <1>1, Types
<1>3. Stays /\ Detail \in Route /\ RouteReady(Detail)'
  BY <1>1, <1>2, PlainRoutes DEF Stays, Chosen, Route, RouteReady
<1>4. routes' \in Seq(Route) /\ RoutesReady'
  BY <1>1, <1>3, RoutesKept
<1>5. JobTypeOK'
  BY <1>1, <1>2, <1>4, Types DEF JobTypeOK, DetailType, saveVars, SaveTypeOK
<1>6. ObjectsPriced'
  BY <1>1, <1>2 DEF Inv, ObjectsPriced, Chosen, Priced
<1>7. ServedIsAssigned' /\ ShownHasArrived' /\ RequestsAssigned'
  BY <1>1, <1>2, Types DEF Inv, ServedIsAssigned, ShownHasArrived, RequestsAssigned, Chosen, saveVars
<1> QED  BY <1>4, <1>5, <1>6, <1>7 DEF Inv
-----------------------------------------------------------------------------
(* Acceptances.                                                             *)

\* Acceptances that write no object.
LEMMA AcceptKeeps ==
  ASSUME Inv, NEW b \in Bidders, Accept(b) \/ AcceptFails(b) \/ AcceptedUnmounted(b)
  PROVE  Inv'
<1>1. /\ UNCHANGED <<call, wait, bookings, post, assigned, swapped, read, obj, detail, routes, request>>
      /\ loader' \in BOOLEAN
      /\ \E to \in {"sent", "failed", "done"} : accept' = [accept EXCEPT ![b] = to]
  BY DEF Accept, AcceptFails, AcceptedUnmounted
<1>2. /\ accept' \in [Bidders -> {"idle", "sent", "served", "failed", "done"}]
      /\ \A c \in Bidders : accept'[c] = "served" => accept[c] = "served"
  BY <1>1, Types
<1>3. Stays /\ Detail \in Route /\ RouteReady(Detail)'
  BY <1>1, PlainRoutes DEF Stays, Chosen, Route, RouteReady
<1>4. routes' \in Seq(Route) /\ RoutesReady'
  BY <1>1, <1>3, RoutesKept
<1>5. SaveTypeOK' /\ (detail'.shows # None => read'[detail'.shows] = "arrived")
  BY <1>1, Types DEF SaveTypeOK, Inv, ShownHasArrived
<1> QED  BY <1>1, <1>2, <1>4, <1>5, Types, QuietStep

LEMMA ServeAcceptKeeps ==
  ASSUME Inv, NEW b \in Bidders, ServeAccept(b)
  PROVE  Inv'
<1>1. /\ UNCHANGED <<saveVars, read, obj, detail, routes, request>>
      /\ accept' = [accept EXCEPT ![b] = "served"]
      /\ post' = [provider |-> b, price |-> b]
      /\ assigned' = assigned \cup {b} /\ swapped' = swapped
  BY DEF ServeAccept
<1>2. post' \in Object /\ post'.provider = b /\ post'.price = b /\ b # None
  BY <1>1, NoneAssumption DEF Object
<1>3. /\ accept' \in [Bidders -> {"idle", "sent", "served", "failed", "done"}]
      /\ \A c \in Bidders : accept'[c] = "served" => c = b \/ accept[c] = "served"
  BY <1>1, Types
<1>4. Stays /\ Detail \in Route /\ RouteReady(Detail)'
  BY <1>1, PlainRoutes DEF Stays, Chosen, Route, RouteReady
<1>5. routes' \in Seq(Route) /\ RoutesReady'
  BY <1>1, <1>4, RoutesKept
<1>6. JobTypeOK'
  BY <1>1, <1>2, <1>3, <1>5, Types DEF JobTypeOK, DetailType, saveVars, SaveTypeOK
<1>7. ObjectsPriced'
  BY <1>1, <1>2 DEF Inv, ObjectsPriced, Chosen, Priced
<1>8. ServedIsAssigned'
  BY <1>1, <1>3 DEF Inv, ServedIsAssigned
<1>9. ShownHasArrived' /\ RequestsAssigned'
  BY <1>1 DEF Inv, ShownHasArrived, RequestsAssigned, Chosen, saveVars
<1> QED  BY <1>5, <1>6, <1>7, <1>8, <1>9 DEF Inv

LEMMA AcceptedKeeps ==
  ASSUME Inv, NEW b \in Bidders, Accepted(b)
  PROVE  Inv'
<1> DEFINE x == detail.shows
<1>0. PICK c \in RowNow(b) :
        /\ obj' = [obj EXCEPT ![x].price = c]
        /\ routes' = Append(Popped, BookPost(x, c))
        /\ swapped' = swapped \cup ({c} \ {b})
  BY DEF Accepted
<1> DEFINE o == [obj[x] EXCEPT !.price = c]
<1>1. /\ UNCHANGED <<call, wait, bookings, post, assigned, request>>
      /\ accept[b] = "served" /\ accept' = [accept EXCEPT ![b] = "done"]
      /\ loader' = FALSE /\ x # None
  BY DEF Accepted
<1>a. c \in Bidders /\ swapped' \in SUBSET Bidders
  BY <1>0, Types DEF RowNow
<1>b. Chosen \subseteq Chosen' /\ c \in Chosen'
  BY <1>0, <1>1 DEF Inv, ServedIsAssigned, Chosen
<1>2. x \in Reads /\ read[x] = "arrived" /\ obj[x] \in Object /\ c # None
  BY <1>1, <1>a, Types, NoneAssumption DEF Inv, ShownHasArrived
<1>3. obj' = [obj EXCEPT ![x] = o]
  BY <1>0, <1>2, Types
<1>4. o \in Object /\ o.price = c /\ o.provider = obj[x].provider
  BY <1>2, <1>a DEF Object
<1>5. PICK r \in Reads : /\ read[r] = "unused" /\ read' = [read EXCEPT ![r] = "sent"]
                         /\ detail' = [detail EXCEPT !.future = r,
                                                     !.state = IF IsTop(Detail) THEN "closing" ELSE @]
  BY DEF Accepted, SendRead
<1>6. detail' \in DetailType /\ detail'.shows = x
  BY <1>5, Types DEF DetailType
<1> HIDE DEF o, x
<1>7. /\ obj' \in [Reads -> Object] /\ obj'[x] = o
      /\ \A q \in Reads : q # x => obj'[q] = obj[q]
  BY <1>2, <1>3, <1>4, Types
<1>8. /\ read' \in [Reads -> {"unused", "sent", "served", "arrived", "failed"}]
      /\ \A q \in Reads : read[q] = "arrived" => read'[q] = "arrived"
  BY <1>5, Types
<1>9. \A q \in Reads : obj[q].price # None => obj'[q].price # None
  BY <1>2, <1>4, <1>7
<1>10. Stays
  BY <1>b, <1>8, <1>9 DEF Stays
<1>11. BookPost(x, c) \in Route
  BY <1>2, <1>a DEF Route
<1>12. PICK y : y = x
  OBVIOUS
<1>13. Ready(y, c)'
  BY <1>b, <1>2, <1>4, <1>7, <1>8, <1>12 DEF Ready
<1>14. RouteReady(BookPost(y, c))'
  BY <1>2, <1>a, <1>12, <1>13, RouteParts DEF RouteReady
<1>15. routes' \in Seq(Route) /\ RoutesReady'
  BY <1>0, <1>10, <1>11, <1>12, <1>14, RoutesKept
<1>16. accept' \in [Bidders -> {"idle", "sent", "served", "failed", "done"}]
       /\ \A d \in Bidders : accept'[d] = "served" => accept[d] = "served"
  BY <1>1, Types
<1>17. JobTypeOK'
  BY <1>1, <1>a, <1>6, <1>7, <1>8, <1>15, <1>16, Types DEF JobTypeOK, DetailType, SaveTypeOK
<1>18. ObjectsPriced'
  <2>1. ASSUME NEW q \in Reads PROVE Priced(obj[q])'
    <3>1. CASE q = x
      BY <1>b, <1>2, <1>4, <1>7, <3>1 DEF Inv, ObjectsPriced, Priced
    <3>2. CASE q # x
      BY <1>b, <1>7, <3>2 DEF Inv, ObjectsPriced, Priced
    <3> QED  BY <3>1, <3>2
  <2>2. Priced(post)'
    BY <1>1, <1>b DEF Inv, ObjectsPriced, Priced
  <2> QED  BY <2>1, <2>2 DEF ObjectsPriced, Chosen
<1>19. ServedIsAssigned' /\ ShownHasArrived' /\ RequestsAssigned'
  BY <1>1, <1>b, <1>2, <1>6, <1>8, <1>16 DEF Inv, ServedIsAssigned, ShownHasArrived, RequestsAssigned
<1> QED  BY <1>15, <1>17, <1>18, <1>19 DEF Inv
-----------------------------------------------------------------------------
(* Bookings.                                                                *)

LEMMA ConfirmKeeps ==
  ASSUME Inv, NEW t \in Tries, ConfirmBooking(t)
  PROVE  Inv'
<1>1. /\ UNCHANGED <<bookings, post, assigned, swapped, read, obj, detail, accept>>
      /\ call[t] = "idle" /\ call' = [call EXCEPT ![t] = "saving"]
      /\ wait' = [wait EXCEPT ![t] = "waiting"] /\ loader' = TRUE
      /\ routes' = Popped
  BY DEF ConfirmBooking, StartSave
<1>2. PICK r \in Reads, p \in Bidders :
        /\ IsTop(ConfirmDialog(r, p))
        /\ request' = [request EXCEPT ![t] = [provider |-> p, amount |-> obj[r].price]]
  BY DEF ConfirmBooking, RequestFor
<1>3. Ready(r, p)
  <2>1. Len(routes) \in 1..Len(routes) /\ routes[Len(routes)] = ConfirmDialog(r, p)
    BY <1>2, Types DEF IsTop
  <2> QED  BY <2>1 DEF Inv, RoutesReady, RouteReady, LeadsToBooking
<1>4. p \in Chosen /\ obj[r].price \in Chosen /\ obj[r] \in Object
  BY <1>3, Types DEF Ready, Inv, ObjectsPriced, Chosen, Priced
<1> DEFINE q == [provider |-> p, amount |-> obj[r].price]
<1>5. q \in Booking /\ q.provider = p /\ q.amount = obj[r].price
  BY <1>4 DEF Booking, Object
<1> HIDE DEF q
<1>6. /\ request' \in [Tries -> Booking] /\ request'[t] = q
      /\ \A u \in Tries : u # t => request'[u] = request[u]
  BY <1>2, <1>5, Types DEF q
<1>7. Stays /\ Detail \in Route /\ RouteReady(Detail)'
  BY <1>1, PlainRoutes DEF Stays, Chosen, Route, RouteReady
<1>8. routes' \in Seq(Route) /\ RoutesReady'
  BY <1>1, <1>7, RoutesKept
<1>9. /\ SaveTypeOK'
      /\ \A u \in Tries : u # t => call'[u] = call[u]
  BY <1>1, Types DEF SaveTypeOK
<1>10. JobTypeOK'
  BY <1>1, <1>6, <1>8, <1>9, Types DEF JobTypeOK, DetailType
<1>11. RequestsAssigned'
  <2>1. ASSUME NEW u \in Tries, u # t
        PROVE  /\ u \in bookings' => call'[u] # "idle"
               /\ call'[u] # "idle" => request'[u].provider \in Chosen'
                                       /\ request'[u].amount \in Chosen'
    BY <1>1, <1>6, <1>9, <2>1 DEF Inv, RequestsAssigned, Chosen
  <2>2. call'[t] # "idle" /\ request'[t].provider \in Chosen' /\ request'[t].amount \in Chosen'
    BY <1>1, <1>4, <1>5, <1>6, Types DEF SaveTypeOK, Chosen
  <2> QED  BY <2>1, <2>2 DEF RequestsAssigned, Chosen
<1>12. ObjectsPriced' /\ ServedIsAssigned' /\ ShownHasArrived'
  BY <1>1 DEF Inv, ObjectsPriced, Chosen, Priced, ServedIsAssigned, ShownHasArrived
<1> QED  BY <1>8, <1>10, <1>11, <1>12 DEF Inv

\* Steps of a booking that has been sent.
LEMMA SaveStepKeeps ==
  ASSUME Inv, NEW t \in Tries, Request(t) \/ Saved(t)
  PROVE  Inv'
<1>1. UNCHANGED <<post, assigned, swapped, read, obj, detail, accept, request>>
  BY DEF Request, Saved, jobVars
<1>2. /\ SaveTypeOK'
      /\ \A u \in Tries : call'[u] = "idle" <=> call[u] = "idle"
      /\ \A u \in Tries : u \in bookings' => u \in bookings \/ call[u] # "idle"
  <2> USE Types DEF SaveTypeOK
  <2>1. CASE BackendSaves(t) \/ SaveAnswered(t)
    BY <2>1 DEF BackendSaves, SaveAnswered
  <2>2. CASE CallFails(t)
    BY <2>2 DEF CallFails
  <2>3. CASE TimesOut(t)
    BY <2>3 DEF TimesOut
  <2>4. CASE ReadAnswered(t, "ok")
    BY <2>4 DEF ReadAnswered
  <2> QED  BY <2>1, <2>2, <2>3, <2>4 DEF Request, Saved
<1>3. PaymentRoute(t) \in Route /\ RouteReady(PaymentRoute(t))'
  BY PlainRoutes DEF Route, RouteReady
<1>4. Stays /\ routes' \in {routes, Append(routes, PaymentRoute(t))}
  BY <1>1 DEF Stays, Chosen, Request, Saved, jobVars
<1>5. routes' \in Seq(Route) /\ RoutesReady'
  BY <1>3, <1>4, RoutesKept
<1>6. detail'.shows # None => read'[detail'.shows] = "arrived"
  BY <1>1 DEF Inv, ShownHasArrived
<1> QED  BY <1>1, <1>2, <1>5, <1>6, Types, QuietStep

LEMMA NextInv == Inv /\ [Next]_vars => Inv'
<1> SUFFICES ASSUME Inv, [Next]_vars PROVE Inv'
  OBVIOUS
<1>1. CASE \E r \in Reads : \/ Refresh(r) \/ Reload(r) \/ ServeRead(r)
                            \/ ReadArrives(r) \/ ReadFails(r)
  BY <1>1, ReadKeeps, ServeReadKeeps
<1>2. CASE \E b \in Bidders : \/ Accept(b) \/ ServeAccept(b) \/ AcceptFails(b)
                              \/ Accepted(b) \/ AcceptedUnmounted(b)
  BY <1>2, AcceptKeeps, ServeAcceptKeeps, AcceptedKeeps
<1>3. CASE OpenBook \/ OpenOther \/ OpenConfirm \/ Back \/ Unmount
  BY <1>3, NavigationKeeps
<1>4. CASE \E t \in Tries : ConfirmBooking(t) \/ Saved(t) \/ Request(t)
  BY <1>4, ConfirmKeeps, SaveStepKeeps
<1>5. CASE UNCHANGED vars
  <2>1. UNCHANGED <<post, assigned, swapped, read, obj, detail, accept, routes, request,
                    call, wait, bookings, loader>>
    BY <1>5 DEF vars, jobVars, saveVars
  <2>2. RoutesReady' /\ SaveTypeOK' /\ (detail'.shows # None => read'[detail'.shows] = "arrived")
    BY <2>1, Types DEF Inv, RoutesReady, RouteReady, Ready, LeadsToBooking, SaveTypeOK,
                       ShownHasArrived, Chosen
  <2> QED  BY <2>1, <2>2, Types, QuietStep
<1> QED  BY <1>1, <1>2, <1>3, <1>4, <1>5 DEF Next

-----------------------------------------------------------------------------
\* Whatever bids are accepted, refused or answered late, whatever order later answers list
\* them in, and whichever objects the routes still hold, bookServices sends a provider and a
\* price the backend has assigned, or those of a bid that a read put into the row of an
\* accepted one before the acceptance was answered.
THEOREM BookingsAreAssigned == Spec => []BooksAssignedOnly
<1>1. Spec => []Inv
  BY InitInv, NextInv, PTL DEF Spec
<1> QED  BY <1>1, InvImplies, PTL
=============================================================================
