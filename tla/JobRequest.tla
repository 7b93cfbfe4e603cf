------------------------------ MODULE JobRequest ------------------------------
(***************************************************************************)
(* A posted job and its bids: the detail screen that reads the post          *)
(* (lib/screens/jobRequest/my_post_detail_screen.dart), the acceptance of a  *)
(* bid (components/bidder_item_component.dart) and the booking of the chosen *)
(* provider (book_post_job_request_screen.dart).                             *)
(*                                                                           *)
(* The answer to a read is an object that several screens then share: an     *)
(* acceptance writes its price into it, and the booking takes the amount     *)
(* from it.  A price is named by the bid it belongs to.                      *)
(***************************************************************************)
EXTENDS SaveBooking, Naturals, Sequences

CONSTANTS Bidders,    \* providers with a bid for the job
          Reads,      \* requests for the post, each used once
          MaxRoutes,  \* bound: routes on top of the list of posts
          None        \* no provider, no price, no object

ASSUME NoneAssumption == None \notin Bidders \cup Reads
ASSUME MaxRoutesAssumption == MaxRoutes \in Nat \ {0}

VARIABLES post,     \* the backend's record of the job
          assigned, \* history: the providers the backend has assigned to it
          read,     \* the requests for the post
          obj,      \* the object a request was answered with, blank before
          detail,   \* the detail screen: open, closing or gone; its object; its future
          accept,   \* the requests that accept a bid
          tapped,   \* the object whose row was tapped for each of them
          swapped,  \* history: bids an acceptance found in the row of the one it accepted
          routes,   \* the routes from the detail screen upwards
          request   \* provider and amount of each booking-save

jobVars == <<post, assigned, read, obj, detail, accept, tapped, swapped, routes, request>>
vars == <<saveVars, jobVars>>

Blank == [provider |-> None, price |-> None]

Detail == [kind |-> "detail"]
Other == [kind |-> "other"]
BookPost(r, p) == [kind |-> "book", obj |-> r, provider |-> p]
ConfirmDialog(r, p) == [kind |-> "confirm", obj |-> r, provider |-> p]
PaymentRoute(t) == [kind |-> "payment", of |-> t]
IsTop(r) == Len(routes) > 0 /\ routes[Len(routes)] = r
Popped == IF routes = <<>> THEN <<>> ELSE SubSeq(routes, 1, Len(routes) - 1)
RoomFor(n) == Len(routes) + n <= MaxRoutes

\* initState of the detail screen has sent the first read.
Init ==
  /\ SaveInit
  /\ loader = FALSE
  /\ post = Blank
  /\ assigned = {}
  /\ \E r \in Reads :
       /\ read = [q \in Reads |-> IF q = r THEN "sent" ELSE "unused"]
       /\ detail = [state |-> "open", shows |-> None, future |-> r]
  /\ obj = [r \in Reads |-> Blank]
  /\ accept = [b \in Bidders |-> "idle"]
  /\ tapped = [b \in Bidders |-> None]
  /\ swapped = {}
  /\ routes = <<Detail>>
  /\ request = [t \in Tries |-> [provider |-> None, amount |-> None]]

-----------------------------------------------------------------------------
(* Reading the post.                                                        *)

\* init() and setState: the builder waits for the new future.
SendRead(r) ==
  /\ read[r] = "unused"
  /\ read' = [read EXCEPT ![r] = "sent"]

\* A pull to refresh.
Refresh(r) ==
  /\ IsTop(Detail) /\ detail.shows # None
  /\ SendRead(r)
  /\ detail' = [detail EXCEPT !.future = r]
  /\ UNCHANGED <<saveVars, post, assigned, obj, accept, tapped, swapped, routes, request>>

\* The reload button of the error page calls init() and not setState.
Reload(r) ==
  /\ IsTop(Detail) /\ detail.shows = None /\ read[detail.future] = "failed"
  /\ SendRead(r)
  /\ loader' = TRUE
  /\ UNCHANGED <<call, wait, bookings, post, assigned, obj, detail, accept, tapped, swapped, routes, request>>

ServeRead(r) ==
  /\ read[r] = "sent"
  /\ read' = [read EXCEPT ![r] = "served"]
  /\ obj' = [obj EXCEPT ![r] = post]
  /\ UNCHANGED <<saveVars, post, assigned, detail, accept, tapped, swapped, routes, request>>

\* The builder shows the answer of the future it waits for; the loader is reset.
ReadArrives(r) ==
  /\ read[r] = "served"
  /\ read' = [read EXCEPT ![r] = "arrived"]
  /\ detail' = [detail EXCEPT !.shows = IF detail.future = r /\ detail.state # "gone"
                                        THEN r ELSE @]
  /\ loader' = FALSE
  /\ UNCHANGED <<call, wait, bookings, post, assigned, obj, accept, tapped, swapped, routes, request>>

ReadFails(r) ==
  /\ read[r] = "sent"
  /\ read' = [read EXCEPT ![r] = "failed"]
  /\ detail' = [detail EXCEPT !.shows = IF detail.future = r THEN None ELSE @]
  /\ loader' = FALSE
  /\ UNCHANGED <<call, wait, bookings, post, assigned, obj, accept, tapped, swapped, routes, request>>

-----------------------------------------------------------------------------
(* Accepting a bid.                                                         *)

\* The button is there while the object shown has no provider; savePostJobReq asks, sets
\* the loader and sends the assignment.
Accept(b) ==
  /\ IsTop(Detail) /\ detail.shows # None
  /\ obj[detail.shows].provider = None
  /\ accept[b] \in {"idle", "failed"}
  /\ accept' = [accept EXCEPT ![b] = "sent"]
  /\ tapped' = [tapped EXCEPT ![b] = detail.shows]
  /\ loader' = TRUE
  /\ UNCHANGED <<call, wait, bookings, post, assigned, read, obj, detail, swapped, routes, request>>

ServeAccept(b) ==
  /\ accept[b] = "sent"
  /\ accept' = [accept EXCEPT ![b] = "served"]
  /\ post' = [provider |-> b, price |-> b]
  /\ assigned' = assigned \cup {b}
  /\ UNCHANGED <<saveVars, read, obj, detail, tapped, swapped, routes, request>>

\* Mutant: the screen for the booking is launched whether the assignment went through or not.
AcceptFailsBooks(b) ==
  /\ accept[b] = "sent" /\ detail.shows # None
  /\ accept' = [accept EXCEPT ![b] = "failed"]
  /\ loader' = FALSE
  /\ obj' = [obj EXCEPT ![detail.shows].price = b]
  /\ routes' = Append(Popped, BookPost(detail.shows, b))
  /\ UNCHANGED <<call, wait, bookings, post, assigned, read, detail, tapped, swapped, request>>

\* Refused, or the answer is lost: catchError.
AcceptFails(b) ==
  /\ accept[b] \in {"sent", "served"}
  /\ accept' = [accept EXCEPT ![b] = "failed"]
  /\ loader' = FALSE
  /\ UNCHANGED <<call, wait, bookings, post, assigned, read, obj, detail, tapped, swapped, routes,
                 request>>

\* Whose bid is in the row that was tapped for b.  The rows have no keys: a row keeps its
\* place, and gets the bid that a later answer lists there.
RowNow(b) == IF detail.shows = tapped[b] THEN {b} ELSE Bidders

\* Assigned: the loader is reset, finish(context) pops the top route, the live stream
\* makes the detail screen read again, and then() reads widget.data anew: the price of the
\* bid now in the row goes into the object the row is now shown with, and the booking
\* screen is launched for that bid.
Accepted(b) ==
  /\ accept[b] = "served"
  /\ detail.state # "gone"
  /\ detail.shows # None
  /\ accept' = [accept EXCEPT ![b] = "done"]
  /\ loader' = FALSE
  /\ \E r \in Reads : SendRead(r) /\
       detail' = [detail EXCEPT !.future = r,
                                !.state = IF IsTop(Detail) THEN "closing" ELSE @]
  /\ \E c \in RowNow(b) :
       /\ obj' = [obj EXCEPT ![detail.shows].price = c]
       /\ routes' = Append(Popped, BookPost(detail.shows, c))
       /\ swapped' = swapped \cup ({c} \ {b})
  /\ UNCHANGED <<call, wait, bookings, post, assigned, tapped, request>>

\* The row is gone from the tree, with the screen or because a later answer lists fewer
\* bids: its context throws, and catchError resets the loader.
AcceptedUnmounted(b) ==
  /\ accept[b] = "served"
  /\ detail.state = "gone" \/ detail.shows \in {None} \cup (Reads \ {tapped[b]})
  /\ accept' = [accept EXCEPT ![b] = "done"]
  /\ loader' = FALSE
  /\ UNCHANGED <<call, wait, bookings, post, assigned, read, obj, detail, tapped, swapped, routes,
                 request>>

-----------------------------------------------------------------------------
(* Routes.                                                                  *)

\* The booking button of the detail screen, for a post that shows as assigned.
OpenBook ==
  /\ IsTop(Detail) /\ detail.shows # None
  /\ obj[detail.shows].provider # None
  /\ RoomFor(1)
  /\ routes' = Append(routes, BookPost(detail.shows, obj[detail.shows].provider))
  /\ UNCHANGED <<saveVars, post, assigned, read, obj, detail, accept, tapped, swapped, request>>

\* A provider's page, a question, a date picker or the map over whatever is on top.
OpenOther ==
  /\ routes # <<>> /\ ~IsTop(Other)
  /\ RoomFor(1)
  /\ routes' = Append(routes, Other)
  /\ UNCHANGED <<saveVars, post, assigned, read, obj, detail, accept, tapped, swapped, request>>

\* bookTheServiceClick.
OpenConfirm ==
  /\ RoomFor(1)
  /\ \E r \in Reads, p \in Bidders :
       /\ IsTop(BookPost(r, p))
       /\ routes' = Append(routes, ConfirmDialog(r, p))
  /\ UNCHANGED <<saveVars, post, assigned, read, obj, detail, accept, tapped, swapped, request>>

Back ==
  /\ routes # <<>>
  /\ routes' = Popped
  /\ detail' = [detail EXCEPT !.state = IF IsTop(Detail) THEN "closing" ELSE @]
  /\ UNCHANGED <<saveVars, post, assigned, read, obj, accept, tapped, swapped, request>>

\* dispose: the detail screen's closing animation has ended.
Unmount ==
  /\ detail.state = "closing"
  /\ detail' = [detail EXCEPT !.state = "gone"]
  /\ UNCHANGED <<saveVars, post, assigned, read, obj, accept, tapped, swapped, routes, request>>

-----------------------------------------------------------------------------
(* Booking.                                                                 *)

\* bookServices: the provider the screen was opened with, the price of its object.
RequestFor(r, p) == [provider |-> p, amount |-> obj[r].price]

\* The dialog closes and booking-save is sent; the dialog hides its buttons while loading.
ConfirmBooking(t) ==
  /\ ~loader
  /\ StartSave(t)
  /\ \E r \in Reads, p \in Bidders :
       /\ IsTop(ConfirmDialog(r, p))
       /\ request' = [request EXCEPT ![t] = RequestFor(r, p)]
  /\ routes' = Popped
  /\ UNCHANGED <<post, assigned, read, obj, detail, accept, tapped, swapped>>

\* The payment screen is launched on the navigator; nothing is closed.
Saved(t) ==
  /\ ReadAnswered(t, "ok")
  /\ IF wait[t] = "waiting"
     THEN RoomFor(1) /\ routes' = Append(routes, PaymentRoute(t))
     ELSE UNCHANGED routes
  /\ UNCHANGED <<post, assigned, read, obj, detail, accept, tapped, swapped, request>>

Request(t) ==
  /\ BackendSaves(t) \/ SaveAnswered(t) \/ CallFails(t) \/ TimesOut(t)
  /\ UNCHANGED jobVars

Next ==
  \/ \E r \in Reads : Refresh(r) \/ Reload(r) \/ ServeRead(r) \/ ReadArrives(r) \/ ReadFails(r)
  \/ \E b \in Bidders : Accept(b) \/ ServeAccept(b) \/ AcceptFails(b)
                        \/ Accepted(b) \/ AcceptedUnmounted(b)
  \/ OpenBook \/ OpenOther \/ OpenConfirm \/ Back \/ Unmount
  \/ \E t \in Tries : ConfirmBooking(t) \/ Saved(t) \/ Request(t)

Spec == Init /\ [][Next]_vars

\* Requests end, by an answer or by a failure.
FairSpec ==
  /\ Spec
  /\ \A r \in Reads : WF_vars(ServeRead(r) \/ ReadArrives(r) \/ ReadFails(r))

-----------------------------------------------------------------------------
(* Properties.                                                              *)

\* A booking goes to a provider the backend has assigned, at the price of a bid it has
\* assigned (though the object that holds the price is shared by the screens, written by
\* each acceptance, replaced by each read, and looked at only when the booking is sent),
\* with one exception: a bid that a read, shown while an acceptance was on its way, put into
\* the row of the accepted one.  Nothing else books a bid that was not assigned: no refused
\* or lost acceptance, no object left behind by a closed screen.
BooksAssignedOnly ==
  \A t \in bookings : {request[t].provider, request[t].amount} \subseteq assigned \cup swapped

\* my_post_detail_screen.dart:439, the error page's button "Reload": once the post has been
\* read again, and no later read has failed, the screen shows it.
ReloadShows ==
  \A r \in Reads :
    (read[r] = "arrived" /\ detail.state = "open" /\ detail.shows = None)
      ~> (detail.shows # None \/ detail.state # "open"
            \/ \E q \in Reads \ {r} : read[q] \in {"sent", "served"})
=============================================================================
