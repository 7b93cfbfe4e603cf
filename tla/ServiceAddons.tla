----------------------------- MODULE ServiceAddons -----------------------------
(***************************************************************************)
(* The chosen add-ons.  One global list, serviceAddonStore                   *)
(* .selectedServiceAddon, is cleared and filled by every service page        *)
(* (lib/screens/service/service_detail_screen.dart) through the component of *)
(* lib/screens/service/addons/service_addons_component.dart, priced by the   *)
(* booking screen (lib/screens/booking/book_service_screen.dart) and sent by *)
(* the confirmation dialog.  Service pages pile up: a page opens another one *)
(* for a related service, and a notification opens one over any route.       *)
(*                                                                           *)
(* An answer of service-detail brings add-on objects of its own; an object   *)
(* carries the mark isSelected.                                              *)
(***************************************************************************)
EXTENDS Naturals, Sequences

CONSTANTS Services, \* services with a page
          Slots,    \* the add-ons a service offers
          Answers,  \* answers of service-detail, each used once
          None,     \* a page without an answer yet
          MaxDepth  \* bound: routes above the home screen

VARIABLES routes,               \* the routes above the home screen, the top last
          answerOf,             \* the service each answer belongs to, None before it
          isSelected,           \* the add-on objects marked as chosen
          selectedServiceAddon, \* the global list
          booked                \* the last request sent by a confirmation dialog

vars == <<routes, answerOf, isSelected, selectedServiceAddon, booked>>

Objects == Answers \X Slots
ObjectsOf(g) == {o \in Objects : o[1] = g}
Top == routes[Len(routes)]
OnTop(kind) == routes # <<>> /\ Top.kind = kind
WithTop(r) == [routes EXCEPT ![Len(routes)] = r]

\* The fields of a page: its service, the answer it shows and whether a request is
\* under way; of a booking screen or dialog: its service, the add-ons in its price,
\* and the list its component shows, shared with the store until that is replaced.
\* disturbed: a service page was opened above the route, or above the page it came from.
Route(kind, s, disturbed) ==
  [kind |-> kind, service |-> s, answer |-> None, asking |-> FALSE,
   priced |-> {}, list |-> {}, shares |-> FALSE, disturbed |-> disturbed]

Init ==
  /\ routes = <<>>
  /\ answerOf = [g \in Answers |-> None]
  /\ isSelected = {}
  /\ selectedServiceAddon = {}
  /\ booked = [service |-> None, priced |-> {}, sent |-> {}, disturbed |-> FALSE]

-----------------------------------------------------------------------------
(* The service page.                                                        *)

\* Mutant: the list is not cleared when a page opens.
OpenPageKeepsList(s) ==
  /\ Len(routes) < MaxDepth
  /\ routes' = Append([i \in DOMAIN routes |-> [routes[i] EXCEPT !.disturbed = TRUE]],
                      [Route("page", s, FALSE) EXCEPT !.asking = TRUE])
  /\ UNCHANGED <<answerOf, isSelected, selectedServiceAddon, booked>>

\* initState: the list is cleared in place, under whoever shares it.
OpenPage(s) ==
  /\ Len(routes) < MaxDepth
  /\ selectedServiceAddon' = {}
  /\ routes' = Append([i \in DOMAIN routes |->
                         [routes[i] EXCEPT !.disturbed = TRUE,
                                           !.list = IF routes[i].shares THEN {} ELSE @]],
                      [Route("page", s, FALSE) EXCEPT !.asking = TRUE])
  /\ UNCHANGED <<answerOf, isSelected, booked>>

\* onSwipeRefresh; the page shows the answer it has until the new one arrives.
Refresh ==
  /\ OnTop("page") /\ Top.answer # None /\ ~Top.asking
  /\ routes' = WithTop([Top EXCEPT !.asking = TRUE])
  /\ UNCHANGED <<answerOf, isSelected, selectedServiceAddon, booked>>

\* service-detail is answered: its objects are new and unmarked, the list stays.
DetailArrives(i, g) ==
  /\ routes[i].asking /\ answerOf[g] = None
  /\ routes' = [routes EXCEPT ![i].asking = FALSE, ![i].answer = g]
  /\ answerOf' = [answerOf EXCEPT ![g] = routes[i].service]
  /\ UNCHANGED <<isSelected, selectedServiceAddon, booked>>

\* It fails: the page shows the error alone.
DetailFails(i) ==
  /\ routes[i].asking
  /\ routes' = [routes EXCEPT ![i].asking = FALSE, ![i].answer = None]
  /\ UNCHANGED <<answerOf, isSelected, selectedServiceAddon, booked>>

\* handleAddRemove flips the mark of the object.
Toggled(o) == IF o \in isSelected THEN isSelected \ {o} ELSE isSelected \cup {o}

\* setSelectedServiceAddon makes the global list a new one, shared by nobody yet.
Unshared == [i \in DOMAIN routes |-> [routes[i] EXCEPT !.shares = FALSE]]

\* handleAddRemove on the page: the list becomes the marked objects of its answer.
AddRemove(o) ==
  /\ OnTop("page") /\ o \in ObjectsOf(Top.answer)
  /\ isSelected' = Toggled(o)
  /\ selectedServiceAddon' = ObjectsOf(Top.answer) \cap isSelected'
  /\ routes' = Unshared
  /\ UNCHANGED <<answerOf, booked>>

\* bookNow: the booking screen prices the global list in its initState.
BookNow ==
  /\ OnTop("page") /\ Top.answer # None /\ Len(routes) < MaxDepth
  /\ routes' = Append(routes, [Route("book", Top.service, Top.disturbed) EXCEPT
                                 !.priced = selectedServiceAddon,
                                 !.list = selectedServiceAddon, !.shares = TRUE])
  /\ UNCHANGED <<answerOf, isSelected, selectedServiceAddon, booked>>

-----------------------------------------------------------------------------
(* The booking screen and its dialog.                                       *)

\* setPrice and its setState: the price and the component take the global list.
Repriced(list) == [Top EXCEPT !.priced = list, !.list = list, !.shares = TRUE]

\* A change of the quantity or the coupon.
SetPrice ==
  /\ OnTop("book")
  /\ routes' = WithTop(Repriced(selectedServiceAddon))
  /\ UNCHANGED <<answerOf, isSelected, selectedServiceAddon, booked>>

\* Mutant: the price is not computed again.
RemoveKeepsPrice(o) ==
  /\ OnTop("book") /\ o \in Top.list
  /\ isSelected' = Toggled(o)
  /\ selectedServiceAddon' = Top.list \cap isSelected'
  /\ routes' = [Unshared EXCEPT ![Len(routes)] =
                  [Top EXCEPT !.list = selectedServiceAddon', !.shares = TRUE]]
  /\ UNCHANGED <<answerOf, booked>>

\* handleAddRemove on the booking screen; an object taken out cannot be put back.
Remove(o) ==
  /\ OnTop("book") /\ o \in Top.list
  /\ isSelected' = Toggled(o)
  /\ selectedServiceAddon' = Top.list \cap isSelected'
  /\ routes' = [Unshared EXCEPT ![Len(routes)] = Repriced(selectedServiceAddon')]
  /\ UNCHANGED <<answerOf, booked>>

\* Flutter builds the booking screen again: the component takes the global list,
\* the price is kept.
Rebuild ==
  /\ OnTop("book")
  /\ routes' = WithTop([Top EXCEPT !.list = selectedServiceAddon, !.shares = TRUE])
  /\ UNCHANGED <<answerOf, isSelected, selectedServiceAddon, booked>>

\* The dialog is given the price of the booking screen.
OpenDialog ==
  /\ OnTop("book") /\ Len(routes) < MaxDepth
  /\ routes' = Append(routes, [Route("dialog", Top.service, Top.disturbed)
                                 EXCEPT !.priced = Top.priced])
  /\ UNCHANGED <<answerOf, isSelected, selectedServiceAddon, booked>>

\* bookServices: the price given, and the ids of the global list as it is now.
BookServices ==
  /\ OnTop("dialog")
  /\ booked' = [service |-> Top.service, priced |-> Top.priced,
                sent |-> selectedServiceAddon, disturbed |-> Top.disturbed]
  /\ UNCHANGED <<routes, answerOf, isSelected, selectedServiceAddon>>

Back ==
  /\ routes # <<>>
  /\ routes' = SubSeq(routes, 1, Len(routes) - 1)
  /\ UNCHANGED <<answerOf, isSelected, selectedServiceAddon, booked>>

Next ==
  \/ \E s \in Services : OpenPage(s)
  \/ \E i \in DOMAIN routes : DetailFails(i) \/ \E g \in Answers : DetailArrives(i, g)
  \/ \E o \in Objects : AddRemove(o) \/ Remove(o)
  \/ Refresh \/ BookNow \/ SetPrice \/ Rebuild \/ OpenDialog \/ BookServices \/ Back

Spec == Init /\ [][Next]_vars

-----------------------------------------------------------------------------

\* A booking whose route, and the service page under it, never had another service
\* page opened above them sends exactly the add-ons in its price, and all of them
\* are add-ons of the service booked, whatever was refreshed or removed meanwhile.
UndisturbedBookingIsConsistent ==
  ~booked.disturbed =>
    /\ booked.sent = booked.priced
    /\ \A o \in booked.sent : answerOf[o[1]] = booked.service

\* The button of a marked add-on reads Remove: what the page marks as chosen is what
\* the booking opened from it starts with.
BooksMarkedAddons ==
  [][ BookNow => selectedServiceAddon = ObjectsOf(Top.answer) \cap isSelected ]_vars
=============================================================================
