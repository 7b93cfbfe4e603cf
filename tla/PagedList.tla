------------------------------ MODULE PagedList ------------------------------
(***************************************************************************)
(* The customer's booking list (lib/screens/dashboard/fragment/              *)
(* booking_fragment.dart, getBookingList of lib/network/rest_apis.dart): one *)
(* page at a time is appended to a list that the requests share, and the     *)
(* filter comes from a store that other screens use and replace.             *)
(*                                                                           *)
(* Nothing ties an answer to the request the screen waits for: answers are   *)
(* applied as they come, and a failure is shown for the last request only.   *)
(* appStore.isLoading is left out: every screen sets and resets it, and here *)
(* nothing tests it.                                                         *)
(***************************************************************************)
EXTENDS Naturals, Sequences

CONSTANTS Filters,     \* what can be in filterStore
          NoFilter,    \* a new or cleared FilterStore
          Rows,        \* how many bookings the backend has for a filter
          PerPage,     \* PER_PAGE_ITEM
          MaxRequests  \* bound: requests sent

VARIABLES open,       \* the booking tab is mounted
          req,        \* the requests, in the order they were sent
          page,       \* page
          isLastPage, \* isLastPage
          bookings,   \* the list of the mounted tab
          shows,      \* what the FutureBuilder shows: a list, the error page, the shimmer
          cached,     \* cachedBookingList is set
          filter,     \* the filter in filterStore
          applied     \* history: the requests whose answers went into the list, in order

vars == <<open, req, page, isLastPage, bookings, shows, cached, filter, applied>>

Lesser(a, b) == IF a < b THEN a ELSE b

\* Rows a+1 to b of a filter.
Slice(f, a, b) == [i \in 1..(b - a) |-> [filter |-> f, row |-> a + i]]

\* The backend's page p.
PageOf(f, p) ==
  LET before == (p - 1) * PerPage IN
    IF before >= Rows[f] THEN <<>> ELSE Slice(f, before, Lesser(p * PerPage, Rows[f]))

Waiting(r) == req[r].state = "sent"

-----------------------------------------------------------------------------
(* The tab.                                                                 *)

Sent(p, f) == [page |-> p, filter |-> f, state |-> "sent"]
Orphaned(rs) == [r \in DOMAIN rs |-> IF rs[r].state = "sent"
                                     THEN [rs[r] EXCEPT !.state = "orphan"] ELSE rs[r]]

\* initState: the first page is asked for with the filter left in the store, then the
\* store is replaced.  The tab may be built anew, its predecessor's dispose to follow.
Open ==
  /\ Len(req) < MaxRequests
  /\ open' = TRUE
  /\ req' = Append(Orphaned(req), Sent(1, filter))
  /\ page' = 1 /\ isLastPage' = FALSE /\ bookings' = <<>>
  /\ shows' = IF cached THEN "list" ELSE "shimmer"
  /\ applied' = <<>>
  /\ filter' = NoFilter
  /\ UNCHANGED cached

Init ==
  /\ open = TRUE
  /\ req = <<Sent(1, NoFilter)>>
  /\ page = 1 /\ isLastPage = FALSE /\ bookings = <<>>
  /\ shows = "shimmer"
  /\ cached = FALSE
  /\ filter = NoFilter
  /\ applied = <<>>

\* dispose: another tab is chosen.
Leave ==
  /\ open
  /\ open' = FALSE
  /\ filter' = NoFilter
  /\ req' = Orphaned(req)
  /\ UNCHANGED <<page, isLastPage, bookings, shows, cached, applied>>

\* The services screen replaces the store, fills it with a filter of its own, clears it.
OtherScreen ==
  /\ open
  /\ \E f \in Filters \ {filter} : filter' = f
  /\ UNCHANGED <<open, req, page, isLastPage, bookings, shows, cached, applied>>

\* clearPreferences, at any time.
ForgetCache ==
  /\ cached' = FALSE
  /\ UNCHANGED <<open, req, page, isLastPage, bookings, shows, filter, applied>>

-----------------------------------------------------------------------------
(* Requests.                                                                *)

\* page is set, and init() sends the request.
Request(p, f) ==
  /\ open
  /\ Len(req) < MaxRequests
  /\ page' = p
  /\ req' = Append(req, Sent(p, f))

\* onNextPage: the end of the list shown has been scrolled to.
NextPage ==
  /\ shows = "list"
  /\ ~isLastPage
  /\ Request(page + 1, filter)
  /\ UNCHANGED <<open, isLastPage, bookings, shows, cached, filter, applied>>

\* A swipe, the reload button, a booking-update of any screen.
Refresh ==
  /\ Request(1, filter)
  /\ UNCHANGED <<open, isLastPage, bookings, shows, cached, filter, applied>>

\* BookingFilterScreen returns with a filter applied or cleared.
ApplyFilter ==
  /\ \E f \in Filters \ {filter} : filter' = f /\ Request(1, f)
  /\ UNCHANGED <<open, isLastPage, bookings, shows, cached, applied>>

-----------------------------------------------------------------------------
(* Answers.                                                                 *)

\* Mutant: the first page is added without a clear.
NeverCleared(p, list) == list

\* if (page == 1) bookings.clear()
Cleared(p, list) == IF p = 1 THEN <<>> ELSE list

\* The rows are added, the callback sets isLastPage, the cache is set.
\* The builder shows the list once the request it waits for, the last one, is answered.
Answer(r) ==
  /\ Waiting(r)
  /\ LET rows == PageOf(req[r].filter, req[r].page) IN
       /\ bookings' = Cleared(req[r].page, bookings) \o rows
       /\ isLastPage' = (Len(rows) # PerPage)
  /\ cached' = TRUE
  /\ shows' = IF r = Len(req) THEN "list" ELSE shows
  /\ req' = [req EXCEPT ![r].state = "ok"]
  /\ applied' = Append(applied, r)
  /\ UNCHANGED <<open, page, filter>>

\* The error page is shown for the last request only.
Fail(r) ==
  /\ Waiting(r)
  /\ shows' = IF r = Len(req) THEN "error" ELSE shows
  /\ req' = [req EXCEPT ![r].state = "failed"]
  /\ UNCHANGED <<open, page, isLastPage, bookings, cached, filter, applied>>

\* A request of a tab that is gone ends: its list is the cache from now on.
OrphanEnds(r) ==
  /\ req[r].state = "orphan"
  /\ cached' \in {cached, TRUE}
  /\ req' = [req EXCEPT ![r].state = "gone"]
  /\ UNCHANGED <<open, page, isLastPage, bookings, shows, filter, applied>>

Next ==
  \/ Open \/ Leave \/ OtherScreen \/ ForgetCache \/ NextPage \/ Refresh \/ ApplyFilter
  \/ \E r \in DOMAIN req : Answer(r) \/ Fail(r) \/ OrphanEnds(r)

Spec == Init /\ [][Next]_vars

-----------------------------------------------------------------------------
(* Properties.                                                              *)

\* The last time the first page was asked for.
LastRefresh == CHOOSE r \in DOMAIN req :
                 req[r].page = 1 /\ \A q \in DOMAIN req : q > r => req[q].page # 1

\* The answers of the last refresh and of the pages asked for since, in this order, are
\* the last ones that went into the list.
AppliedInOrder ==
  LET since == Len(req) - LastRefresh + 1 IN
    /\ Len(applied) >= since
    /\ \A i \in 1..since : applied[Len(applied) - since + i] = LastRefresh - 1 + i

\* They were all asked for with the filter now in the store.
SameFilter == \A r \in LastRefresh..Len(req) : req[r].filter = filter

\* The list holds the backend's bookings for the filter from the first row to the end of
\* the current page, none twice and none left out, and does not claim to be complete before
\* it is, whatever was asked for, failed or was overtaken before, provided the answers since
\* the last refresh came in order and no other screen changed the filter.
ListIsWhole ==
  open /\ AppliedInOrder /\ SameFilter =>
    /\ bookings = Slice(filter, 0, Lesser(page * PerPage, Rows[filter]))
    /\ isLastPage => Len(bookings) = Rows[filter]
=============================================================================
