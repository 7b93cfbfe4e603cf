# Verification of the customer app

This directory holds TLA+ models of the Flutter customer app under `src/lib`, the TLC
configurations that check them, and TLAPS proofs of their main properties. The app lets a
customer book a home service, follow the provider, pay, and chat. It talks to a REST backend,
to Firebase and to ten payment gateways; none of these are in the repository, and they
appear in the models only as environments that answer what the app's code expects, or do not.

Dart runs the app in one isolate. Code between two `await`s is atomic; at every `await`
anything else may run: another screen's request, a timer, a late answer, a tap. This is the
concurrency of all the models: one action is the code from one `await` to the next.

## Inventory

| Component | State | Operations and interaction | What is hard | Correct when |
|---|---|---|---|---|
| HTTP layer (`network_utils.dart`) | none of its own; reads `appStore` | bearer header, send, 401 -> silent login -> one resend, error mapping | resend while the session changes; silent login through the same code | a call is sent at most twice; a session ends or goes on, nothing between |
| Session (`rest_apis.dart`, `app_store.dart`, `sign_in_screen.dart`) | signed-in flag, token, user id, e-mail, password, remember-me, each with a preference; caches of `main.dart` | `loginUser`, `saveUserData`, `clearPreferences`, `logout`, `getUserDetail` | long chains of awaited writes, interleaved, cut by a kill | signed in implies a token; data of a user who left is gone |
| Start and configuration (`splash_screen.dart`, `app_configuration.dart`) | fetch attempts, watcher, reload flag; sync time, sync flag, authorisation flag | fetch with three attempts and timeouts, late watcher, reload, leave | timeouts that do not cancel; three ways to leave; flags from an old answer | leaves once; never hangs; signs out inactive users only |
| Booking detail (`booking_detail_screen.dart`, `reason_dialog.dart`) | shown snapshot, status, location timer, spinner | read, status callback, start/stop timer, pause/resume, cancel | reads out of order, stale snapshot, timers that outlive their handle | an on-going booking is tracked; a spinner ends; only early bookings are cancelled |
| Payment (`payment_screen.dart`, `services/*`) | amount, chosen method, loader; per gateway: sheet, page, dialog | pay button, ten gateways, `save-payment` | overlapping tries, cancelled or lost checkouts, kills, the global loader | recorded implies charged; paid implies paid in full; the loader goes off |
| Booking creation (`confirm_booking_dialog.dart`, `saveBooking`) | dialog, loader as last drawn, routes, selected services | `booking-save` and `booking-detail` under a 45 s limit, then the payment screen | a time limit that does not cancel; a dialog popped under its own request | overlapping requests have a cause; a payment screen belongs to a saved booking; the wait ends |
| Service page and add-ons (`service_detail_screen.dart`, `service_addons_component.dart`) | one global list of chosen add-ons, a mark in each object | open, refresh, add, remove, book | pages pile up over one list | what is priced is what is sent |
| Price calculation (`booking_calculations_logic.dart`, `book_service_screen.dart`) | quantity, coupon, add-ons, amounts | discount, coupon, tax, add-ons, package | every step rounds; a coupon larger than the price | the quote is that of the inputs shown and near the exact one |
| Chat (`chat_services.dart`, `user_chat_screen.dart`) | Firestore contacts, messages, read marks, presence | open, mark read, set online, send, clear | two clients writing the same contact documents | who left is not shown as present; read means opened |
| Phone sign-in (`otp_login_screen.dart`) | in-flight flag, last failure, loader | send code, four Firebase callbacks, typed code, backend login | callbacks twice and out of order; automatic and typed login together | one verification at a time; a saved user gets to the dashboard |
| Notifications (`firebase_messaging_utils.dart`, ...) | topic subscriptions, the switch | subscribe, unsubscribe | unawaited, raced by sign-out | subscribed as the user signed in, and as nobody else |
| Lists (`booking_fragment.dart`, ...) | page, last-page flag, items, cache, filter store | refresh, next page, filter | a refresh racing a next page; a store others replace | no gap, no duplicate |
| Wallet (`user_wallet_balance_screen.dart`, `app_store.dart`) | amount field, balance shown | top-up through a gateway, balance request | the amount is read twice; answers cross sign-outs | credited equals charged; the balance shown is one's own |
| Job requests (`screens/jobRequest`) | post, bids, an answer several screens share | read, accept, book | an acceptance writes into a shared object, for whichever bid is in its row by then | a booking goes to an assigned provider at an assigned price |
| Filters, roles, deep links, catalogue, blog, help desk, reviews, profile | flags and lists | one request each | little | - |

Not the app's own logic and left out: the texts in `lib/locale`, JSON models in `lib/model`,
generated `*.g.dart`, shimmer and layout widgets, the Android, iOS, web and desktop shells.

`PROJECT.json` lists the components with their state, the hazards with the line where each
bites, and for every definition of the models the lines it stands for.

## Plan

The order in which the models were written, each with its proofs:

1. `Session` with the abstract contract of a call, `Splash`, `BookingDetail`, `Payment`.
2. `SaveBooking` (the shared `saveBooking`), `BookingFlow` and `JobRequest` on top of it.
3. `PhoneAuth` and `Chat`.
4. `PagedList`, `Topics`, `Wallet`, `ServiceAddons`, `Pricing`, put together by `Screens`.

Left: hold, resume and completion in `BookingDetail`; one specification in which `Topics` and
`Wallet` run on the session of `Session` (each has its own copy of the session fields, with every
save and every await of a clearing at any time); creating and deleting job posts; attachments in
`Chat`.

## Modules

### Session, HttpContract

`Session` models chains of awaits, called flows: a screen's request, a sign-in, or a sign-out.
`flow[f].pc` is where the chain is suspended; `kind`, `sends`, `bearer`, `user`, `account`,
`nest` are the local variables that matter. `store` is the session part of `AppStore`
together with the preferences: every setter writes both. `cached` says whose data
`cachedBookingList` and `cachedBookingDetailList` hold. `valid` and `issued` are the
backend's tokens. Two history variables serve the properties: `outrun` are the flows during
whose run another one changed the owner of the stored token, `setLate` says that the flag was
last set by a save that a sign-out had overtaken.

| Action | Code |
|---|---|
| `SendRequest`, `Resend` | `buildHttpResponse` up to its `await`; the header is built from the store at that moment |
| `Unauthorized`, `ReGenerateToken`, `ReauthAccepted`, `ReauthUnauthorized` | status 401, `reGenerateToken`, and `loginUser`, which is a `buildHttpResponse` call itself |
| `Throws` | any other status, and a lost connection |
| `SendLogin`, `LoginAnswer`, `SaveToken` ... `SavePassword` | the sign-in screen and `saveUserData` |
| `LogoutTap`, `LogoutOffline`, `Logout`, `ClearLoggedIn` ... `ClearPassword` | `logout` and `clearPreferences`; the writes between two modelled ones touch fields nothing here reads |
| `SplashUnauthorized` | the splash screen's use of `clearPreferences` |
| `UserDetailAnswer`, `BookingAnswer`, `LogoutAnswer` | `getUserDetail` + `saveUserData`, the caching requests, `logoutApi` |
| `Restart`, `RestartInSave` | a kill between two writes, also between the unawaited `setLoggedIn` and `setUserId` |

Sign-ins, sign-outs and the requests of the screens overlap in any order: an answer is saved
whoever is signed in by then and however far a clearing has come. The one assumption about
answers is that a sign-in answer carries an `api_token`; a user-detail answer may or may not. Only
the request kinds that leave something behind are told apart. `sendMultiPartRequest` follows the
same protocol as `buildHttpResponse` (a resend only with a request builder, none on the second send).

`HttpContract` is the abstract promise of a call: sent once, and once more only after a silent
login of its own. Its steps are stated per call and the calls are independent, because one
step of the app (a restart, a sign-out that sends `logout`) can move several flows.
`Session!Contract` is the refinement mapping: `pc` to a phase, `sends` to itself.

### Splash

`splash` holds the fields of `_SplashScreenState` and what the last frame shows; `init[i]` where a
call of `init()` is suspended, and whether its screen has been disposed of; `prefs`
the stored flags; `late` the fetches nobody awaits any more, each with the information
whether it was sent signed in; `leaving` and `launches` count the calls of
`_navigateFromSplashAfterConfig` that await `clearPreferences` and the routes launched.
`Draw` is the next frame: until then the reload button (`splash.button`) is still there after it was
tapped, and a second tap starts a second `init()`. `again` counts such taps.
`MaxAttempts` is the code's 3 and `MaxTicks` stands for its 60. After the splash screen,
`SignIn`, `SignOut` and `UserDashboard` are the other users of the configuration, and
`WarmRestart` is `RestartAppWidget` after a change of language. Bounds: `MaxStarts` splash screens,
`Inits` calls of `init()` at a time, `MaxAgain` taps that come too late.

### BookingDetail

One life of the screen. `reads` are booking-detail requests; `Serve` is the moment the
backend answers, `Arrive` the moment the answer reaches the app, so answers overtake each
other. The shown snapshot follows the last read sent (`FutureBuilder`), `bookingStatus` the
last to arrive. `timer.current` is the timer in `_locationUpdateTimer`, `timer.stray` that
one which was replaced without being cancelled still runs. Bound: `MaxPolls` location
requests under way at once.

### Payment

A try is one tap on the pay button. `tries[c]` keeps the method, the arguments of the screen
it was started from, whether that screen is still mounted, whether a dialog or page of the
try is up, and whether the gateway has charged. `screen.pay` is whether the *last build*
shows the button: it is inside no `Observer`, so it is stale until something rebuilds the
screen. `Dispatch` gives the outcomes of `_handleClick` for each method; each gateway's own
steps follow (`StripeSettings` - `StripePresent`, `SadadInvoice`, `PhonePeInit`, `Verify`,
`AirtelRequest`, `DelayEnds`); `SaveApplies`, `SaveAnswered`, `SaveFails` are
`save-payment` at the backend and back. `Finish` is `finish(context)`, which pops whatever
route is on top. `booking` is the backend's record; how it books a payment (`Accounted`) is
external: the status is stored, a positive amount that is not pending is added.

Bounds and abstractions: two tries; one charge per try; other screens' use of the loader is
left out; a payment CinetPay refuses changes nothing until its page is closed; a method the backend does not
configure is not in `Gateways`. An amount is a natural number (`Total`), and the percentage is
rounded down; no property depends on the rounding.

Nothing can be paid with Airtel Money: `authorizeAirtelClient` passes no `extraKeys`, which
`airtelPayBuildHttpResponse` unwraps (`airtel_money_service.dart:331`), so the first request of the
dialog throws before it is sent and nobody catches it. `AirtelRequest` is what is left: the loader goes
on under a dialog that can be submitted again or closed. The payment and its status checks are not
modelled, since no execution reaches them.

### SaveBooking, BookingFlow

`SaveBooking` is `saveBooking` as both callers see it: `call[t]` is where the two requests of
try `t` are, `wait[t]` what the caller has been told, `bookings` what the backend has saved.
`TimesOut` is `Future.timeout`: the caller gives up and the call goes on as a straggler, whose
detail read still resets the global loader. `BookingFlow` adds the confirmation dialogs, the
navigator and the booking screen underneath. `built` is the loader as of the dialog's last
build, so a tap can beat the drawing of the loader. `PopThenPay` is `finish(context)` followed
by the launch of the payment screen: it pops whatever is on top. `Saved` is `then()`; when the
dialog's context is gone it throws, and the customer is told of a failure for a booking that
exists. The position lookup of the booking screen asks for the permission (`Locate`), then sets the
loader (`LocationAllowed`) and resets it at its end (`LocationEnds`). Bound: the number of taps and dialogs.

### JobRequest

Extends `SaveBooking`. The answer to a read is an object (`obj[r]`) that the detail screen
and the booking screens opened from it share. `Accepted` is `then()` of an acceptance: it pops the top
route, makes the detail screen read again, and reads `widget.data` anew. The rows have no keys, so
after a read that was shown meanwhile (`tapped[b]` is no longer what the screen shows) the row may hold
any bid (`RowNow`): that bid's price is written into the object shown, and the booking screen is launched
for it. `swapped` records such bids. `RequestFor` takes the price from the object when the booking is
sent. `Reload` is the error page's button, which does not rebuild the screen. A price is named by the
bid it belongs to. Bound: `MaxRoutes` routes.

### PhoneAuth

`call[v]` is one tap on "send": the probe of Firebase's host, the in-flight flag, then
`verifyPhoneNumber` and its callbacks (`FirstFailure`, `SecondFailure`, `VerifyThrows`,
`CodeSent`, `CodeAutoRetrievalTimeout`, `VerificationCompleted`). `login[p]` is a login, of an
automatic verification or of a typed code; both go through `_completeBackendOtpLogin`. The five
seconds in which a second failure is suppressed are not measured: `lastFailure` stays until
the next request for a code. What Firebase does is external.

### Chat

Two instances of the chat screen on shared documents. A user's presence is a field of the
*other* user's contact document; `writes[u]` are the presence writes of a device under way,
which Firestore applies in order. An update of a missing document fails (`PresenceNotFound`), and only
then, behind whatever was written meanwhile, the merging set is sent (`PresenceMerged`). `inits[u]` are the
`init()` under way, each with the screen it belongs to: they go on after their screen has closed, also when
the chat has been opened again. `stage[m]` follows `sendMessages` through `addToContacts` (a get and a
whole-document set for each side) and the two copies of a message. The model reads 1 as online, as all
callers of `setOnlineCount` and `isReceiverUserOnline` do. Bounds: `MaxWrites` and `MaxOpens`, for both users
together.

### PagedList, Topics, Wallet, ServiceAddons, Pricing, Screens, MCScreens

* `PagedList`: the requests of the booking list in the order sent (`req`), the rows shown,
  and the filter store that other screens replace. An answer is applied when it comes,
  whichever request it belongs to; `applied` remembers the order. The backend's rows do not change
  while the list is read. `clearPreferences` drops the cache at any time (`ForgetCache`).
* `Topics`: a run is one call of a topic function. `Permitted` is the point where the user id
  is read; the queue is Firebase Messaging's. `SaveUserData` is the saving of any login or user-detail
  answer, whoever is signed in and however far a clearing has come; `SignOut`, `LoggedOut` and `Cleared` are
  the three awaits of `clearPreferences` the topics depend on, and two clearings may overlap. `seen` records
  what excuses an odd outcome.
* `Wallet`: an amount of money in a wallet is the set of top-ups in it, so that "lost" means
  something. `HandleClick` fixes the amount charged, `OnComplete` reads the field again,
  `WalletTopUp` takes the token after 100 ms. `SaveToken`, `SaveLoggedIn`, `ClearLoggedIn`, `ClearToken` and
  `ClearBalance` are the awaits of `saveUserData` and `clearPreferences` one by one, in any interleaving: the
  last one calls `setUserWalletAmount`, which tests the flag again and may find it set.
* `ServiceAddons`: the routes with their snapshot of the list. Dart lists are shared by
  reference: `shares` says whether a component still shows the global list object, so that
  `clear()` empties it too, and `setSelectedServiceAddon`, which makes a new list, does not.
* `Pricing`: `finalCalculations` in hundredths, with the roundings of `toStringAsFixed` at each
  step and both ways a tie may go. An add-on is a name with a price, so that two of the same price
  both count; the sum of the taxes is rounded once more, as in the code. `ExactTotal` is the
  reference without rounding, and `Allowance` what the roundings can amount to: half a grain each
  for price, discount, coupon and subtotal, taxed, and half a grain for every tax.

`Screens` is one specification for the five, so that one run checks them: a behaviour picks one in
its initial state (`part`) and uses it alone. This is no composition, and no theorem is about it. In the code
the parts do share state, and each module leaves open what the others do to it: the session (`isLoggedIn`,
`userId`, token) is in `Topics` and in `Wallet`, where saves and clearings come at any time; the list's cache
is cleared at any time; the global `appStore.isLoading` is set and reset by all of them and guards no step of
any of these modules (the switch of the settings screen ignores taps while it is on, but any other screen may
take it off). `Screens` also holds what the five assume of their constants, and `MCScreens` gives these
constants small values for TLC.

## Runs

| Run | Instance | Shows |
|---|---|---|
| `session_token` | 2 users, 2 flows, `userDetail`, 3 tokens, nesting 1 | `LoggedInHasToken`, `ForeignTokenHasCause` |
| `session_contract` | 1 user, 2 flows, `bookingList` and `userDetail`, 3 tokens, nesting 2 | `TypeOK`, refinement of `HttpContract` (`SendsAtMostTwice`) |
| `splash` | 3 attempts, 2 ticks, 3 starts, 2 `init()` at a time, 1 tap too late, fair | `TypeOK`, `NavigatesOnce`, `SplashSettles`, `LateSyncLeaves` |
| `booking_detail` | 2 reads, 2 location requests, fair | `TrackingAlive`, `LocationLoaderEnds` |
| `payment` | 2 tries, all methods but RazorPay and PayStack, total 10, 20 % | `RecordedWasCharged`, `PaidMeansPaidInFull`, `OverpaidSharesSnapshot`, `LoaderHasReason`, `ChargeLossHasCause` |
| `payment_cinetpay` | 2 tries; CinetPay, cash | violation of `AcceptedByCinetPayIsSaved` |
| `booking_flow` | 2 taps, 2 dialogs, fair | `OverlapHasCause`, `PaymentScreensAreDue`, `LoadingEnds` |
| `booking_retry` | 2 taps, 1 dialog | violation of `RetrySendsSamePackage` |
| `job_request` | 2 bids, 3 reads, 1 booking, 3 routes | `BooksAssignedOnly` |
| `phone_auth` | 3 calls, 2 typed codes | `OneVerificationAtATime`, `SignedInIsShown`, `LoaderIsWaiting` |
| `chat` | 1 message, 2 writes at a time, 2 openings | `PresenceCleared`, `ReadMeansOpened` |
| `screens` | list: 4 requests, 2 filters, pages of 2 over 4 and 1 rows; topics: 2 users, 3 calls; wallet: 2 accounts, 1 top-up, 2 requests and 1 clearing at a time; add-ons: 2 services with 2 add-ons, 2 answers, 3 routes; price: 3 services, 4 coupons, 3 taxes, 2 add-ons, 3 precisions, quantity 4 | `ListIsWhole`; `SubscribedWhenSettled`, `NoTopicLeftBehind`; `ShownIsOwn`, `CreditIsCharge`, `LosesOnlyByOvertaking`; `UndisturbedBookingIsConsistent`; `QuoteOfPresentInputs`, `QuoteIsNearExact`, `QuoteFollowsQuantity` |

Why the bounds are enough for what they are meant to show: two flows are a silent login
of one account and, behind it, the sign-out and the sign-in of the other, or a user-detail answer and the
sign-out that overtakes it; three tokens let a stale one meet a fresh one of either account, and let one
call be refreshed twice if the code allowed it. Sign-ins, sign-outs and user-detail are all the flows that
write the session; what a booking request adds, a silent login, user-detail has as well. One of the four
coupons takes off 95 %, so that together with a discount it is more than the price. Users, flows, tries and
balance requests are interchangeable, and the properties checked under symmetry are safety properties. Two
ticks contain a first and a last one. Three starts contain a warm restart with stragglers and a cold one.
Two reads can overtake each other. Two tries can overlap, and a third would need the same
stale button again. RazorPay takes FlutterWave's path without the verification and PayStack takes
Midtrans's: the theorems include them, the run does not. Two taps and two dialogs contain a retry in the same
dialog and one in a new one; three taps only add the third cause of `OverlapHasCause`, which the theorem covers.
Three reads are the one an acceptance was tapped on, one shown meanwhile and the one the acceptance starts.
Three verifications are what a flag taken down by a stranger needs. One message in a
conversation opened from either side, or twice from one, meets every writer of the contact documents. Four
requests contain a refresh, its next page and a second refresh that overtakes it. Three calls
contain two users' saves and the sign-out between them, or a save after a sign-out; one clearing at a time
overlaps with a save. Three routes hold a service page, its booking screen and a dialog
or another service page over it. For the properties that are proved, the theorem removes the bound.

Deadlock is checked for `Session` and `Splash`. A booking that is completed and a detail
screen that is closed, or a set of tries all used up, are legitimate ends: `BookingDetail`,
`Payment`, and the models below them in the table, run without that check: their taps,
requests and routes are used up in the end.

`LoggedInHasToken` and `ForeignTokenHasCause` are about a code that does not keep what one would like
of it. Opening the profile tab sends user-detail, and its answer, which may carry no token, goes to
`saveUserData`, which sets the flag whatever has happened meanwhile, a sign-out included: the app is then
signed in without a token (`setLate`). All five causes of `ForeignTokenHasCause` are reachable. For
one of them: with "remember me", a kill during a sign-out leaves the e-mail and the password of the
account that left; after a sign-in as another account, a request refused before `setUserEmail` is
reached logs in silently as the first account, and the second one sends that token until its next
sign-in or silent login.
`OverpaidSharesSnapshot` is as strong as the code allows: two overlapping tries do pay twice.
`LoaderHasReason` admits the early returns that leave the loader on (`"stuck"`): CinetPay's
currency and amount limits, PayPal's missing keys, PhonePe.
`LoggedInHasToken`, `ForeignTokenHasCause`, `NavigatesOnce`, `OverlapHasCause`, `BooksAssignedOnly`, `OneVerificationAtATime`, `NoTopicLeftBehind`,
`ShownIsOwn`, `LosesOnlyByOvertaking`, `CreditIsCharge` and `PresenceCleared` have the same form: the code
does let the bad case happen, and the property names every way to it, so that a change that
opens another one is found.
`QuoteFollowsQuantity` leaves out the case that discount and percentage coupon together exceed
100 %: the booking stays positive by its add-ons, the coupon is kept, and every further item makes
it cheaper. The attempt to prove the property without this exception found the case; TLC
confirms it with the 95 % coupon.

### Fairness

`Splash!FairSpec`: weak fairness of the steps Dart's event loop owes, namely a finished
`await` goes on, the timeout of an attempt fires, a periodic timer fires, a frame is drawn, a launched
route disposes of the old one. No answer of the backend and no tap is assumed.
`BookingDetail!FairSpec`: weak fairness of `LocationEnds`, because the location request
carries a timeout of 15 seconds and its `whenComplete` runs in every case. `BookingFlow!FairSpec`: weak fairness of each try's `TimesOut`, because `saveBooking` is
called with `Future.timeout`. No answer is assumed.
`PhoneAuth` has no fairness: the login's POST has no timeout, and the 120 seconds given to
`verifyPhoneNumber` only lead to `codeAutoRetrievalTimeout`, which leaves the loader on. A silent
backend keeps it on for ever; `LoaderIsWaiting` says instead that it is on for a reason.
The other
specifications have no fairness and no liveness property: nothing bounds the time of
`save-payment` or of a gateway.

## Findings

* The CinetPay and Sadad services never store the callback that saves the payment
  (`payment_cinetpay`).
* A second tap in the confirmation dialog of a package sends its services twice, although the
  message after a time-out asks to try again (`booking_retry`).

`PROJECT.json` quotes the lines these disagree with. The modules state more sentences of the
repository that the code does not keep. They are not part of a run; adding one to a
configuration of its module gives the trace.

| Statement | Sentence | Code |
|---|---|---|
| `Session!SilentLoginDoesNotNest` | `network_utils.dart:177` "clear stale session and stop retry loop." | `reGenerateToken` (188) goes through the handling of 401 it is part of |
| `Session!UnauthorizedLeavesNoCache` | `splash_screen.dart:151` "then clear preferences and cached data." | `clearPreferences` leaves `cachedBookingDetailList` |
| `Splash!OnlyInactiveIsSignedOut` | `splash_screen.dart:152` "marked as inactive from the admin panel" | the flag may stem from a request without a user (`app_configuration.dart:452`) |
| `BookingDetail!CancelsBeforeStart` | `booking_detail_screen.dart:1618` "Only allow cancellation before provider starts" | decided on the snapshot shown (1619) |
| `JobRequest!ReloadShows` (with `FairSpec`) | `my_post_detail_screen.dart:439` "retryText: language.reload" | `init()` without `setState` (440) |
| `PhoneAuth!OneClearMessage` | `firebase_auth_phone_utils.dart:142` "so the user sees one clear message" | `sendOTP` resets the memory of the last failure (`otp_login_screen.dart:152`) |
| (the reading of `isOnline` in `Chat`) | `chat_services.dart:228` "if status is 0 = Online and 1 = Offline" | `init()`, `Resumed` send 1, pause and dispose 0; `isReceiverUserOnline == 1` means online |
| `Chat!NoPushWhenOnline` | `user_chat_screen.dart:334` "Receiver is online, skipping notification" | the presence is zeroed before the test (311) |
| `ServiceAddons!BooksMarkedAddons` | `service_addons_component.dart:186` "Toggle between Add and Remove" | another page clears the list and not the marks (`service_detail_screen.dart:64`) |
| `Pricing!AdvanceIsPercentage` | `book_service_screen.dart:875`, the percentage next to the amount | the ratio is rounded to the decimals of a price (169) |

## Proofs

All theorems hold for every value of the constants that satisfies the named assumptions of
the modules (positive bounds, `None` outside the sets it is distinguished from).

* `SessionProofs!TypeCorrect`: `TypeOK`. `sends` stays within 2 only because a silent login
  belongs to a first send, so `RetryOfFirstSend` is carried along.
* `SessionProofs!SignedInHasToken`: `LoggedInHasToken`, without assumptions on the requests. The
  inductive invariant `SessionInv` says why the overtaken save is the only cause: a clearing that has
  reset the flag finds it set again only by a late save (`ClearedFlagFirst`), only user-detail answers and
  sign-ins are saved (`SavesAreKnown`), and a flow under which the session did not change still
  finds its user's token in the store (`UndisturbedOwnToken`). The last one is needed because the flag is set
  an await after the token.
* `SessionProofs!ForeignTokenIsExplained`: the step property `ForeignTokenHasCause`, from the same
  `SessionInv`, again for all requests. A save that is not `outrun` sets the id of the account whose token is
  stored (`UndisturbedOwnToken`); clearing the id or the token cannot break `OwnToken` unless the flag
  was set late (`ClearedFlagFirst`).
* `SessionProofs!CallsKeepContract`: `Session` implements `HttpContract` under the mapping
  above. Initial states map to initial states, and every action moves each flow by a step of
  its contract or not at all.
* `SplashProofs!SplashNavigatesOnce`: `NavigatesOnce`, from `InBounds` and `OneWayOut`. As long as the button
  was not tapped after the frame that takes it away (`again = 0`), the invariant excludes the three ways to
  leave twice: one `init()` runs at a time, and the watcher only while none does; the reload button is there
  only when `init()` has returned and nobody has left; and a signed-in user has seen a configuration
  (`InBounds`), so the button is never there while the preferences of an unauthorised user are being cleared.
* `ScreensProofs!TrackingStaysAlive`: `TrackingAlive`. The order of the answers does
  not matter because each one sets the status and the timer in one step, and a resume starts
  the timer whatever the status.
* `PaymentProofs!PaymentsAreReal`: `TypeOK`, `RecordedWasCharged` and `LoaderHasReason`, by
  one induction, since both properties rest on which gateway a try in a given place can be at.
* `PaymentProofs!PaidIsPaidInFull`: `PaidMeansPaidInFull`, from `PaymentInv`: every view of
  the booking that any screen or try holds is from the past, and shows either nothing or at
  least the total as paid (`MoneyInv`). This holds because an advance service is only ever
  paid through a screen opened for the advance, where the first payment is the whole total:
  the branch of `initState` that takes `advancePaymentPercentage` is never in use.
* `PaymentProofs!OverpaymentSharesSnapshot`: `OverpaidSharesSnapshot`. Two facts are added to
  `PaymentInv`. `SnapshotArgs`: a screen not opened for the advance was opened while nothing was
  paid, so a payment adds nothing, or the whole total computed from the paid amount 0.
  `CountedTries`: if anything is paid some try was counted, and if more than the total is paid two
  different ones were; both then hold the same paid amount.
* `PaymentProofs!LoaderIsExplained` and `SplashProofs!SplashTypeCorrect`: `LoaderHasReason` and
  the type invariant of `Splash`, from the invariants above.
* `PaymentProofs!LostChargesAreExplained`: `ChargeLossHasCause`, from `LossInv`: a try at a place
  before the gateway's answer has not been charged, and only FlutterWave's tries are verified. So a page or a screen that is popped, by whichever try, cannot
  take a charge with it.
* `BookingFlowProofs!OverlapIsExplained`: `OverlapHasCause`. Invariant `OverlapInv`: types; a
  try that is awaited has been sent (`SentMeansWaited`); if the loader is off while a try is
  awaited, the position lookup or another try has ended (`LoaderLostToAnother`). It is needed
  because a tap with the loader off is no cause by itself: what took the loader off is.
* `BookingFlowProofs!PaymentScreensDue`: `PaymentScreensAreDue`. Invariant `ScreensInv`: a
  detail read is of a saved booking (`ReadsWhatIsSaved`), and a payment route belongs to a try
  whose call is done (`ScreensOfEndedTries`), so the one launch of a try finds no route of it.
* `JobRequestProofs!BookingsAreAssigned`: `BooksAssignedOnly`. The invariant follows provider
  and price from the backend through the object and the route into the request, where "assigned" stands for
  assigned or put into an accepted row by a later read (`Chosen`): an object with a
  provider has an assigned price, an acceptance that has been served is assigned, the screen
  shows only answers that have arrived, a booking route holds an assigned provider and an object with
  an assigned price.
* `PhoneAuthProofs!OneVerification`: `OneVerificationAtATime`. The invariant adds that a pending call
  whose flag is down has lost it to a call that has called back (`FlagLostToAnother`), and that the
  automatic login of a call implies that it is completed (`AutoLoginIsCompleted`).
* `PhoneAuthProofs!SignedInReachesDashboard`: `SignedInIsShown`, from `ScreenInv`: until a login
  has led to the dashboard, the screen is left or a login has failed, the OTP screen stays on top
  and mounted (`ScreenStays`), so the login that has saved the user finds a screen to leave from
  (`SavedLeadsOn`); what the logins do agrees with whether the number is registered, so none
  saves a user while another signs out (`AnswersAgree`).
* `PhoneAuthProofs!LoaderWaits`: `LoaderIsWaiting`, which is inductive with the types: every callback and
  every end of a login on a mounted screen resets the loader, and only a call or login that waits sets it.
* `ChatProofs!ReadOnlyIfOpened`: `ReadMeansOpened`, from `UnopenedLeavesNoTrace`: a user who
  never opened the chat has no presence written, under way, or seen by the other one, and no
  queried messages.
* `ChatProofs!PresenceIsCleared`: `PresenceCleared`, from `ClosedIsFinal`: for a closed screen that nothing wrote
  for after dispose, the last presence write under way, or else the document, says 0; a missing document
  counts as 0 (`MissingIsOffline`), which is where an update that finds none is needed.

`ScreensProofs` proves the properties of the five modules that `Screens` instantiates, each for that module's
own specification:

* `BookingListIsWhole`: `ListIsWhole`, from `ListInv`. The property speaks of the answers applied
  since the last first page. `ChainShown` says of each such chain what the list holds after it, and
  `PagesRun` that the pages asked for run from 1 upwards without a gap; each applied answer extends the
  chain by one, so no induction over pages is needed.
* `SignedInIsSubscribed` and `LeaversAreUnsubscribed`: `SubscribedWhenSettled` and
  `NoTopicLeftBehind`, from `PushInv`. A topic that is wrong now is about to be corrected: that of
  someone who is not in the store, and was neither raced nor replaced, is gone, or the last word on it in the
  queue is an unsubscription (`LeaversGo`); that of the user signed in is there, or the last word on it in the
  queue is a subscription, or a call has yet to ask for it (`OwnTopicComes`); the application's topic
  likewise, unless an unsubscription was running at the last save (`TagComes`). All are kept only until a
  call fails (`WhileNoneFails`), because a failed call is never repeated.
* `ShownBalanceIsOwn` and `BalanceOnlyOvertaken`: `ShownIsOwn` and the step property
  `LosesOnlyByOvertaking`, from `BalanceInv`: an answer that was not overtaken contains every
  top-up shown (`AnswerIsNewer`), nothing is shown that is not in the backend's balance (`WithinBalance`),
  and a balance that is neither the stored token's nor excused belongs to a clearing that has dropped the
  token and not yet come to the balance (`OwnOrClearing`).
* `CreditsAreCharges`: `CreditIsCharge`, from `OnItsWay` (amount and account of a top-up between
  the charge and the credit) and `CreditedIsFinal`.
* `UndisturbedBookingsConsistent`: `UndisturbedBookingIsConsistent`, from `AddonInv`: the routes above
  a service page are its own in a fixed order as long as no other service page is opened
  (`UndisturbedOnTop`), and then the global list is what they have priced (`PricedIsChosen`).
* `QuoteIsPresent`: `QuoteOfPresentInputs`, that is, the amounts are those of the inputs shown and the
  subtotal is not negative. The second half is where the arithmetic is: rounding is
  monotone, a discount of at most 100 % does not exceed the price it is taken from, and
  `setPrice` drops a coupon that does.
* `QuoteIsClose`: `QuoteIsNearExact`. Each amount is at most half a grain from what it is a rounding
  of (`RoundFacts`); the errors of price, discount, coupon and subtotal make at most two grains
  (`NearSubTotal`); the taxes, rounded one by one, are half a grain each away (`TaxFacts`); rounding their sum
  and the total changes nothing, because both are whole numbers of grains already (`RoundExact`).
* `QuoteMovesWithQuantity`: the step property `QuoteFollowsQuantity`. Both totals are near their
  exact ones, and the exact total does not fall when the quantity grows and the coupon stays or is
  dropped (`ExactRises`), which is where the exception for more than 100 % is needed.

The theorems about the price assume of the constants (`PricesAssumption`) natural prices, discounts and percentage coupons
of at most 100 %, finitely many taxes and add-ons, and at most two decimals. Sums over all taxes or
add-ons are the folds of the community modules; what holds of every such sum (`SumType`,
`SumMultiple`, `SumNear`) is shown in the section "Sums". The provers cannot use an induction rule with a
predicate as its parameter, so the induction is over a *set* of good subsets: of the subsets
outside it there is a smallest (`SmallestSubset`, from the well-foundedness of strict inclusion on finite
sets), and taking the chosen element away from it gives a good one. That the fold is the
function its recursion describes is `SumExists`, by the same argument over sizes.

Only model-checked: the liveness properties `SplashSettles`, `LateSyncLeaves`,
`LocationLoaderEnds` and `BookingFlow!LoadingEnds`; liveness under fairness is out of the prover's
reach.

## Not modelled

The dashboard, roles and permissions, deep links, the profile, sign-up and password screens, the
catalogue, blog, help desk, reviews and bank details are layout around one request each,
without a protocol of their own. The JSON models, texts, themes and generated observers have
no behaviour. `ios/Pods` and the other platform directories are vendored libraries: almost all
lines of the repository, and not this program. Of the modelled components, what is left
out is named in their notes in `PROJECT.json`.

## Running

    tlc -config MCSession.cfg MCSession      # and the other configurations
    tlapm SessionProofs.tla                  # and the other *Proofs modules

`SessionProofs`, `SplashProofs`, `PaymentProofs`, `BookingFlowProofs`, `JobRequestProofs`,
`PhoneAuthProofs`, `ChatProofs` and `ScreensProofs` are the modules with theorems. Each extends the
module it is about; `ScreensProofs` is about `BookingDetail` and `Screens`, and takes a few minutes.
