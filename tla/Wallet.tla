-------------------------------- MODULE Wallet --------------------------------
(***************************************************************************)
(* The wallet: the balance the app shows (setUserWalletAmount of             *)
(* lib/store/app_store.dart over getUserWalletBalance of                     *)
(* lib/network/rest_apis.dart) and the top-up of lib/screens/wallet/         *)
(* user_wallet_balance_screen.dart.                                          *)
(*                                                                           *)
(* An amount of money in a wallet is the set of the top-ups it contains.     *)
(* Which gateway charges is left to Payment; here a checkout charges the     *)
(* amount it was opened with or ends.  The global loader is left out: the    *)
(* screen neither disables its button nor its field while it is on.          *)
(***************************************************************************)
EXTENDS Naturals, FiniteSets

CONSTANTS Accounts,  \* accounts that sign in on the device
          NoAccount, \* nobody is signed in
          Amounts,   \* what the customer can write into the field, 0 included
          TopUps,    \* taps of the button, each used once
          Reads,     \* calls of setUserWalletAmount under way at a time
          Clears     \* calls of clearPreferences under way at a time

VARIABLES isLoggedIn,       \* appStore.isLoggedIn
          token,            \* the account whose token appStore holds, or NoAccount
          clearing,         \* what each clearPreferences clears next
          walletAmountCont, \* the amount in the field
          topUp,            \* each top-up
          balance,          \* backend: the top-ups credited to each account
          userWalletAmount, \* the balance shown
          read,             \* each balance request under way
          past              \* history the properties need

sessionVars == <<isLoggedIn, token, clearing>>
vars == <<sessionVars, walletAmountCont, topUp, balance, userWalletAmount, read, past>>

\* by: the account whose token the wallet-top-up request carries.
Untouched == [st |-> "none", of |-> NoAccount, charged |-> 0, amount |-> 0, by |-> NoAccount]
\* topUp: the top-up that awaits the request, if any.
NoRead == [st |-> "idle", of |-> NoAccount, value |-> {}, topUp |-> {}]
Zero == [of |-> NoAccount, value |-> {}]
Waiting(t) == topUp[t].st \in {"checkout", "delay", "sent", "credited"}
Pending == {r \in Reads : read[r].st # "idle"}

Init ==
  /\ isLoggedIn = FALSE /\ token = NoAccount
  /\ clearing = [c \in Clears |-> "none"]
  /\ walletAmountCont = 0
  /\ topUp = [t \in TopUps |-> Untouched]
  /\ balance = [a \in Accounts |-> {}]
  /\ userWalletAmount = Zero
  /\ read = [r \in Reads |-> NoRead]
  \* edited: top-ups whose field changed during the checkout; left: top-ups under way
  \* when the token changed; overtaken: requests under way when another one's answer
  \* arrived; foreign: the answer shown was asked for with another token; unzeroed: another
  \* account's token was stored, or the preferences were cleared, with the balance left
  /\ past = [edited |-> {}, left |-> {}, overtaken |-> {}, foreign |-> FALSE,
             unzeroed |-> FALSE]

-----------------------------------------------------------------------------
(* The balance.                                                             *)

\* buildHeaderTokens: the account a request is made for.
Bearer == IF isLoggedIn THEN token ELSE NoAccount

\* setUserWalletAmount up to its await: the flag is tested once, before the request.
\* left is history: the balance of before may now be another account's.
SetUserWalletAmount(r, t, left) ==
  IF isLoggedIn
    THEN /\ read[r].st = "idle"
         /\ read' = [read EXCEPT ![r] = [NoRead EXCEPT !.st = "sent", !.of = Bearer, !.topUp = t]]
         /\ past' = [past EXCEPT !.overtaken = @ \ {r}, !.unzeroed = left]
         /\ UNCHANGED userWalletAmount
    ELSE /\ userWalletAmount' = Zero
         /\ past' = [past EXCEPT !.foreign = FALSE, !.unzeroed = FALSE]
         /\ UNCHANGED read

\* The profile tab, the wallet screen when it opens, and its swipe.
AskBalance(r) ==
  /\ SetUserWalletAmount(r, {}, past.unzeroed)
  /\ UNCHANGED <<sessionVars, walletAmountCont, topUp, balance>>

\* user-wallet-balance on the backend, for a request with a token.
ServeBalance(r) ==
  /\ read[r].st = "sent" /\ read[r].of # NoAccount
  /\ read' = [read EXCEPT ![r].st = "answered", ![r].value = balance[read[r].of]]
  /\ UNCHANGED <<sessionVars, walletAmountCont, topUp, balance, userWalletAmount, past>>

\* The request is over: the top-up that awaited it, if any, is over with it.
EndRead(r) ==
  /\ read' = [read EXCEPT ![r] = NoRead]
  /\ topUp' = [t \in TopUps |->
       IF t \in read[r].topUp THEN [topUp[t] EXCEPT !.st = "over"] ELSE topUp[t]]

BalanceArrives(r) ==
  /\ read[r].st = "answered"
  /\ userWalletAmount' = [of |-> read[r].of, value |-> read[r].value]
  /\ EndRead(r)
  /\ past' = [past EXCEPT !.foreign = read[r].of # token, !.unzeroed = FALSE,
                          !.overtaken = (@ \cup Pending) \ {r}]
  /\ UNCHANGED <<sessionVars, walletAmountCont, balance>>

\* Mutant: a failed request answers nothing.
ForgetsBalance == userWalletAmount' = Zero

\* A failed request answers the balance the store holds when it fails.
KeepsBalance == UNCHANGED userWalletAmount

BalanceFails(r) ==
  /\ read[r].st # "idle"
  /\ EndRead(r)
  /\ KeepsBalance
  /\ UNCHANGED <<sessionVars, walletAmountCont, balance, past>>

-----------------------------------------------------------------------------
(* The top-up.                                                              *)

\* The field or one of the chips of default amounts; it stays open during a checkout.
Edit(v) ==
  /\ v # walletAmountCont
  /\ walletAmountCont' = v
  /\ past' = [past EXCEPT !.edited = @ \cup {t \in TopUps : topUp[t].st = "checkout"}]
  /\ UNCHANGED <<sessionVars, topUp, balance, userWalletAmount, read>>

\* _handleClick with a method chosen.
HandleClick(t) ==
  /\ topUp[t].st = "none"
  /\ walletAmountCont # 0
  /\ topUp' = [topUp EXCEPT ![t] = [Untouched EXCEPT !.st = "checkout", !.of = token,
                                                     !.charged = walletAmountCont]]
  /\ UNCHANGED <<sessionVars, walletAmountCont, balance, userWalletAmount, read, past>>

\* The gateway has charged and calls onComplete, which reads the field again.
OnComplete(t) ==
  /\ topUp[t].st = "checkout"
  /\ topUp' = [topUp EXCEPT ![t].st = "delay", ![t].amount = walletAmountCont]
  /\ UNCHANGED <<sessionVars, walletAmountCont, balance, userWalletAmount, read, past>>

\* The customer cancels or the gateway fails: nothing is charged.
CheckoutEnds(t) ==
  /\ topUp[t].st = "checkout"
  /\ topUp' = [topUp EXCEPT ![t].st = "over"]
  /\ UNCHANGED <<sessionVars, walletAmountCont, balance, userWalletAmount, read, past>>

\* Mutant: the field is read when the request is sent.
WalletTopUpReadsField(t) ==
  /\ topUp[t].st = "delay"
  /\ topUp' = [topUp EXCEPT ![t].st = "sent", ![t].by = Bearer, ![t].amount = walletAmountCont]
  /\ UNCHANGED <<sessionVars, walletAmountCont, balance, userWalletAmount, read, past>>

\* walletTopUp after its 100 ms: the request carries the token the store holds now.
WalletTopUp(t) ==
  /\ topUp[t].st = "delay"
  /\ topUp' = [topUp EXCEPT ![t].st = "sent", ![t].by = Bearer]
  /\ UNCHANGED <<sessionVars, walletAmountCont, balance, userWalletAmount, read, past>>

\* wallet-top-up on the backend, for a request with a token.
ServeTopUp(t) ==
  /\ topUp[t].st = "sent" /\ topUp[t].by # NoAccount
  /\ topUp' = [topUp EXCEPT ![t].st = "credited"]
  /\ balance' = [balance EXCEPT ![topUp[t].by] = @ \cup {t}]
  /\ UNCHANGED <<sessionVars, walletAmountCont, userWalletAmount, read, past>>

\* The answer starts a balance request, which the top-up awaits.
TopUpAnswered(t, r) ==
  /\ topUp[t].st = "credited"
  /\ SetUserWalletAmount(r, {t}, past.unzeroed)
  /\ topUp' = [topUp EXCEPT ![t].st = IF isLoggedIn THEN "reading" ELSE "over"]
  /\ UNCHANGED <<sessionVars, walletAmountCont, balance>>

\* Refused, or lost before or after the backend has credited it: a toast, no retry.
TopUpFails(t) ==
  /\ topUp[t].st \in {"sent", "credited"}
  /\ topUp' = [topUp EXCEPT ![t].st = "over"]
  /\ UNCHANGED <<sessionVars, walletAmountCont, balance, userWalletAmount, read, past>>

-----------------------------------------------------------------------------
(* The session.                                                             *)

Clearing == {c \in Clears : clearing[c] # "none"}
Leaving == past.left \cup {t \in TopUps : Waiting(t)}

\* setToken, of saveUserData or after a silent login.
SaveToken(a) ==
  /\ token' = a
  /\ past' = [past EXCEPT
       !.unzeroed = @ \/ (token # a /\ (token # NoAccount \/ Clearing # {})),
       !.left = IF token # a THEN Leaving ELSE @]
  /\ UNCHANGED <<isLoggedIn, clearing, walletAmountCont, topUp, balance, userWalletAmount, read>>

\* saveUserData sets the flag, after a login and after user-detail, whose answer has no
\* token; the balance is not asked for.
SaveLoggedIn ==
  /\ isLoggedIn' = TRUE
  /\ UNCHANGED <<token, clearing, walletAmountCont, topUp, balance, userWalletAmount, read, past>>

\* clearPreferences, in the order of its awaits: the flag, the token, the balance.
ClearLoggedIn(c) ==
  /\ clearing[c] = "none"
  /\ clearing' = [clearing EXCEPT ![c] = "token"]
  /\ isLoggedIn' = FALSE
  /\ UNCHANGED <<token, walletAmountCont, topUp, balance, userWalletAmount, read, past>>

ClearToken(c) ==
  /\ clearing[c] = "token"
  /\ clearing' = [clearing EXCEPT ![c] = "balance"]
  /\ token' = NoAccount
  /\ past' = [past EXCEPT !.left = Leaving]
  /\ UNCHANGED <<isLoggedIn, walletAmountCont, topUp, balance, userWalletAmount, read>>

\* Mutant: nothing is done about the balance.
ClearBalanceForgets(c, r) ==
  /\ clearing[c] = "balance"
  /\ clearing' = [clearing EXCEPT ![c] = "none"]
  /\ UNCHANGED <<isLoggedIn, token, walletAmountCont, topUp, balance, userWalletAmount, read,
                 past>>

\* setUserWalletAmount tests the flag, which a saveUserData may have set again.
ClearBalance(c, r) ==
  /\ clearing[c] = "balance"
  /\ clearing' = [clearing EXCEPT ![c] = "none"]
  /\ SetUserWalletAmount(r, {}, TRUE)
  /\ UNCHANGED <<isLoggedIn, token, walletAmountCont, topUp, balance>>

\* The process is killed and started again: the balance starts at 0.
Restart ==
  /\ clearing' = [c \in Clears |-> "none"]
  /\ walletAmountCont' = 0
  /\ topUp' = [t \in TopUps |->
       IF topUp[t].st = "none" THEN topUp[t] ELSE [topUp[t] EXCEPT !.st = "over"]]
  /\ userWalletAmount' = Zero
  /\ read' = [r \in Reads |-> NoRead]
  /\ past' = [past EXCEPT !.overtaken = {}, !.foreign = FALSE, !.unzeroed = FALSE]
  /\ UNCHANGED <<isLoggedIn, token, balance>>

Next ==
  \/ \E r \in Reads : AskBalance(r) \/ ServeBalance(r) \/ BalanceArrives(r) \/ BalanceFails(r)
  \/ \E v \in Amounts : Edit(v)
  \/ \E t \in TopUps : \/ HandleClick(t) \/ OnComplete(t) \/ CheckoutEnds(t)
                       \/ WalletTopUp(t) \/ ServeTopUp(t) \/ TopUpFails(t)
                       \/ \E r \in Reads : TopUpAnswered(t, r)
  \/ \E a \in Accounts : SaveToken(a)
  \/ \E c \in Clears : \/ ClearLoggedIn(c) \/ ClearToken(c)
                       \/ \E r \in Reads : ClearBalance(c, r)
  \/ SaveLoggedIn \/ Restart

Spec == Init /\ [][Next]_vars

-----------------------------------------------------------------------------

\* A balance that is not the signed-in account's is shown only after the answer to a
\* request made with another token (setUserWalletAmount tests the flag before its await
\* and assigns after it), or when the token was stored over another account's or in the
\* midst of a sign-out, or a sign-out found the flag set again when it came to the balance.
ShownIsOwn ==
  isLoggedIn /\ token # NoAccount /\ userWalletAmount.of \notin {token, NoAccount} =>
    past.foreign \/ past.unzeroed

\* The balance shown loses a top-up only when it is zeroed for want of a session, or when
\* an answer arrives for another account or to a request that was under way when another
\* one's answer arrived: a failed request keeps what is shown, and a top-up's own request
\* is sent after the backend has credited it.
LosesOnlyByOvertaking ==
  [][ \A t \in userWalletAmount.value \ userWalletAmount'.value :
        \/ Restart
        \/ ~isLoggedIn /\ userWalletAmount' = Zero
        \/ \E r \in Reads : /\ BalanceArrives(r)
                            /\ \/ r \in past.overtaken
                               \/ read[r].of # userWalletAmount.of ]_vars

\* The amount credited is the amount charged unless the field was edited while the
\* checkout was open, and it is credited to the account that was charged unless
\* the token changed before the answer.
CreditIsCharge ==
  \A a \in Accounts : \A t \in balance[a] :
    /\ topUp[t].amount = topUp[t].charged \/ t \in past.edited
    /\ a = topUp[t].of \/ t \in past.left
=============================================================================
