------------------------------ MODULE MCScreens ------------------------------
(***************************************************************************)
(* The small instance of Screens: how many bookings, and which prices.       *)
(***************************************************************************)
EXTENDS Screens, TLC

\* Two full pages without a filter, less than a page with one.
SmallRows == [f \in Filters |-> IF f = NoFilter THEN 4 ELSE 1]

\* Amounts that do not divide: two services, and one booked as a package.
SmallServices ==
  {[price |-> 4999, discount |-> 15, advance |-> 25, package |-> NoPackage],
   [price |-> 1250, discount |-> 0, advance |-> 20, package |-> NoPackage],
   [price |-> 6000, discount |-> 40, advance |-> 33, package |-> 8050]}

SmallCoupons ==
  {[type |-> "fixed", discount |-> 4250], [type |-> "fixed", discount |-> 2000],
   [type |-> "percentage", discount |-> 85], [type |-> "percentage", discount |-> 95]}

SmallAddonPrices == [a \in {"lamp", "tap"} |-> IF a = "lamp" THEN 995 ELSE 1500]

\* Accounts, and balance requests, are told apart by nothing but their history.
Alike == Permutations(Users) \cup Permutations(BalanceReads)

SmallTaxes == {[type |-> "percent", value |-> 18], [type |-> "percent", value |-> 5],
               [type |-> "fixed", value |-> 175]}
=============================================================================
