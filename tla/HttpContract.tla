---------------------------- MODULE HttpContract ----------------------------
(***************************************************************************)
(* What buildHttpResponse and sendMultiPartRequest promise their callers:   *)
(* one send, and at most one resend, which follows a successful silent      *)
(* login of the same call.  Calls run independently of one another.         *)
(***************************************************************************)
EXTENDS Naturals

CONSTANT Calls

VARIABLES phase, sends

Phases == {"none", "waiting", "refreshing", "refreshed", "settling"}

Moves(c, p, q) == phase[c] = p /\ phase'[c] = q
Keeps(c) == sends'[c] = sends[c]

Init ==
  /\ phase = [c \in Calls |-> "none"]
  /\ sends = [c \in Calls |-> 0]

Start(c) == Moves(c, "none", "waiting") /\ sends'[c] = 1
Refresh(c) == Moves(c, "waiting", "refreshing") /\ sends[c] = 1 /\ Keeps(c)
Refreshed(c) == Moves(c, "refreshing", "refreshed") /\ Keeps(c)
Resend(c) == Moves(c, "refreshed", "waiting") /\ sends[c] = 1 /\ sends'[c] = 2

\* The answer is handed on, or the session is being cleared.
Settle(c) == phase[c] # "refreshed" /\ phase'[c] = "settling" /\ Keeps(c)

\* The call has returned or thrown, or the process was restarted.
End(c) == phase'[c] = "none" /\ sends'[c] = 0

Stutter(c) == phase'[c] = phase[c] /\ Keeps(c)

Step(c) ==
  \/ Start(c) \/ Refresh(c) \/ Refreshed(c) \/ Resend(c)
  \/ Settle(c) \/ End(c) \/ Stutter(c)

Next == \A c \in Calls : Step(c)

Spec == Init /\ [][Next]_<<phase, sends>>
=============================================================================
