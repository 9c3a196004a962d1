----------------------------- MODULE LogindLock ------------------------------
(***************************************************************************)
(* One inhibitor lock of logind, as the power manager keeps it: a flag     *)
(* that it has been asked for and a file descriptor that holds it.  The    *)
(* lid-switch lock (PowerLid) and the suspend delay lock (PowerSleep) are  *)
(* written twice in the code, the same way; both modules use these         *)
(* operators.  asked and held are what logind sees of them.                *)
(***************************************************************************)
EXTENDS Integers

Lock == [taken : BOOLEAN,   \* inhibit_..._taken
         fd    : BOOLEAN,   \* inhibit_..._fd # -1
         asked : Nat,       \* Inhibit calls that logind has not yet seen
         held  : Nat]       \* locks that logind holds for this process

NoLock == [taken |-> FALSE, fd |-> FALSE, asked |-> 0, held |-> 0]

\* Mutation: the flag is looked at, but set by the reply only.
InhibitUnmarked(l) == IF l.taken THEN l ELSE [l EXCEPT !.asked = @ + 1]

Inhibit(l) == IF l.taken THEN l ELSE [l EXCEPT !.taken = TRUE, !.asked = @ + 1]

\* logind answers: the lock, or an error.
Answer(l, ok) == [l EXCEPT !.asked = @ - 1, !.held = IF ok THEN @ + 1 ELSE @]

\* The reply arrives.  After an error the lock stays marked as taken.
InhibitDone(l, ok) == IF ok THEN [l EXCEPT !.fd = TRUE] ELSE l

\* The lock is only let go of if its reply has arrived.
Uninhibit(l) ==
  IF l.fd THEN [l EXCEPT !.fd = FALSE, !.taken = FALSE, !.held = @ - 1] ELSE l
=============================================================================
