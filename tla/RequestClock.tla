---------------------------- MODULE RequestClock ----------------------------
(***************************************************************************)
(* What the components of request authentication share: the goroutines     *)
(* that serve requests and the wall clock, in ticks.                       *)
(***************************************************************************)
EXTENDS Integers

CONSTANT Callers    \* goroutines of the resource server, one request at a time each

VARIABLE now        \* time.Now()

\* time.Time{}: before every reading of the clock.
ZeroTime == -1
=============================================================================
