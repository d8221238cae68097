----------------------- MODULE MCSlidingWindowLimiter -----------------------
(***************************************************************************)
(* Two users' keys, two messages per window, and a clock that runs past the *)
(* first window: events expire one by one and both at once, and a key can   *)
(* be filled, refused, opened and filled again.  Four ticks make both the   *)
(* window and a hundredth, so waits are rounded up, down and from half way. *)
(***************************************************************************)
EXTENDS SlidingWindowLimiter, TLC

CONSTANTS alice, bob

MCKeys == {alice, bob}
MCMaxEvents == 2
MCPer == 4
MCUnit == 4
MCMaxTime == 6

Interchangeable == Permutations(Keys)
=============================================================================
