----------------------------- MODULE LatestWindow -----------------------------
(***************************************************************************)
(* What the double-buffer channel promises (spec sections 3, 8): a        *)
(* register holding the latest published audio window.  The writer        *)
(* publishes windows 1, 2, ... in order, none skipped.  Each read returns, *)
(* atomically, the window the register holds at that instant, and only   *)
(* once something has been published.  A reader may read the same window *)
(* twice, and it may miss windows that were overwritten before it read.   *)
(***************************************************************************)
EXTENDS Integers

CONSTANT MaxWindow

VARIABLES
  published,  \* the latest window published; 0 before the first
  got         \* the window the reader last received; Nothing before

Nothing == -1

vars == <<published, got>>

Init ==
  /\ published = 0
  /\ got = Nothing

(* The writer publishes the next window.                                   *)
Publish ==
  /\ published < MaxWindow
  /\ published' = published + 1
  /\ UNCHANGED got

(* The reader receives the latest window, in one atomic step.              *)
Read ==
  /\ published > 0
  /\ got' = published
  /\ UNCHANGED published

Next == Publish \/ Read

Spec == Init /\ [][Next]_vars

=============================================================================
