----------------------------- MODULE ChainHead -----------------------------
(***************************************************************************)
(* What a network promises about the chain height it has settled on        *)
(* between two rounds of health checks: it starts at 0 (unknown) and only  *)
(* ever moves up, to a height some provider can report.  Network.tla       *)
(* implements this, although inside a round LatestBlockNumber may go down. *)
(***************************************************************************)
EXTENDS Naturals

CONSTANT Blocks   \* the heights providers can report

VARIABLE head      \* the height settled on at the end of the last round

Init == head = 0

Advance == \E h \in Blocks : /\ h > head
                              /\ head' = h

Spec == Init /\ [][Advance]_head
=============================================================================
