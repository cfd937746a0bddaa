-------------------------- MODULE InOrderDelivery --------------------------
(***************************************************************************)
(* What the multiplexing layer promises the reader of one session: it gets *)
(* the chunks of the stream one by one, in order, without loss and without *)
(* duplicates, and the end of the stream is signalled only after the last  *)
(* chunk, unless the session was removed.                                  *)
(***************************************************************************)
EXTENDS Naturals, Sequences

CONSTANT NumChunks   \* the stream is the chunks 0 .. NumChunks-1

VARIABLES
    delivered,   \* the chunks the reader has got so far
    removed,     \* the session was removed before its stream was complete
    ended        \* the reader has seen the end of the stream

deliveryVars == <<delivered, removed, ended>>

DeliveryInit ==
    /\ delivered = << >>
    /\ removed = FALSE
    /\ ended = FALSE

Deliver ==
    /\ ~ended
    /\ Len(delivered) < NumChunks
    /\ delivered' = Append(delivered, Len(delivered))
    /\ UNCHANGED <<removed, ended>>

Remove ==
    /\ ~removed
    /\ removed' = TRUE
    /\ UNCHANGED <<delivered, ended>>

End ==
    /\ ~ended
    /\ removed \/ Len(delivered) = NumChunks
    /\ ended' = TRUE
    /\ UNCHANGED <<delivered, removed>>

DeliveryNext == Deliver \/ Remove \/ End

DeliverySpec == DeliveryInit /\ [][DeliveryNext]_deliveryVars
=============================================================================
