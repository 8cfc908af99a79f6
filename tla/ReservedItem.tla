----------------------------- MODULE ReservedItem -----------------------------
(***************************************************************************)
(* What the two databases keep of an item that is listed: items-service's  *)
(* row of the item, with its three writes about a reservation, and the     *)
(* status of marketplace's listings.  Every write is one UPDATE, fenced on *)
(* the listing id (ADR-0050).  ItemReservation has everything that calls   *)
(* them.                                                                   *)
(***************************************************************************)

CONSTANTS
    Ids,    \* the listing ids items-service mints
    NoId

VARIABLES
    item,   \* items-service's row; waiting is reserved_at IS NOT NULL, old is
            \* whether the stamp the reconcilers read is past their ten minutes
    row     \* row[l]: the status of marketplace's listing l

Free == [status |-> "AVAILABLE", listing |-> NoId, waiting |-> FALSE, old |-> FALSE]

Listed(l) == item.status = "LISTED" /\ item.listing = l

ConfirmReservation(l) ==
    IF Listed(l) THEN item' = [item EXCEPT !.waiting = FALSE, !.old = FALSE] ELSE UNCHANGED item

CancelReservation(l) ==
    IF Listed(l) /\ item.waiting THEN item' = Free ELSE UNCHANGED item

ReleaseConfirmed(l) ==
    IF Listed(l) /\ ~item.waiting THEN item' = Free ELSE UNCHANGED item

\* A listing that can be bid on, or is being settled, always has its item: reserved for it
\* and for no other listing, whatever event came late or twice and whichever reconciler
\* was at work (ADR-0050: "a late event can no longer list an item it doesn't own").
ListingHasItem ==
    \A l \in Ids :
        /\ row[l] \in {"ACTIVE", "SETTLING", "CANCELLED"} => Listed(l)
        /\ row[l] = "FROZEN" => item.listing = l /\ item.status = "PENDING_SETTLEMENT"

=============================================================================
