----------------------------- MODULE MCMailbox -----------------------------
(* An instance of Mailbox: two letters to one member whose stash has one
   cell, a gift of an item and gold which another service asks for and a
   trophy, an item, from an admin. *)
EXTENDS Mailbox, TLC

CONSTANTS gift, trophy, m1

MCTo == (gift :> {m1}) @@ (trophy :> {m1})
MCSize == (gift :> 1) @@ (trophy :> 1)
=============================================================================
