------------------------------ MODULE MCOutbox ------------------------------
(***************************************************************************)
(* The outbox on a small instance: a controller and the connection's own    *)
(* announcements write to it.  Two puts of the controller on its own        *)
(* account, one more each time a synchronization pokes it; with a fault a  *)
(* link is lost and replaced, so the node writes before, between and after *)
(* links.                                                                  *)
(***************************************************************************)
EXTENDS Outbox
=============================================================================
