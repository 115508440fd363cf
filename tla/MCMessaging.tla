------------------------------ MODULE MCMessaging ------------------------------
(***************************************************************************)
(* A small instance of Messaging. Three records in batches of two, two     *)
(* size-triggered flushes, two failing uploads; three submissions around a *)
(* stop, two attempts to create a producer; four shadowed requests around  *)
(* start and stop; two signals at any moment from the registration of      *)
(* their handlers on, any of the five services disabled or failing to      *)
(* start; two jobs, the first of which may be cancelled, while the second  *)
(* may pass its deadline and be asked about twice at once.                 *)
(***************************************************************************)
EXTENDS Messaging

PollsAtOnce == <<1, 2>>

==============================================================================
