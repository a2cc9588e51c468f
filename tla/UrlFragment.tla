---------------------------- MODULE UrlFragment ----------------------------
(***************************************************************************)
(* The URL-fragment adapter (packages/signaling-url-fragment/src/index.ts) *)
(* of one page: published messages wait in the outbox of their room until  *)
(* an export drains them into a bundle that the user carries to the other  *)
(* peer; importing a bundle gives its messages to the handlers of its      *)
(* room. Encoding and decoding are awaited (a compression stream), so an   *)
(* export and an import have two steps each.                               *)
(***************************************************************************)
EXTENDS Sequences

CONSTANT Rooms

VARIABLES
    outbox,   \* of each room: the messages published and not exported, in order
    handlers  \* of each room: the handlers subscribed

adapterVars == <<outbox, handlers>>

AdapterInit ==
    /\ outbox = [r \in Rooms |-> <<>>]
    /\ handlers = [r \in Rooms |-> {}]

(* publish() never fails before close(), and the page never calls that.     *)
Publish(box, room, m) == [box EXCEPT ![room] = Append(@, m)]

Subscribe(hs, room, h) == [hs EXCEPT ![room] = @ \cup {h}]

Unsubscribe(hs, room, h) == [hs EXCEPT ![room] = @ \ {h}]

(* A slip: the outbox is emptied only when the bundle has been encoded.     *)
Slip_Drain(box, room) == box

(* exportBundle(), up to the encoding it awaits: nothing for an empty       *)
(* outbox, or a bundle of what the outbox holds, which is emptied.          *)
Drain(box, room) == [box EXCEPT ![room] = <<>>]

(* importBundle(), after the decoding it has awaited: whom the messages of  *)
(* the bundle's room go to.                                                 *)
Receivers(room) == handlers[room]

=============================================================================
