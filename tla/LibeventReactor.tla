--------------------------- MODULE LibeventReactor ---------------------------
(***************************************************************************)
(* The event table of network/LibeventReactor.cpp.  pEventBundleMap_ has   *)
(* two entries for each descriptor, one per direction: whether the struct  *)
(* event exists, whether it is added to the event base, and the callback.  *)
(* Events are one-shot: one that has fired is off until it is added again, *)
(* and its callback has been moved out of the table.                       *)
(***************************************************************************)
CONSTANT NoCallback

NoEvent == [made |-> FALSE, added |-> FALSE, callback |-> NoCallback]

\* Slip: an event that exists is taken to be added.
AddEventHandler_OnlyNew(e, cb) == [e EXCEPT !.made = TRUE, !.added = ~e.made, !.callback = cb]

AddEventHandler(e, cb) == [e EXCEPT !.made = TRUE, !.added = TRUE, !.callback = cb]

\* event_new fails, or event_add does: false is returned, no callback is set.
AddFails(e) == {e, [e EXCEPT !.made = TRUE]}

\* event_del and event_free.  The callback stays in the table.
RemoveEventHandler(e) == IF e.made THEN [e EXCEPT !.made = FALSE, !.added = FALSE] ELSE e

\* __onEvent: libevent has taken the event off and the callback is moved out.
Fired(e) == [e EXCEPT !.added = FALSE, !.callback = NoCallback]
=============================================================================
