------------------------------- MODULE Poller -------------------------------
(***************************************************************************)
(* The registration of a Handler with its loop's Poller, as operators on a *)
(* record: Handler's state_ and events_, whether handlerList_ maps the fd  *)
(* to it, and what the kernel holds for the fd (polled, interest).         *)
(* Poller::updateHandler and removeHandler end the process when an         *)
(* assertion fails or epoll_ctl refuses; Fails operators say when, the     *)
(* others give the record afterwards.                                      *)
(***************************************************************************)
EXTENDS Naturals

Events == {"in", "out"}                  \* readEvent_, writeEvent_
HandlerStates == {"NEW", "USING", "DELETED"}

HandlerRecords ==
  [state : HandlerStates, events : SUBSET Events, listed : BOOLEAN,
   polled : BOOLEAN, interest : SUBSET Events]

NewHandler ==
  [state |-> "NEW", events |-> {}, listed |-> FALSE, polled |-> FALSE, interest |-> {}]

\* The asserts of updateHandler; ADD fails on a registered fd, DEL and MOD on
\* an unregistered one.
UpdateFails(h) ==
  \/ h.state = "NEW" /\ h.listed
  \/ h.state # "NEW" /\ ~h.listed
  \/ (h.state = "USING") # h.polled

\* ADD for a handler the kernel does not have (even with no events), DEL when the
\* last event goes, MOD otherwise.
UpdateHandler(h) ==
  IF h.state = "USING" /\ h.events = {}
  THEN [h EXCEPT !.state = "DELETED", !.polled = FALSE, !.interest = {}]
  ELSE [h EXCEPT !.state = "USING", !.listed = TRUE, !.polled = TRUE,
                 !.interest = h.events]

RemoveFails(h) ==
  \/ ~h.listed
  \/ h.events # {}
  \/ h.state = "USING" /\ ~h.polled

\* Slip: handlerList_ keeps the handler.
RemoveFromKernel(h) == [h EXCEPT !.state = "NEW", !.polled = FALSE, !.interest = {}]

RemoveHandler(h) ==
  [h EXCEPT !.state = "NEW", !.listed = FALSE, !.interest = {},
            !.polled = IF h.state = "USING" THEN FALSE ELSE @]

\* Handler's setters: change events_, then update().
Enable(h, e) == UpdateHandler([h EXCEPT !.events = @ \cup {e}])
DisableOnly(h, e) == [h EXCEPT !.events = @ \ {e}]    \* slip: no update()
Disable(h, e) == UpdateHandler([h EXCEPT !.events = @ \ {e}])
DisableAll(h) == UpdateHandler([h EXCEPT !.events = {}])

\* The handler, handlerList_ and the kernel agree on the registration.
Consistent(h) ==
  /\ h.listed <=> h.state # "NEW"
  /\ h.polled <=> h.state = "USING"
  /\ h.interest = IF h.polled THEN h.events ELSE {}
=============================================================================
