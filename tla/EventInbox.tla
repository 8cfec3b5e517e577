----------------------------- MODULE EventInbox -----------------------------
(***************************************************************************)
(* What the worker-event buffer promises a dispatcher chat: an event that  *)
(* was received is discarded only once the dispatcher has been shown it.   *)
(* It may be shown more than once, and need never be discarded.            *)
(***************************************************************************)
CONSTANT Events

VARIABLES held, shown

inboxVars == <<held, shown>>

InboxInit == held = {} /\ shown = {}

Receive(e) ==
    /\ e \notin held \cup shown
    /\ held' = held \cup {e}
    /\ UNCHANGED shown

Show(es) ==
    /\ es \subseteq held
    /\ shown' = shown \cup es
    /\ UNCHANGED held

Discard(es) ==
    /\ es \subseteq held \cap shown
    /\ held' = held \ es
    /\ UNCHANGED shown

InboxNext ==
    \/ \E e \in Events : Receive(e)
    \/ \E es \in SUBSET Events : Show(es) \/ Discard(es)

InboxSpec == InboxInit /\ [][InboxNext]_inboxVars
=============================================================================
