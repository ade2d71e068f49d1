----------------------------- MODULE Availability -----------------------------
(***************************************************************************)
(* What the MQTT transport promises to whoever looks at the broker: a node *)
(* that is shown online has introduced itself, and is either attended by a *)
(* session whose will corrects the picture when it ends, or is one of the  *)
(* named exceptions.  Module Transport implements this (Avail!Spec there). *)
(*                                                                         *)
(* There are no connections, messages, acknowledgements or processes here. *)
(***************************************************************************)

VARIABLES
    known,     \* the broker holds the discovery of the node
    shown,     \* the availability the broker shows, "none" before the first
    attended,  \* the broker holds a session of the node, and its will
    hasty,     \* the node left while it was still introducing itself
    early,     \* the node went on although nobody had confirmed its introduction
    orphaned,  \* the broker restarted, and the node has not come back yet
    forgot     \* the broker lost what it held

vars == <<known, shown, attended, hasty, early, orphaned, forgot>>

Init ==
    /\ known = FALSE
    /\ shown = "none"
    /\ attended = FALSE
    /\ hasty = FALSE
    /\ early = FALSE
    /\ orphaned = FALSE
    /\ forgot = FALSE
-----------------------------------------------------------------------------
\* The node comes, or comes again before its last session was missed.
Attend ==
    /\ attended' = TRUE
    /\ shown' = IF attended THEN "offline" ELSE shown
    /\ hasty' \in BOOLEAN
    /\ orphaned' = FALSE
    /\ UNCHANGED <<known, early, forgot>>

Introduce ==
    /\ attended
    /\ known' = TRUE
    /\ early' = FALSE
    /\ UNCHANGED <<shown, attended, hasty, orphaned, forgot>>

\* Only a node that is known may be shown online, unless it went on too early, ...
ShowOnline ==
    /\ attended
    /\ known \/ forgot \/ early
    /\ shown' = "online"
    /\ UNCHANGED <<known, attended, hasty, early, orphaned, forgot>>

ShowOffline ==
    /\ attended
    /\ shown' = "offline"
    /\ UNCHANGED <<known, attended, hasty, early, orphaned, forgot>>

\* ... and only a node that is not shown online may leave, unless in haste.
Leave ==
    /\ attended
    /\ shown # "online" \/ hasty
    /\ attended' = FALSE
    /\ UNCHANGED <<known, shown, hasty, early, orphaned, forgot>>

Hurry ==
    /\ \/ hasty' = TRUE /\ UNCHANGED early
       \/ early' = TRUE /\ UNCHANGED hasty
    /\ UNCHANGED <<known, shown, attended, orphaned, forgot>>

\* The node is missed: the will is published.
Miss ==
    /\ attended
    /\ attended' = FALSE
    /\ shown' = "offline"
    /\ UNCHANGED <<known, hasty, early, orphaned, forgot>>

\* The broker restarts, with or without what it held.
Restart ==
    /\ attended' = FALSE
    /\ orphaned' = TRUE
    /\ \/ UNCHANGED <<known, shown, forgot>>
       \/ known' = FALSE /\ shown' = "none" /\ forgot' = TRUE
    /\ UNCHANGED <<hasty, early>>

Next ==
    \/ Attend \/ Introduce \/ ShowOnline \/ ShowOffline
    \/ Leave \/ Hurry \/ Miss \/ Restart

Spec == Init /\ [][Next]_vars
=============================================================================
