--------------------------- MODULE SessionLifecycle ---------------------------
(* The lifecycle of an exploration session: src/exploration/session.ts and  *)
(* the types of src/exploration/contracts.ts.                               *)

Statuses == {"draft", "running", "paused", "completed", "aborted"}

EventTypes ==
  {"session-created", "session-forked", "capability-snapshot",
   "session-started", "session-paused", "session-resumed", "kill-switch",
   "bookmark", "finding", "checkpoint", "session-completed",
   "session-aborted"}

TransitionAllowed(from, to) ==
  <<from, to>> \in
    {<<"draft", "running">>, <<"draft", "aborted">>,
     <<"running", "paused">>, <<"running", "completed">>,
     <<"running", "aborted">>,
     <<"paused", "running">>, <<"paused", "aborted">>}
=============================================================================
