------------------------- MODULE MCScenarioCommand -------------------------
EXTENDS ScenarioCommand

\* Writes under and after a fault, a write to a disconnected device, and a
\* reconnect; the parser rejects an empty list of events.
MCScenarios ==
  {<<"reset">>, <<"write", "eio", "write">>, <<"disconnect", "write">>,
   <<"write", "disconnect", "clear">>, <<"eio", "reset", "write">>}

\* No write, so no wait for room in the FIFO.
MCQuiet == {<<"reset">>, <<"eio">>}

\* Success, failure, the code that also stands for a timeout, and SIGTERM.
MCAppExits == {0, 7, 124, -15}
=============================================================================
