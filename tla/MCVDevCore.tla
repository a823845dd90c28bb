----------------------------- MODULE MCVDevCore -----------------------------
EXTENDS VDevRefinement

Config(type, repeat, delay, partial) ==
  [type |-> type, repeat |-> repeat, delay_ms |-> delay,
   partial_read_bytes |-> partial]

\* One valid record per type, with fields set that do not belong to it, and
\* one record on each side of every limit.
MCRawConfigs ==
  {Config("NONE", 1, 1, 1), Config("EIO", 2, 1, 1), Config("DELAY", 1, 1, 1),
   Config("DISCONNECT", 1, 1, 1), Config("PARTIAL_READ", 1, 1, 1),
   Config("EIO", 0, 1, 1), Config("EIO", 3, 0, 0), Config("DELAY", 1, 0, 1),
   Config("DELAY", 0, 2, 0), Config("PARTIAL_READ", 1, 1, 0),
   Config("PARTIAL_READ", 0, 0, 4), Config("UNKNOWN", 0, 0, 0)}

MCWakeConfigs ==
  {Config("EIO", 1, 0, 0), Config("DISCONNECT", 0, 0, 0)}

MCLiveConfigs ==
  {Config("DELAY", 0, 1, 0), Config("DISCONNECT", 0, 0, 0)}
=============================================================================
