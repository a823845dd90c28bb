--------------------------- MODULE MCVDevHistory ---------------------------
EXTENDS VDevHistory

Config(type, repeat, delay, partial) ==
  [type |-> type, repeat |-> repeat, delay_ms |-> delay,
   partial_read_bytes |-> partial]

\* One valid record per type that an outcome is explained by; a delay explains
\* none, and the runs of MCVDevCore have it.
MCConfigs ==
  {Config("EIO", 1, 0, 0), Config("DISCONNECT", 0, 0, 0),
   Config("PARTIAL_READ", 0, 0, 1)}
=============================================================================
