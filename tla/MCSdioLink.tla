----------------------------- MODULE MCSdioLink -----------------------------
EXTENDS SdioLink

\* No step reads what a frame left in the buffer before its next chunk is
\* stored over it.
Written ==
  IF state = "IDLE" THEN <<>> ELSE [i \in 0 .. next - 1 |-> buffer[i]]

View ==
  <<state, first, next, ble, silent, Written, terminal, events, lifecycle,
    readyEdge, rx, work, ready, outstanding, job, finished, acked, toP4,
    p4Vars, started, harm>>
=============================================================================
