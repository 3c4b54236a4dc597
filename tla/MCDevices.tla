----------------------------- MODULE MCDevices -----------------------------
(* The buffer cache, the console, the clock and memory for TLC.  They      *)
(* share no state: in each behaviour one of them moves, and the others     *)
(* stay in one of their initial states.                                    *)
EXTENDS BufferCache, Console, Ticks, Memory

MCProcOf == [t \in Thread |-> IF t <= 2 THEN 1 ELSE 2]
MCDelay == {-1, 0, 1, 2, 3}
MCSbrk == {-4, -2, 1, 3}

VARIABLE moving

Init ==
  /\ moving \in {"cache", "console", "clock", "memory"}
  /\ CacheInit /\ (moving = "cache" \/ \A blk \in Block : platter[blk] = Idle.data)
  /\ moving = "cache" \/ buf[1].data = Idle.data
  /\ ConsoleInit /\ (moving = "console" \/ (r = 0 /\ cursor = 0))
  /\ TicksInit /\ (moving = "clock" \/ ticks = 0)
  /\ MemoryInit

Next ==
  \/ moving = "cache" /\ CacheNext /\ UNCHANGED <<moving, consoleVars, tickVars, memVars>>
  \/ moving = "console" /\ ConsoleNext /\ UNCHANGED <<moving, cacheVars, tickVars, memVars>>
  \/ moving = "clock" /\ TicksNext /\ UNCHANGED <<moving, cacheVars, consoleVars, memVars>>
  \/ moving = "memory" /\ MemoryNext /\ UNCHANGED <<moving, cacheVars, consoleVars, tickVars>>

Spec == Init /\ [][Next]_<<moving, cacheVars, consoleVars, tickVars, memVars>>

=============================================================================
