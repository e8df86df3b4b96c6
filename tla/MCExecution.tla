----------------------------- MODULE MCExecution -----------------------------
(* Small instances of Execution for TLC. *)
EXTENDS Execution, TLC

CONSTANTS start, hold, resume, cut, end, stop, r1

CommandsAre(S) ==
  LET all == start :> "start" @@ hold :> "hold" @@ resume :> "resume" @@ cut :> "interrupt"
               @@ end :> "end" @@ stop :> "emergency_end"
  IN [c \in S |-> all[c]]

LifeCommands == CommandsAre({start, hold, resume, end})

HeldCommands == CommandsAre({start, hold, cut})

Fact(kind, phase, seq) == [kind |-> kind, phase |-> phase, seq |-> seq, healthy |-> TRUE]

\* An execution that gets ready, warms up, goes live and is reported as over.
OneLife ==
  {Fact("runtime_ready", "ready", 1), Fact("phase_changed", "warming", 2),
   Fact("first_ai_broadcast", "selling", 3), Fact("phase_changed", "ended", 6)}

\* The same, with a health report in between.
SickLife == OneLife \cup {[kind |-> "health", phase |-> "ready", seq |-> 2, healthy |-> FALSE]}
=============================================================================
