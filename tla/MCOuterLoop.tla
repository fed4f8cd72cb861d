---------------------------- MODULE MCOuterLoop -----------------------------
(* Every recipe beside a serve that crashes, gives up and is started again.  *)
EXTENDS OuterLoop

Left(cost, check, value) == [cost |-> cost, check |-> check, value |-> value]

Costs == {Left(c, "none", 0) : c \in 0..2}
Values == {Left(0, "red", 1), Left(0, "green", 2), Left(0, "none", 0)}

MCOutcomes ==
    [r \in AllRecipes |->
        CASE r = "spend_ceiling" -> Costs
          [] r = "repeat_fail" -> {Left(0, "red", 1), Left(0, "red", 2)}
          [] r = "serial_discard" -> {Left(0, "red", 1), Left(0, "skipped", 0)}
          [] r \in {"tool_allow", "rsi_exam", "between_rounds", "rsi_agent"} ->
                {Left(0, "none", 0)}
          [] r = "ralph" -> Values \cup {Left(0, "skipped", 0)}
          [] r \in {"karpathy", "longhorizon"} -> {Left(0, "red", 1), Left(0, "green", 2)}
          [] OTHER -> Values]

Toml(rounds, stop, delay, command) ==
    [rounds |-> rounds, stop_file |-> stop, delay |-> delay, command |-> command,
     dirty_action |-> "ignore", prompt |-> "good", queue |-> "good"]

Short == 1

Good(r) ==
    CASE r = "tool_allow" -> Toml(1, FALSE, DELAY_S, "tools")
      [] r \in {"spend_ceiling", "repeat_fail"} -> Toml(3, TRUE, DELAY_S, "cold")
      [] r = "ralph" -> Toml(3, TRUE, DELAY_S, "cold")
      [] r \in {"karpathy", "longhorizon", "between_rounds"} -> Toml(3, FALSE, DELAY_S, "cold")
      [] OTHER -> Toml(2, FALSE, DELAY_S, "cold")

(* The example's configuration, and what a user may make of it. *)
MCConfigs ==
    [r \in AllRecipes |->
        {Good(r)}
        \cup (IF r \in {"spend_ceiling", "tool_allow", "repeat_fail"}
              THEN {[Good(r) EXCEPT !.delay = Short]} ELSE {})
        \cup (IF r \in Guarded \cup {"rsi_exam"}
              THEN {[Good(r) EXCEPT !.prompt = "bad"],
                    [Good(r) EXCEPT !.command = "no_session"],
                    [Good(r) EXCEPT !.stop_file = ~@]}
              ELSE {})
        \cup (IF r \in {"karpathy", "rsi_agent", "between_rounds"}
              THEN {[Good(r) EXCEPT !.queue = "bad"]} ELSE {})]
=============================================================================
