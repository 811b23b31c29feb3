-------------------------- MODULE MCPidThermostat --------------------------
(* A small instance of PidThermostat: gains that saturate the integral, a   *)
(* dew point above the setpoint, limits that push each other.               *)
EXTENDS PidThermostat

MCDewPoint(t, h) == t

MCConfig ==
  [k \in Kinds |->
     CASE k = "kp" -> 20 [] k = "ki" -> 10 [] k = "kd" -> 10
       [] k = "i_min" -> 0 [] k = "i_max" -> 20
       [] k = "hot_tolerance" -> 2 [] k = "cold_tolerance" -> 2
       [] k = "pwm_period" -> 3 [] k = "pwm_min" -> 25 [] k = "pwm_max" -> 100
       [] k = "keep_alive" -> 3 [] k = "min_cycle_duration" -> 2
       [] k = "min_off_cycle_duration" -> 2
       [] k = "dew_point_offset" -> 1 [] k = "output_safety" -> 25
       [] OTHER -> 0]

Setting(k, v) == [kind |-> k, value |-> v]

MCWrites ==
  {Setting("i_min", 30), Setting("i_max", 40), Setting("i_max", 5),
   Setting("pwm_min", 60), Setting("pwm_max", 50),
   Setting("hot_tolerance", 1), Setting("test_output", 50),
   Setting("sampling_period", 2)}

MCScenarios ==
  {{"sensor", "mode", "target"},
   {"fallback", "mode", "reset"},
   {"sensor", "mode", "enable"},
   {"sensor", "mode", "commission"},
   {"sensor", "mode", "sampling_period"},
   {"humidity", "service", "mode"},
   {"mode", "enable", "hand", "restart"},
   {"mode", "enable", "hand", "commission"},
   {"mode", "i_min", "i_max", "restart"},
   {"sensor", "mode", "i_min"},
   {"pwm_min", "pwm_max", "hot_tolerance", "restart"},
   {"mode", "commission", "test_output", "restart"}}

============================================================================
