------------------------- MODULE MCDummyThermostat -------------------------
(* A cold, a right and a hot room, and four installations: one for the valve,   *)
(* one for the two temperature sources, one for the humidity, one for the user. *)
EXTENDS DummyThermostat

CONSTANT NoValue

MCTemperatures == {1, 3, 5}
MCTargets == {3}
MCModes == {"off", "heat", "cool"}
MCHumidities == {40, 60}

Bare == [fallback_sensor |-> FALSE, sensor_timeout |-> 0, fallback_sensor_timeout |-> 0,
         fallback_humidity_sensor |-> FALSE, humidity_sensor_timeout |-> 0,
         valve_update_timeout |-> 0, valve_switch |-> TRUE, events |-> {}]

Valve == [Bare EXCEPT !.valve_update_timeout = 2,
                      !.events = {"valve", "temperature", "restart"}]
Sources2 == [Bare EXCEPT !.fallback_sensor = TRUE, !.sensor_timeout = 1,
                         !.fallback_sensor_timeout = 1,
                         !.events = {"temperature", "fallback", "restart"}]
Damp == [Bare EXCEPT !.fallback_humidity_sensor = TRUE, !.humidity_sensor_timeout = 2,
                     !.events = {"humidity", "fallback humidity", "restart"}]
User == [Bare EXCEPT !.valve_update_timeout = 2, !.events =
           {"valve", "temperature", "control", "enable", "use local", "switch"}]

MCInstallations == {Valve, Sources2, Damp, User}
=============================================================================
