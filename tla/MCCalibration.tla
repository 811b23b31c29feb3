--------------------------- MODULE MCCalibration ---------------------------
(* A small instance of Calibration: two gain samples, three packets.        *)
EXTENDS Calibration
=============================================================================
