-------------------------- MODULE MCVehicleSensing --------------------------
(* Instances of VehicleSensing for TLC.                                    *)
EXTENDS VehicleSensing

CONSTANTS home, away

\* One trip, and no way back.
OneTrip == {<<home, away>>}
=============================================================================
