-------------------------- MODULE MCFlightControl --------------------------
EXTENDS FlightControl

=============================================================================
