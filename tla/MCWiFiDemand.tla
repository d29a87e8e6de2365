---------------------------- MODULE MCWiFiDemand ----------------------------
(* Programs for the runs that follow what the program asked for. *)
EXTENDS WiFiDemand

CONSTANTS s1, s2

\* A station binding and a scan.
StationAndScan == {StationRequest, ScanRequest(s1)}

\* An access point, a beacon and a scan.
ApBeaconAndScan == {AccessPointRequest(s1, TRUE), AccessPointRequest(s2, FALSE), ScanRequest(s1)}
=============================================================================
