---------------------------- MODULE WiFiRequests ----------------------------
(***************************************************************************)
(* The queue of radio requests (WiFi/WiFiRequests.cpp).  Every operation   *)
(* of the class holds lock_mutex from its first read to its last write, so *)
(* each is one operator on the whole queue.                                *)
(*                                                                         *)
(* A request is compared by its type and by the pointers in its payload.   *)
(* A pointer identifies the program element that owns the string, so it is *)
(* a member of Ssids here; the password and the mask of an access point    *)
(* come from the same element as its ssid, and only whether they are there *)
(* (a secure access point) or NULL (a beacon) tells two requests apart.    *)
(***************************************************************************)
EXTENDS Naturals, SequencesExt

CONSTANTS
  Ssids,          \* ssid strings owned by program elements
  NoSsid,         \* the empty payload of a station request
  RequestsLimit   \* WiFi_RequestsLimit

ASSUME SsidsAssumption == NoSsid \notin Ssids
ASSUME RequestsLimitAssumption == RequestsLimit \in Nat \ {0}

StationRequest == [type |-> "Station", ssid |-> NoSsid, secure |-> FALSE]
ScanRequest(ssid) == [type |-> "Scanner", ssid |-> ssid, secure |-> FALSE]
AccessPointRequest(ssid, secure) ==
  [type |-> "AccessPoint", ssid |-> ssid, secure |-> secure]

RequestItems ==
  {StationRequest}
    \cup {ScanRequest(s) : s \in Ssids}
    \cup {AccessPointRequest(s, b) : s \in Ssids, b \in BOOLEAN}

\* Mutants: a duplicate is not looked for; the request served is taken to be
\* among those queued.
CanAddAgain(items, item) == Len(items) < RequestsLimit
HasTwo(items, current) == Len(items) > 1

\* Station, Scan and AccessPoint queue a request through Add, which refuses a
\* duplicate and drops a request when the array is full.
CanAdd(items, item) ==
  /\ item \notin ToSet(items)
  /\ Len(items) < RequestsLimit

\* Mutant: what a request asks for is not compared, only its type.
RemoveOfType(items, item) ==
  LET first == SelectInSeq(items, LAMBDA queued : queued.type = item.type)
  IN  IF first = 0 THEN items ELSE RemoveAt(items, first)

\* RemoveStation, RemoveScan and RemoveAccessPoint.
RemoveRequest(items, item) == RemoveFirst(items, item)

HasAnother(items, current) == \E item \in ToSet(items) : item # current

\* No two entries are equal, and the array is not overrun.
WellFormedQueue(items) ==
  /\ Len(items) <= RequestsLimit
  /\ \A i, j \in 1..Len(items) : i # j => items[i] # items[j]
=============================================================================
