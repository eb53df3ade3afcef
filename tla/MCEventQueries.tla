--------------------------- MODULE MCEventQueries ---------------------------
(* EventQueries around midnight of one day: visitors 1 and 2 of today, 3 of   *)
(* the day before, a zone entered before and at the lookback and still used   *)
(* in between, a member of the staff.                                         *)
EXTENDS EventQueries

Midnight == 10 * Day
Row(type, visitor, zone, at) ==
  [type |-> type, visitor |-> visitor, staff |-> FALSE, zone |-> zone, at |-> at]

MCRows ==
  { Row("ENTRY", 1, NoZone, Midnight),
    Row("ENTRY", 2, NoZone, Midnight),
    Row("BILLING_QUEUE_JOIN", 1, NoZone, Midnight),
    Row("BILLING_QUEUE_JOIN", 2, NoZone, Midnight + 1),
    Row("BILLING_QUEUE_ABANDON", 1, NoZone, Midnight + 1),
    Row("ENTRY", 3, NoZone, Midnight - Day),
    Row("BILLING_QUEUE_JOIN", 3, NoZone, Midnight - 1),
    Row("ZONE_ENTER", 2, "z1", Midnight - 2),
    Row("ZONE_DWELL", 2, "z1", Midnight - 1),
    Row("ZONE_ENTER", 1, "z1", Midnight),
    [Row("BILLING_QUEUE_JOIN", 4, NoZone, Midnight) EXCEPT !.staff = TRUE] }
=============================================================================
