---------------------------- MODULE MCSriUpdates ----------------------------
EXTENDS SriUpdates

\* Each of the two settings takes both its values.
McSettings == {[big |-> TRUE, priority |-> FALSE], [big |-> FALSE, priority |-> TRUE]}
=============================================================================
