----------------------------- MODULE MCScanJob -----------------------------
EXTENDS ScanJob

CONSTANTS m1, m2
=============================================================================
