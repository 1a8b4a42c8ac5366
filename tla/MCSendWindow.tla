---------------------------- MODULE MCSendWindow ----------------------------
EXTENDS SendWindow

CONSTANTS k1, d1, o1, o2

MCSends == {k1}
MCDeletes == {d1}
MCOthers == {o1, o2}
=============================================================================
