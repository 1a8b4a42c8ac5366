------------------------------ MODULE MCPaging ------------------------------
EXTENDS Paging

\* Below, at and above the cap.
MCLimits == {1, 2, 3}
=============================================================================
