------------------------------ MODULE ScanViewMC ------------------------------
EXTENDS ScanView
=============================================================================
