----------------------------- MODULE MCSchedule -----------------------------
EXTENDS Schedule
=============================================================================
