------------------------------- MODULE MCHost -------------------------------
\* A table of three delays, shorter than the window in which starts count.
EXTENDS Host

MCSchedule == <<0, 1, 2>>
=============================================================================
