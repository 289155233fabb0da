--------------------------- MODULE MCAlertSchedule ---------------------------
EXTENDS AlertSchedule, TLC

CONSTANTS rain, briefing, wet, dry

\* One forecast with rain and a late briefing, one without rain and an earlier one.
MCComes == (wet :> (rain :> 3 @@ briefing :> 3)) @@ (dry :> (rain :> Never @@ briefing :> 2))
=============================================================================
