------------------------------- MODULE MCIntake -------------------------------
EXTENDS Intake
=============================================================================
