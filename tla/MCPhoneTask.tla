----------------------------- MODULE MCPhoneTask -----------------------------
EXTENDS PhoneTask
=============================================================================
