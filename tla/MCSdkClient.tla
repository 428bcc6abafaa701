---------------------------- MODULE MCSdkClient -----------------------------
EXTENDS SdkClient
=============================================================================
