--------------------------- MODULE MCUnixListener ---------------------------
EXTENDS UnixListener
=============================================================================
