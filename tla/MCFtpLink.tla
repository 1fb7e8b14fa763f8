------------------------------- MODULE MCFtpLink -------------------------------
EXTENDS FtpLink
=============================================================================
