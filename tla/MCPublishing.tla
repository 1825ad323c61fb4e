---------------------------- MODULE MCPublishing ----------------------------
EXTENDS Publishing
=============================================================================
