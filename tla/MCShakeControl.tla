---------------------------- MODULE MCShakeControl ----------------------------
EXTENDS ShakeControl

=============================================================================
