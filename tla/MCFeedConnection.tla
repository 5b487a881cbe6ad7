-------------------------- MODULE MCFeedConnection --------------------------
(* FeedConnection for TLC.                                                     *)
EXTENDS FeedConnection
=============================================================================
