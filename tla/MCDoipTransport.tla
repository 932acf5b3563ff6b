-------------------------- MODULE MCDoipTransport --------------------------
(***************************************************************************)
(* DoipTransport with two kinds of request: the smallest number for which  *)
(* a late answer can be taken for another one's or be told apart from it.  *)
(***************************************************************************)
EXTENDS DoipTransport

CONSTANTS speed, session

TwoKinds == {speed, session}

=============================================================================
