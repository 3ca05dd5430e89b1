----------------------- MODULE MCExternalWithdrawals -----------------------
(* Two requests to two destinations, so that a message carries one payment  *)
(* or both, and either may fail alone.                                      *)
EXTENDS ExternalWithdrawals

OwnDest == [q \in Requests |-> q]
============================================================================
