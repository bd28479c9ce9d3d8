---------------------------- MODULE MCPostBuffer ----------------------------
(* An RTP and an RTCP poster, or an application that reads both kinds. *)
EXTENDS PostBuffer, Integers

MCKinds == [r \in Reader |-> IF r = App THEN "all" ELSE IF r = "p" THEN "rtp" ELSE "rtcp"]

MCTries == {-1, 0}
=============================================================================
