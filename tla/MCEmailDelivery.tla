--------------------------- MODULE MCEmailDelivery ---------------------------
(* Instances of EmailDelivery for TLC. *)
EXTENDS EmailDelivery, TLC

CONSTANTS k1, c1, c2, c3, h1, h2, w1, w2

\* Three calls with one key; the third asks for another e-mail.
MCKeyOf     == c1 :> k1 @@ c2 :> k1 @@ c3 :> k1
MCContentOf == c1 :> "welcome" @@ c2 :> "welcome" @@ c3 :> "reminder"
MCWorkerOf  == h1 :> w1 @@ h2 :> w2
==============================================================================
