-------------------------- MODULE MCOfferAnswer --------------------------
(* An offer with the two sections MyWidget makes.                           *)
EXTENDS OfferAnswer

MCMids == <<"audio", "video">>
==========================================================================
