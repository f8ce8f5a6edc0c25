---------------------------- MODULE MCHandshake -----------------------------
(* Handshake with the lists that make the choices differ: each side's best  *)
(* algorithm is the other's second, a category without a common one, the    *)
(* method with a group exchange, and the method do_compat takes out.        *)
EXTENDS Handshake

MCPreferred == [kex |-> <<MlKem, Curve, Ecdh, GroupExchange, Group14>>, cipher |-> <<"aes", "chacha">>]

MCOffers ==
  [kex : {<<Group14, Ecdh>>, <<Group14, GroupExchange>>, <<Curve, Ecdh>>, <<Group14>>, <<MlKem>>},
   cipher : {<<"chacha", "aes">>, <<"other">>}]
=============================================================================
