----------------------------- MODULE MCNamedConf -----------------------------
(***************************************************************************)
(* Two zones with hosts in a net of one octet and in one of two, where the *)
(* key of an address is a pair, on two servers.                            *)
(***************************************************************************)
EXTENDS NamedConf

CONSTANTS home, other

wide   == [base |-> <<0, 1, 0, 0>>, prefixlen |-> 17]
narrow == [base |-> <<1, 0, 1, 0>>, prefixlen |-> 24]

ANets == {wide, narrow}

entry(z, n, k, h, p) == [zone |-> z, net |-> n, key |-> k, host |-> h, ptr |-> p]

ARank == [n \in {home, other, wide, narrow} |->
            CASE n = home -> 1 [] n = other -> 2 [] n = wide -> 3 [] n = narrow -> 4]

\* Two hosts in a net that has no reverse zone; two of different zones, one of
\* which asks for the PTR record; and two that do not ask for it: an error
AContent ==
  [one |-> [zones |-> {home}, nets |-> {narrow},
            entries |-> {entry(home, narrow, <<1>>, "mail", FALSE),
                         entry(home, wide, <<0, 1>>, "mail", FALSE),
                         entry(home, wide, <<0, 1>>, "www", FALSE)}],
   two |-> [zones |-> {home, other}, nets |-> {narrow, wide},
            entries |-> {entry(home, narrow, <<1>>, "mail", FALSE),
                         entry(other, narrow, <<1>>, "www", TRUE),
                         entry(other, narrow, <<0>>, "www", FALSE),
                         entry(other, wide, <<1, 0>>, "www", FALSE),
                         entry(home, wide, <<0, 1>>, "ns", TRUE)}],
   bad |-> [zones |-> {home, other}, nets |-> {wide},
            entries |-> {entry(home, wide, <<0, 1>>, "mail", FALSE),
                         entry(other, wide, <<0, 1>>, "www", FALSE)}]]

ASSUME Fit == KeysFit
=============================================================================
