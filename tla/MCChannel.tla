------------------------------ MODULE MCChannel ------------------------------
(* Instances of Channel for TLC.                                           *)
EXTENDS Channel

\* A request with both parts and one without arguments, which is answered at
\* greater length; an empty result, of the second answer to the first.
MCArgs   == [r \in Request |-> IF r = "r1" THEN <<"a", "b">> ELSE <<>>]
MCCode   == [r \in Request |-> IF r = "r1" THEN <<"c">> ELSE <<"d", "e">>]
MCResult == [a \in Reply |->
  IF a[1] = "r2" THEN <<"y", "z">> ELSE IF a[2] = 1 THEN <<"x">> ELSE <<>>]

=============================================================================
