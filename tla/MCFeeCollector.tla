--------------------------- MODULE MCFeeCollector ---------------------------
(* Instances of the fee collector for TLC.                                   *)
EXTENDS FeeCollector

CONSTANTS v1, p1, p2, p3,             \* a vault and three pairs
          whale, atom, ibc1, ibc2     \* whale is what epochs are paid in

(* The last pair is beyond the first page. *)
MCVaults == <<v1>>
MCPairs == <<p1, p2, p3>>
MCAssetsOf ==
  [c \in {v1, p1, p2, p3} |->
     CASE c = v1 -> <<atom>>
       [] c = p1 -> <<atom, ibc1>>
       [] c = p2 -> <<atom, ibc2>>
       [] c = p3 -> <<whale, atom>>]

(* Two of the assets have one shortened name between them, and the router   *)
(* a route for that name.                                                   *)
MCLabel == [a \in {whale, atom, ibc1, ibc2} |->
              IF a \in {ibc1, ibc2} THEN "ibc" ELSE IF a = whale THEN "whale" ELSE "atom"]
MCRoutes == {<<"atom", "whale">>, <<"ibc", "whale">>}
=============================================================================
