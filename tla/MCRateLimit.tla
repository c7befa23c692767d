---------------------------- MODULE MCRateLimit ----------------------------
(***************************************************************************)
(* Four concurrent requests: two of one user under a rule with a level for *)
(* all and a level per user, one without an address under a catch-all rule *)
(* (its key is the default one), and one that carries no attributes.       *)
(***************************************************************************)
EXTENDS RateLimit

MCReq == {"a1", "a2", "other", "bare"}

MCRules ==
  << [patterns |-> {"/token", "/login"},
      levels   |-> << [attrs |-> <<"global">>, burst |-> 1, max |-> 2],
                      [attrs |-> <<"user_id", "ip">>, burst |-> 1, max |-> 1] >>],
     [patterns |-> {"*"},
      levels   |-> << [attrs |-> <<"ip">>, burst |-> 1, max |-> 1] >>] >>

MCPath  == [r \in MCReq |-> IF r \in {"a1", "a2"} THEN {"/token"} ELSE {"/other"}]

MCAttrs ==
  [r \in MCReq |->
     [user_id |-> IF r = "other" THEN "" ELSE "alice",
      ip      |-> IF r = "other" THEN "" ELSE "ip"]]

MCNoAttrs == {"bare"}
=============================================================================
