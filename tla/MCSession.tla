----------------------------- MODULE MCSession -----------------------------
(* Session on cards with team.cfgs that are right, in error, or incomplete, *)
(* and with a team number there is no chip of.                              *)
EXTENDS Session

Team(n) == [key |-> "team", no |-> n]
Line(k) == [key |-> k]

MCCfgs == {<<Team(1), Line("base_url")>>, <<Line("base_url"), Line("email"), Team(2)>>,
           <<Team(5), Line("base_url")>>, <<Team(2), Team(1), Line("base_url")>>,
           <<Team(1)>>, <<Line("base_url")>>, <<Team(2), Line("bad")>>,
           <<Line("base_url"), Line("bad_team")>>, <<>>}
=============================================================================
