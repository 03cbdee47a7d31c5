------------------------------ MODULE MCBriefs ------------------------------
(* A small sales floor: two reps, their leader and a head of sales, in three *)
(* staffings: one team, two teams, and one rep no longer listed.             *)
EXTENDS Briefs, TLC

In(role, team) == [role |-> role, team |-> team]
MCAuthors == "n1" :> "ann" @@ "n2" :> "bob" @@ "n3" :> "hos"
MCCreatedAt == "n1" :> 0 @@ "n2" :> 1 @@ "n3" :> 1

OneTeam == [ann |-> In("rep", "t1"), bob |-> In("team_leader", "t1"), hos |-> In("head_of_sales", NoTeam)]
TwoTeams == [OneTeam EXCEPT !.bob.team = "t2"]
BobGone == [ann |-> In("rep", "t1"), hos |-> In("head_of_sales", NoTeam)]
MCDirectories == {OneTeam, TwoTeams, BobGone}
MCBandTops == <<39, 69, 84, 100>>
=============================================================================
