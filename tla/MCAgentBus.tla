------------------------------ MODULE MCAgentBus ------------------------------
(* Two agents of one team, one of another, for TLC.                         *)
EXTENDS AgentBus

MCTeams   == <<"t1", "t2">>
MCAgents  == {"ann", "bob", "cid"}
MCTeamOf  == [ann |-> "t1", bob |-> "t1", cid |-> "t2"]
MCRuns    == {"run"}
MCRunTeam == [run |-> "t1"]
MCMembers == {[user |-> "u", team |-> "t1", role |-> "operator"],
              [user |-> "v", team |-> "t2", role |-> "owner"],
              [user |-> "w", team |-> "t2", role |-> "viewer"]}
MCNotRead == -1
MCNoLimit == -1
(* ann asks for pages of 0, bob for more than the most, cid does not say.   *)
MCLimit   == [ann |-> 0, bob |-> 5, cid |-> MCNoLimit]

Input(team, run, from, to, type, body) ==
  [team |-> team, run |-> run, from |-> from, to |-> to, type |-> type, body |-> body]

MCSends ==
  {Input("t1", "run", "bob", "ann", "text", "x"),
   Input("t1", "none", "ann", "bob", "text", "x"),
   Input("t1", "none", "bob", "none", "text", "x"),   \* a broadcast
   Input("t2", "none", "cid", "cid", "text", "x"),
   Input("t1", "none", "ann", "cid", "text", "x"),    \* another team's agent
   Input("t2", "run", "cid", "cid", "text", "x"),     \* another team's run
   Input("t2", "none", "ann", "cid", "text", "x"),    \* another team's sender
   Input("t1", "none", "none", "ann", "text", "x"),
   Input("t1", "none", "bob", "ann", "odd", "x"),
   Input("t1", "none", "bob", "ann", "text", ""),
   Input("t3", "none", "bob", "ann", "text", "x")}

MCEventInputs == {[team |-> "t1", run |-> "none", agent |-> "ann", type |-> "e"],
                  [team |-> "t1", run |-> "none", agent |-> "cid", type |-> "e"]}

Seeded(kind, n, to, at) ==
  [id |-> [kind |-> kind, n |-> n], team |-> "t1", run |-> "none", from |-> "bob",
   to |-> to, type |-> "text", at |-> at, read |-> MCNotRead]

(* No messages; one foreign id of a later time; one generated id.           *)
MCSeeds == {<<>>, <<Seeded("seed", 1, "ann", 2)>>, <<Seeded("message", 1, "ann", 1)>>}
=============================================================================
