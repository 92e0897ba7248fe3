--------------------------- MODULE AgentBusContract ---------------------------
(***************************************************************************)
(* What the durable agent bus promises, read off the functions of the      *)
(* Supabase migration: a message is a row, created only for an operator of *)
(* a team whose sender, recipient and run belong to that team; an inbox is *)
(* a page of the agent's unread rows, oldest first; a row is marked read   *)
(* once and keeps the first time.  An agent keeps the page it last fetched *)
(* and marks its messages one by one.  Row ids are opaque (uuid).          *)
(***************************************************************************)
EXTENDS Integers, Sequences, FiniteSets

CONSTANTS
  Agents, TeamOf,  \* fusion_agent_identities: TeamOf[a] is a's team
  Runs, RunTeam,   \* fusion_agent_runs
  Members,         \* fusion_agent_members: records [user, team, role]
  Types,           \* the message types of the table's CHECK
  Limit,           \* Limit[a]: the p_limit agent a asks for, or NoLimit
  UnreadDefault, UnreadMax,
  None, NoLimit, NotRead

VARIABLES
  rows,   \* fusion_agent_messages
  inbox   \* inbox[a]: the ids of a's last page not yet marked

vars == <<rows, inbox>>

IsTeamMember(team)   == \E m \in Members : m.team = team
IsTeamOperator(team) == \E m \in Members : m.team = team /\ m.role \in {"owner", "operator"}
IdentityInTeam(a, team) == a = None \/ (a \in Agents /\ TeamOf[a] = team)
RunInTeam(r, team)      == r = None \/ (r \in Runs /\ RunTeam[r] = team)

(* Whatever rows the tables hold, an id is a primary key.                  *)
Init ==
  /\ \A r, q \in rows : r.id = q.id => r = q
  /\ inbox = [a \in Agents |-> <<>>]

(* fusion_agent_send_message: the row a call inserts.                      *)
Insertable(r) ==
  /\ IsTeamOperator(r.team)
  /\ r.from # None
  /\ RunInTeam(r.run, r.team)
  /\ IdentityInTeam(r.from, r.team)
  /\ IdentityInTeam(r.to, r.team)
  /\ r.type \in Types
  /\ r.read = NotRead

Send ==
  /\ \E r \in rows' \ rows :
       /\ Insertable(r)
       /\ r.id \notin {q.id : q \in rows}
       /\ rows' = rows \cup {r}
  /\ UNCHANGED inbox

(* fusion_agent_unread_messages: least(greatest(coalesce(p_limit, ..), 1), ..) *)
PageSize(a) ==
  LET asked == IF Limit[a] = NoLimit THEN UnreadDefault ELSE Limit[a]
      least == IF asked < 1 THEN 1 ELSE asked
  IN  IF least > UnreadMax THEN UnreadMax ELSE least

UnreadRows(a) == {r \in rows : r.team = TeamOf[a] /\ r.to = a /\ r.read = NotRead}

(* A page holds the oldest unread rows; rows of one instant come by uuid,  *)
(* that is in any order.                                                   *)
IsPage(p, a) ==
  LET waiting == UnreadRows(a)
      at(id)  == (CHOOSE r \in waiting : r.id = id).at
      paged   == {p[i] : i \in DOMAIN p}
  IN  /\ paged \subseteq {r.id : r \in waiting}
      /\ Cardinality(paged) = Len(p)
      /\ Len(p) = IF Cardinality(waiting) < PageSize(a) THEN Cardinality(waiting) ELSE PageSize(a)
      /\ \A i, j \in DOMAIN p : i < j => at(p[i]) <= at(p[j])
      /\ \A r \in waiting, i \in DOMAIN p : r.id \in paged \/ at(p[i]) <= r.at

Poll(a) ==
  /\ IsTeamMember(TeamOf[a])
  /\ inbox[a] = <<>>
  /\ IsPage(inbox'[a], a)
  /\ inbox' = [inbox EXCEPT ![a] = inbox'[a]]
  /\ UNCHANGED rows

(* fusion_agent_mark_message_read: read_at = coalesce(read_at, now()).     *)
MarkRead(a) ==
  /\ inbox[a] # <<>>
  /\ \E r \in rows :
       /\ r.id = Head(inbox[a])
       /\ IsTeamMember(r.team)
       /\ \/ r.read # NotRead /\ UNCHANGED rows
          \/ /\ r.read = NotRead
             /\ \E q \in rows' : /\ q.read # NotRead
                                 /\ q = [r EXCEPT !.read = q.read]
                                 /\ rows' = (rows \ {r}) \cup {q}
  /\ inbox' = [inbox EXCEPT ![a] = Tail(@)]

(* The agent's process restarts and forgets its page.                      *)
Forget(a) ==
  /\ inbox' = [inbox EXCEPT ![a] = <<>>]
  /\ UNCHANGED rows

Next == Send \/ \E a \in Agents : Poll(a) \/ MarkRead(a) \/ Forget(a)

Spec == Init /\ [][Next]_vars
=============================================================================
