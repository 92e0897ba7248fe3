------------------------------- MODULE AgentBus -------------------------------
(***************************************************************************)
(* InMemoryAgentBusStore and the agents that use it.  Every method first   *)
(* awaits a microtask and then runs to its end, so a call is one step.     *)
(* An agent polls its inbox, then marks the messages of that page read one *)
(* by one; between two calls anything may happen: other agents send, the   *)
(* agent restarts and forgets its page, the host rebuilds the store from   *)
(* what history() returned.  A body is only empty or not; redaction and    *)
(* metadata are left out.                                                  *)
(***************************************************************************)
EXTENDS Integers, Sequences, FiniteSets, SequencesExt

CONSTANTS
  Teams,           \* in the order the host rebuilds them, a sequence
  Agents, TeamOf, Runs, RunTeam, Members, Types, Limit,
  UnreadDefault, UnreadMax,
  HistoryMax,      \* the most messages one history() call returns
  Sends,           \* the send inputs callers use
  EventInputs,     \* the recordEvent inputs callers use
  Seeds,           \* the seeded message lists a store starts from
  MaxSequence,     \* bound: generated identifiers
  MaxFaults,       \* bound: restarts of the store and of agents
  None, NoLimit, NotRead

Ids == [kind : {"message", "seed"}, n : Nat]

Message ==
  [id : Ids, team : Range(Teams), run : Runs \cup {None}, from : Agents,
   to : Agents \cup {None}, type : Types, at : Nat, read : Nat \cup {NotRead}]

ASSUME BusAssumption ==
  /\ UnreadDefault \in 1..UnreadMax /\ UnreadMax \in Nat
  /\ HistoryMax \in Nat /\ MaxSequence \in Nat /\ MaxFaults \in Nat

(* The constructor keeps teams in a map and looks the team of every        *)
(* identity up.                                                            *)
ASSUME TeamsAssumption ==
  /\ Teams \in Seq(Range(Teams)) /\ IsInjective(Teams)
  /\ TeamOf \in [Agents -> Range(Teams)]
  /\ Limit \in [Agents -> Int]
  /\ None \notin Agents /\ NotRead \notin Nat

(* A store is seeded with messages that nobody has read, each with an id   *)
(* of its own; a generated id comes with the time of the same sequence.    *)
ASSUME SeedsAssumption ==
  \A s \in Seeds :
    /\ s \in Seq(Message)
    /\ \A i, j \in DOMAIN s : s[i].id = s[j].id => i = j
    /\ \A i \in DOMAIN s : s[i].read = NotRead
    /\ \A i \in DOMAIN s : s[i].id.kind = "message" => s[i].at = s[i].id.n

(* Every team has somebody whom the database lets send and poll.           *)
ASSUME OperatorsAssumption ==
  \A t \in Range(Teams) :
    \E m \in Members : m.team = t /\ m.role \in {"owner", "operator"}

VARIABLES
  messages,  \* #messages
  events,    \* the numbers of the ids in #events
  sequence,  \* #sequence
  inbox,     \* inbox[a]: the ids of a's last page that it has not marked
  handled,   \* history: handled[a], the ids a has marked, in order
  faults

vars == <<messages, events, sequence, inbox, handled, faults>>

TypeOK ==
  /\ messages \in Seq(Message)
  /\ events \subseteq 1..MaxSequence
  /\ sequence \in Nat
  /\ inbox \in [Agents -> Seq(Ids)]
  /\ handled \in [Agents -> Seq(Ids)]
  /\ faults \in 0..MaxFaults

(* generatedSequenceValue: only generated ids count towards the sequence.  *)
Generated(id) == IF id.kind = "message" THEN id.n ELSE 0

MaxOf(S) == CHOOSE n \in S : \A m \in S : m <= n

\* Wrong: a rebuilt store counts what it was given.
WrongHighest(ms, es) == Len(ms) + Cardinality(es)

Highest(ms, es) ==
  MaxOf({0} \cup {Generated(ms[i].id) : i \in DOMAIN ms} \cup es)

Init ==
  /\ messages \in Seeds
  /\ events = {}
  /\ sequence = Highest(messages, events)
  /\ inbox = [a \in Agents |-> <<>>]
  /\ handled = [a \in Agents |-> <<>>]
  /\ faults = 0

-----------------------------------------------------------------------------
InTeam(a, team)    == a \in Agents /\ TeamOf[a] = team
RunInTeam(r, team) == r \in Runs /\ RunTeam[r] = team
Known(team)        == team \in Range(Teams)

\* Wrong: the recipient is not looked up.
WrongAccepts(in) ==
  /\ Known(in.team) /\ in.type \in Types
  /\ in.from # None /\ InTeam(in.from, in.team)
  /\ in.run # None => RunInTeam(in.run, in.team)
  /\ in.body # ""

(* The checks of sendMessage, in its order; a refused call changes nothing. *)
Accepts(in) ==
  /\ Known(in.team)
  /\ in.type \in Types
  /\ in.from # None
  /\ InTeam(in.from, in.team)
  /\ in.to # None => InTeam(in.to, in.team)
  /\ in.run # None => RunInTeam(in.run, in.team)
  /\ in.body # ""

SendMessage(in) ==
  /\ Accepts(in)
  /\ sequence < MaxSequence
  /\ sequence' = sequence + 1
  /\ messages' = Append(messages,
       [id   |-> [kind |-> "message", n |-> sequence'], team |-> in.team, run |-> in.run,
        from |-> in.from, to |-> in.to, type |-> in.type, at |-> sequence', read |-> NotRead])
  /\ UNCHANGED <<events, inbox, handled, faults>>

AcceptsEvent(in) ==
  /\ Known(in.team)
  /\ in.run # None => RunInTeam(in.run, in.team)
  /\ in.agent # None => InTeam(in.agent, in.team)
  /\ in.type # ""

RecordEvent(in) ==
  /\ AcceptsEvent(in)
  /\ sequence < MaxSequence
  /\ sequence' = sequence + 1
  /\ events' = events \cup {sequence'}
  /\ UNCHANGED <<messages, inbox, handled, faults>>

\* Wrong: newest first, as the table's index has it.
WrongEarlier(m, n) == m.at > n.at \/ (m.at = n.at /\ m.id.n > n.id.n)

(* compareMessagesAsc: by time, then by id; "message-..." sorts before the *)
(* seeded ids of this model.                                               *)
Earlier(m, n) ==
  \/ m.at < n.at
  \/ m.at = n.at /\ m.id.kind = n.id.kind /\ m.id.n < n.id.n
  \/ m.at = n.at /\ m.id.kind = "message" /\ n.id.kind # "message"

(* Array.prototype.sort is stable: what compares equal keeps its place.    *)
Precedes(i, j) ==
  \/ Earlier(messages[i], messages[j])
  \/ ~ Earlier(messages[j], messages[i]) /\ i < j

(* The messages at these places, sorted and cut to the limit: the k-th is  *)
(* the one that k - 1 others precede.                                      *)
OldestFirst(places, limit) ==
  [k \in 1..(IF Cardinality(places) < limit THEN Cardinality(places) ELSE limit) |->
     messages[CHOOSE i \in places : Cardinality({j \in places : Precedes(j, i)}) = k - 1]]

\* Wrong: no least page.
WrongBoundedLimit(asked, default, most) ==
  IF asked = NoLimit THEN default ELSE IF asked > most THEN most ELSE asked

BoundedLimit(asked, default, most) ==
  IF asked = NoLimit THEN default ELSE
  IF asked < 1 THEN 1 ELSE IF asked > most THEN most ELSE asked

UnreadBy(a) ==
  {i \in DOMAIN messages : /\ messages[i].team = TeamOf[a] /\ messages[i].to = a
                           /\ messages[i].read = NotRead}

Unread(a) == OldestFirst(UnreadBy(a), BoundedLimit(Limit[a], UnreadDefault, UnreadMax))

OfTeam(team)  == {i \in DOMAIN messages : messages[i].team = team}
History(team) == OldestFirst(OfTeam(team), HistoryMax)

Poll(a) ==
  /\ inbox[a] = <<>>
  /\ inbox' = [inbox EXCEPT ![a] = [i \in DOMAIN Unread(a) |-> Unread(a)[i].id]]
  /\ UNCHANGED <<messages, events, sequence, handled, faults>>

(* findIndex: the first message with this id.                              *)
Holds(i, id) == messages[i].id = id /\ \A j \in 1..(i - 1) : messages[j].id # id

(* A read message keeps its first read time; the time is the sequence's,   *)
(* which markRead does not advance.                                        *)
MarkRead(a) ==
  /\ inbox[a] # <<>>
  /\ \E i \in DOMAIN messages :
       /\ Holds(i, Head(inbox[a]))
       /\ messages' = [messages EXCEPT ![i].read = IF @ = NotRead THEN sequence ELSE @]
  /\ inbox' = [inbox EXCEPT ![a] = Tail(@)]
  /\ handled' = [handled EXCEPT ![a] = Append(@, Head(inbox[a]))]
  /\ UNCHANGED <<events, sequence, faults>>

(* An agent's process restarts between its poll and its marks.             *)
AgentRestarts(a) ==
  /\ inbox[a] # <<>> /\ faults < MaxFaults
  /\ inbox' = [inbox EXCEPT ![a] = <<>>]
  /\ faults' = faults + 1
  /\ UNCHANGED <<messages, events, sequence, handled>>

(* The host builds a new store from the history of every team, with the    *)
(* events it kept or without them.  It only does so while the histories    *)
(* are complete.                                                           *)
StoreRestarts ==
  /\ faults < MaxFaults
  /\ \A t \in DOMAIN Teams : Cardinality(OfTeam(Teams[t])) <= HistoryMax
  /\ messages' = FlattenSeq([t \in DOMAIN Teams |-> History(Teams[t])])
  /\ events' \in {events, {}}
  /\ sequence' = Highest(messages', events')
  /\ faults' = faults + 1
  /\ UNCHANGED <<inbox, handled>>

Next ==
  \/ \E in \in Sends : SendMessage(in)
  \/ \E in \in EventInputs : RecordEvent(in)
  \/ \E a \in Agents : Poll(a) \/ MarkRead(a) \/ AgentRestarts(a)
  \/ StoreRestarts

Spec == Init /\ [][Next]_vars

(* Only the agents are fair: each keeps polling and marking.               *)
FairSpec ==
  /\ Spec
  /\ \A a \in Agents : WF_vars(Poll(a)) /\ WF_vars(MarkRead(a))

-----------------------------------------------------------------------------
(* A message is marked read only by its recipient's own mark: no restart   *)
(* of the store makes two messages share an id, so that marking one hides  *)
(* the other from the agent it was sent to (markRead finds by id).         *)
ReadIsHandled ==
  \A i \in DOMAIN messages :
    messages[i].read # NotRead =>
      /\ messages[i].to # None
      /\ messages[i].id \in Range(handled[messages[i].to])

(* Each agent marks the messages generated for it in the order they were   *)
(* sent, whatever the size of its pages, and across restarts.              *)
HandledInOrder ==
  \A a \in Agents : \A i, j \in DOMAIN handled[a] :
    i < j /\ handled[a][i].kind = "message" /\ handled[a][j].kind = "message"
      => handled[a][i].n < handled[a][j].n

Waiting(id) == \E i \in DOMAIN messages :
  messages[i].id = id /\ messages[i].to # None /\ messages[i].read = NotRead

(* Every message to an agent is read in the end, also by an agent that     *)
(* asks for a page of zero messages: boundedLimit gives it one.            *)
InboxesDrain ==
  \A n \in 1..MaxSequence :
    LET id == [kind |-> "message", n |-> n] IN Waiting(id) ~> ~ Waiting(id)

Contract == INSTANCE AgentBusContract WITH rows <- Range(messages)

(* The in-memory store is an implementation of the durable contract, for   *)
(* callers the database would let in: what it accepts, returns and marks   *)
(* is what the SQL functions would, and a complete restart is invisible.   *)
ImplementsContract == Contract!Spec
=============================================================================
