----------------------------- MODULE Elections -----------------------------
(***************************************************************************)
(* The three elections a system may be configured for, under the daemon's  *)
(* one main loop:                                                          *)
(*   bully   the module BullyElection, unchanged;                          *)
(*   ring    SC_RingElection: a message goes round the candidates and      *)
(*           collects ranks, a second one tells everybody the highest;     *)
(*   static  SC_StaticElection: the highest candidate, whether it runs or  *)
(*           not.                                                          *)
(* A message of the ring is passed to the next candidate that listens; it  *)
(* is lost when there is none before its originator, or with the daemon    *)
(* that holds it.  The originator waits until its own comes back.          *)
(***************************************************************************)
EXTENDS BullyElection

Types == {"bully", "ring", "static"}

VARIABLES
  type,     \* election.type
  mail,     \* messages of the ring at a node's election port
  ring,     \* a node's SC_RingElection
  deaf,     \* nodes whose comm thread has ended; the port stays bound
  lost      \* history: the nodes whose election's messages have been lost

ringVars == <<mail, ring, lost>>
threadVars == <<vars, ringVars, deaf>>
electionVars == <<threadVars, type>>

Message == [kind : {"ELECT", "COORD"}, from : Node, top : Node]
NoMessage == [kind |-> "none", from |-> Nobody, top |-> Nobody]

\* begun: the first message has been sent; after: the message whose suggestion
\* the comm thread is working on.
RingState == [mElecting : BOOLEAN, begun : BOOLEAN, after : Message \cup {NoMessage}]
Calm == [mElecting |-> FALSE, begun |-> FALSE, after |-> NoMessage]

-----------------------------------------------------------------------------
(* Passing on: sendMsgToNextNode.                                          *)

\* The candidates from n onwards, in the order of their ranks and round again.
Distance(n, m) == IF m > n THEN m - n ELSE m - n + Highest(Node)

\* The first that listens, unless the originator has been tried before it.
NextNode(n, from) ==
  {m \in listening \ {n} :
     /\ \A k \in listening \ {n} : Distance(n, m) <= Distance(n, k)
     /\ Distance(n, m) <= Distance(n, from)}

\* What is in the mail when n has sent the message; a deaf node never reads it.
Passed(n, message, box) ==
  [m \in Node |-> IF m \in NextNode(n, message.from) THEN Append(box[m], message)
                  ELSE box[m]]
Reaches(n, from) == NextNode(n, from) # {} /\ NextNode(n, from) \cap deaf = {}

-----------------------------------------------------------------------------
(* The main thread: shouldILead.                                           *)

RingBegin(n) ==
  /\ AtMain(n, "elect") /\ mLeaderHost[n] = Nobody
  /\ Goto(n, "probe")
  /\ ring' = [ring EXCEPT ![n].mElecting = TRUE, ![n].begun = FALSE]
  /\ lost' = lost \ {n}
  /\ UNCHANGED <<up, listening, mLeaderHost, inbox, comm, director, toTell,
                 follows, hbStop, faults, mail>>

Electing(n) == AtMain(n, "probe") /\ ~ring[n].begun

\* initiateRingElection: the message is on its way ...
RingInitiate(n) ==
  /\ Electing(n) /\ NextNode(n, n) # {}
  /\ mail' = Passed(n, [kind |-> "ELECT", from |-> n, top |-> n], mail)
  /\ lost' = IF Reaches(n, n) THEN lost ELSE lost \cup {n}
  /\ ring' = [ring EXCEPT ![n].begun = TRUE]
  /\ UNCHANGED vars

\* ... or nobody else listens, and the node suggests itself: it drops its director ...
RingAlone(n) ==
  /\ Electing(n) /\ NextNode(n, n) = {}
  /\ director[n] # "starting"
  /\ LET what == Answer(n, n) IN
       /\ mLeaderHost' = [mLeaderHost EXCEPT ![n] =
            CASE what = "record" -> n
              [] what = "clear" \/ (what = "change" /\ @ > n) -> Nobody
              [] OTHER -> @]
       /\ IF what = "change"
          THEN /\ director' = [director EXCEPT ![n] = "none"]
               /\ follows' = Abandoned(n)
               /\ hbStop' = [hbStop EXCEPT ![n] = TRUE]
               /\ main' = [main EXCEPT ![n].peer = n]
          ELSE UNCHANGED <<director, follows, hbStop, main>>
       /\ ring' = [ring EXCEPT ![n].begun = TRUE, ![n].mElecting = (what = "change")]
  /\ UNCHANGED <<up, listening, inbox, comm, toTell, faults, mail, lost>>

\* ... and records itself.
RingAdopts(n) ==
  /\ AtMain(n, "probe") /\ main[n].peer = n
  /\ mLeaderHost' = [mLeaderHost EXCEPT ![n] = n]
  /\ main' = [main EXCEPT ![n].peer = Nobody]
  /\ ring' = [ring EXCEPT ![n].mElecting = FALSE]
  /\ UNCHANGED <<up, listening, inbox, comm, director, toTell, follows, hbStop,
                 faults, mail, lost>>

\* isElecting() has been polled often enough.
RingElected(n) ==
  /\ AtMain(n, "probe") /\ main[n].peer = Nobody /\ ring[n].begun /\ ~ring[n].mElecting
  /\ Goto(n, IF mLeaderHost[n] = n THEN "lead" ELSE "slave")
  /\ UNCHANGED <<up, listening, mLeaderHost, inbox, comm, director, toTell,
                 follows, hbStop, faults, ringVars>>

\* SC_StaticElection::findLeaderHost.
StaticElected(n) ==
  /\ AtMain(n, "elect") /\ mLeaderHost[n] = Nobody
  /\ mLeaderHost' = [mLeaderHost EXCEPT ![n] = Highest(Node)]
  /\ Goto(n, IF n = Highest(Node) THEN "lead" ELSE "slave")
  /\ UNCHANGED <<up, listening, inbox, comm, director, toTell, follows, hbStop,
                 faults, ringVars>>

\* allowMeToLead() does nothing in either.
Unopposed(n) ==
  /\ director[n] = "starting"
  /\ director' = [director EXCEPT ![n] = "initialised"]
  /\ toTell' = [toTell EXCEPT ![n] = {}]
  /\ UNCHANGED <<up, listening, mLeaderHost, main, inbox, comm, follows, hbStop,
                 faults, ringVars>>

-----------------------------------------------------------------------------
(* The comm thread: processElectionMsg.                                    *)

Reads(n) == /\ n \in listening \ deaf /\ comm[n].at = "idle"
            /\ ring[n].after = NoMessage /\ mail[n] # <<>>

Rest(n) == [mail EXCEPT ![n] = Tail(@)]

\* (A mistake: the highest rank is not passed on.)
Higher_Me(n, message) == n

Higher(n, message) == IF n > message.top THEN n ELSE message.top

PassesOn(n, message, box) ==
  /\ mail' = Passed(n, message, box)
  /\ lost' = IF Reaches(n, message.from) THEN lost ELSE lost \cup {message.from}

RingElect(n) ==
  /\ Reads(n) /\ Head(mail[n]).kind = "ELECT" /\ Head(mail[n]).from # n
  /\ PassesOn(n, [Head(mail[n]) EXCEPT !.top = Higher(n, Head(mail[n]))], Rest(n))
  /\ UNCHANGED <<vars, ring>>

\* Its own message is back: initiateCoOrdMsg.
RingCoordinate(n) ==
  /\ Reads(n) /\ Head(mail[n]).kind = "ELECT" /\ Head(mail[n]).from = n
  /\ IF NextNode(n, n) # {}
     THEN /\ PassesOn(n, [Head(mail[n]) EXCEPT !.kind = "COORD"], Rest(n))
          /\ UNCHANGED ring
     ELSE /\ mail' = Rest(n)
          /\ ring' = [ring EXCEPT ![n].mElecting = FALSE]
          /\ UNCHANGED lost
  /\ UNCHANGED vars

\* The leader of a coordinator message is suggested, ...
RingSuggested(n) ==
  /\ Reads(n) /\ Head(mail[n]).kind = "COORD"
  /\ LET m == Head(mail[n]).top
         what == Answer(n, m)
     IN  /\ mLeaderHost' = [mLeaderHost EXCEPT ![n] =
              CASE what = "record" -> m
                [] what = "clear" \/ (what = "change" /\ @ > m) -> Nobody
                [] OTHER -> @]
         /\ comm' = [comm EXCEPT ![n] =
              IF what = "change" THEN [at |-> "deregister", who |-> m] ELSE Quiet]
  /\ mail' = Rest(n)
  /\ ring' = [ring EXCEPT ![n].after = Head(mail[n])]
  /\ UNCHANGED <<up, listening, main, inbox, director, toTell, follows, hbStop,
                 faults, lost>>

\* ... and then the message is passed on, or the originator's wait is over.
RingConclude(n) ==
  /\ ring[n].after # NoMessage /\ comm[n].at = "idle" /\ n \notin deaf
  /\ IF ring[n].after.from = n
     THEN /\ ring' = [ring EXCEPT ![n].after = NoMessage, ![n].mElecting = FALSE]
          /\ UNCHANGED <<mail, lost>>
     ELSE /\ PassesOn(n, ring[n].after, mail)
          /\ ring' = [ring EXCEPT ![n].after = NoMessage]
  /\ UNCHANGED vars

-----------------------------------------------------------------------------
(* What the threads do in each election.                                   *)

Originators(n) ==
  {mail[n][i].from : i \in DOMAIN mail[n]}
    \cup (IF ring[n].after = NoMessage THEN {} ELSE {ring[n].after.from})

\* A process takes its messages along.
RingGone(n) ==
  /\ mail' = [mail EXCEPT ![n] = <<>>]
  /\ ring' = [ring EXCEPT ![n] = Calm]
  /\ lost' = (lost \cup Originators(n)) \ {n}
  /\ deaf' = deaf \ {n}

\* A socket error, of an accept for instance, leaves the comm thread's run().
CommEnds(n) ==
  /\ n \in listening \ deaf /\ comm[n].at = "idle" /\ Happens("deaf")
  /\ deaf' = deaf \cup {n}
  /\ lost' = lost \cup Originators(n)
  /\ UNCHANGED <<up, listening, mLeaderHost, main, inbox, comm, director, toTell,
                 follows, hbStop, mail, ring>>

MainLoop(n) == \/ UseLeader(n) \/ Lead(n) \/ AwaitDirector(n) \/ Slave(n)
               \/ NoDirector(n) \/ CallDirector(n) \/ Registered(n) \/ HeartbeatEnds(n)

BullyMain(n) == BeginProbe(n) \/ Elected(n) \/ \E m \in Node : Probe(n, m)
RingMain(n)  == RingBegin(n) \/ RingInitiate(n) \/ RingAlone(n) \/ RingAdopts(n)
                  \/ RingElected(n)
RingComm(n)  == RingElect(n) \/ RingCoordinate(n) \/ RingSuggested(n) \/ RingConclude(n)

ElectionMain(n) ==
  \/ /\ \/ MainLoop(n) /\ UNCHANGED ringVars
        \/ type = "bully" /\ BullyMain(n) /\ UNCHANGED ringVars
        \/ type = "ring" /\ RingMain(n)
        \/ type = "static" /\ StaticElected(n)
     /\ UNCHANGED deaf
  \/ Exit(n) /\ RingGone(n)

ElectionComm(n) ==
  /\ \/ (Listen(n) \/ Deregister(n) \/ SetLeader(n)) /\ UNCHANGED ringVars
     \/ type = "bully" /\ n \notin deaf /\ Suggested(n) /\ UNCHANGED ringVars
     \/ type = "ring" /\ RingComm(n)
  /\ UNCHANGED deaf

ElectionDirector(n) ==
  /\ \/ type = "bully" /\ Director(n) /\ UNCHANGED ringVars
     \/ type # "bully" /\ (Unopposed(n) \/ (DirectorEnds(n) /\ UNCHANGED ringVars))
  /\ UNCHANGED deaf

Disturbance(n, kinds) ==
  \/ "crash" \in kinds /\ Crash(n) /\ RingGone(n)
  \/ /\ \/ "start" \in kinds /\ Start(n)
        \/ "stopDirector" \in kinds /\ StopDirector(n)
     /\ UNCHANGED <<ringVars, deaf>>
  \/ "deaf" \in kinds /\ CommEnds(n)

InitElection(t) ==
  /\ type = t
  /\ mail = [n \in Node |-> <<>>]
  /\ ring = [n \in Node |-> Calm]
  /\ deaf = {} /\ lost = {}

ElectionNext ==
  /\ \E n \in Node : ElectionMain(n) \/ ElectionComm(n) \/ ElectionDirector(n)
                       \/ Disturbance(n, Faults)
  /\ UNCHANGED type

\* Any daemons have just been started, or are led.
ElectionInit ==
  /\ \E S \in SUBSET Node : \/ \E ports \in SUBSET S : InitWith(S, ports)
                            \/ S # {} /\ InitLed(S)
  /\ \E t \in Types : InitElection(t)

ElectionSpec == ElectionInit /\ [][ElectionNext]_electionVars

ElectionFairness ==
  \A n \in Node : /\ WF_threadVars(ElectionMain(n))
                  /\ WF_threadVars(ElectionComm(n))
                  /\ WF_threadVars(ElectionDirector(n))

-----------------------------------------------------------------------------
(* Properties.                                                             *)

ElectionTypeOK ==
  /\ TypeOK
  /\ type \in Types
  /\ mail \in [Node -> Seq(Message)]
  /\ ring \in [Node -> RingState]
  /\ deaf \subseteq Node /\ lost \subseteq Node

\* Who takes itself for the leader follows nobody else's director and, where no other
\* daemon can tell it that it leads, as in a ring, has one, however elections, failures
\* and the threads of the daemons interleave.
LeadersServe ==
  /\ \A n \in Node : AtMain(n, "heartbeat") /\ mLeaderHost[n] = n
                      => follows[n] \in {n, Nobody}
  /\ type # "ring" => LeadersDirect

\* A ring's election waits for ever for a message that has been lost, and its
\* node answers the others' elections all the same; a static election waits for
\* a leader that does not run.
Stuck(n) ==
  CASE type = "ring"   -> n \in lost \/ (up # {} /\ Highest(up) \in lost)
    [] type = "static" -> Highest(Node) \notin up
    [] OTHER           -> FALSE

\* Whatever has failed or been stopped, when nothing more happens every daemon
\* that still runs comes to be sent heartbeats for good by some director, be it one
\* that has been stopped since and only answers calls, unless its election is stuck:
\* no election ends without its result, no leader is left on record that has gone,
\* no daemon waits for a director that nobody starts.
EveryoneServed == \A n \in Node : <>[](n \in up /\ ~Stuck(n) => follows[n] # Nobody)

\* After failures of a system that was led, the highest node left leads, alone,
\* and everyone left follows it, by the bully and, as long as no message has
\* been lost, by the ring.
Failover == InitLed(Node) => (HighestLeads \/ []<>(lost # {} \/ type = "static"))
=============================================================================
