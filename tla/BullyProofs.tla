----------------------------- MODULE BullyProofs -----------------------------
(***************************************************************************)
(* Proofs about BullyElection, for any candidates and any faults.          *)
(***************************************************************************)
EXTENDS BullyElection, TLAPS

-----------------------------------------------------------------------------
(* Helpers.                                                                *)

LEMMA NobodyIsNoNode == Nobody \notin Node /\ Node \subseteq Nat
BY CandidatesAssumption DEF Nobody

LEMMA AtType == \A where \in {"elect", "probe", "lead", "slave", "await", "register",
                              "call", "heartbeat"} :
                  At(where) \in MainState /\ At(where).at = where
BY DEF At, MainState, Host

LEMMA AbandonedType ==
  ASSUME TypeOK, NEW n \in Node
  PROVE  Abandoned(n) \in [Node -> Host]
BY DEF TypeOK, Abandoned, Host

LEMMA QuietType == Quiet \in CommState /\ Quiet.at = "idle"
BY DEF Quiet, CommState, Host

\* The host to register with is a candidate.
LEMMA LeaderHostType ==
  ASSUME TypeOK, NEW n \in Node, NEW t \in LeaderHost(n)
  PROVE  t \in Node
BY DEF TypeOK, LeaderHost, Host

LEMMA OneMain ==
  ASSUME TypeOK, NEW n \in Node, NEW s \in MainState, main' = [main EXCEPT ![n] = s]
  PROVE  /\ main' \in [Node -> MainState] /\ main'[n] = s
         /\ \A k \in Node \ {n} : main'[k] = main[k]
BY DEF TypeOK

-----------------------------------------------------------------------------
(* Type correctness.                                                       *)

LEMMA GoneType ==
  ASSUME TypeOK, NEW n \in Node, Gone(n), faults' \in Nat
  PROVE  TypeOK'
<1>1. main' \in [Node -> MainState]
  BY AtType DEF TypeOK, Gone
<1>2. follows' \in [Node -> Host]
  BY AbandonedType DEF Gone, Host, TypeOK
<1>3. inbox' \in [Node -> Seq(Node)]
  BY DEF Gone, TypeOK
<1>4. comm' \in [Node -> CommState]
  BY QuietType DEF Gone, TypeOK
<1>5. mLeaderHost' \in [Node -> Host] /\ toTell' \in [Node -> SUBSET Node]
  BY DEF Gone, TypeOK, Host
<1>6. director' \in [Node -> {"none", "starting", "initialised", "stopping", "ended"}]
  BY DEF Gone, TypeOK
<1>7. hbStop' \in [Node -> BOOLEAN] /\ up' \subseteq Node /\ listening' \subseteq up'
  BY DEF Gone, TypeOK
<1> QED
  BY <1>1, <1>2, <1>3, <1>4, <1>5, <1>6, <1>7 DEF TypeOK

LEMMA MainType ==
  ASSUME TypeOK, NEW n \in Node, Main(n)
  PROVE  TypeOK'
<1>1. CASE UseLeader(n)
  BY <1>1, AtType, OneMain DEF TypeOK, UseLeader, Goto
<1>2. CASE BeginProbe(n)
  <2>1. [at |-> "probe", left |-> Superiors(n), peer |-> n] \in MainState
    BY DEF MainState, Superiors, Host
  <2> QED
    BY <1>2, <2>1, OneMain DEF TypeOK, BeginProbe
<1>3. CASE Elected(n)
  BY <1>3, AtType, OneMain DEF TypeOK, Elected, Goto, MainState
<1>4. ASSUME NEW m \in Node, Probe(n, m)
      PROVE  TypeOK'
  <2>1. main[n] \in MainState
    BY DEF TypeOK
  <2>2. main' \in [Node -> MainState]
    BY <1>4, <2>1 DEF TypeOK, Probe, MainState, Host
  <2> QED
    BY <1>4, <2>2 DEF TypeOK, Probe
<1>5. CASE Lead(n)
  <2>1. main' \in [Node -> MainState]
    BY <1>5, AtType, OneMain DEF Lead, Goto
  <2>2. follows' \in [Node -> Host]
    BY <1>5, AbandonedType DEF TypeOK, Lead
  <2>3. toTell' \in [Node -> SUBSET Node]
    <3>1. Lessers(n) \in SUBSET Node
      BY DEF Lessers
    <3> QED
      BY <1>5, <3>1 DEF TypeOK, Lead
  <2> QED
    BY <1>5, <2>1, <2>2, <2>3 DEF TypeOK, Lead
<1>6. CASE AwaitDirector(n)
  BY <1>6, AtType, OneMain DEF TypeOK, AwaitDirector, Goto
<1>7. CASE Slave(n)
  <2>1. main' \in [Node -> MainState]
    BY <1>7, AtType, OneMain DEF Slave, Goto
  <2> QED
    BY <1>7, <2>1, AbandonedType DEF TypeOK, Slave
<1>8. CASE NoDirector(n)
  BY <1>8, AtType, OneMain DEF TypeOK, NoDirector, Goto, Host
<1>9. CASE CallDirector(n)
  <2>1. PICK t \in LeaderHost(n) : main' = [main EXCEPT ![n] = [At("call") EXCEPT !.peer = t]]
    BY <1>9 DEF CallDirector
  <2>2. [At("call") EXCEPT !.peer = t] \in MainState
    BY LeaderHostType DEF At, MainState, Host
  <2> QED
    BY <1>9, <2>1, <2>2, OneMain DEF TypeOK, CallDirector
<1>10. CASE Registered(n)
  <2>1. main' \in [Node -> MainState]
    BY <1>10, AtType, OneMain DEF Registered, Goto
  <2>2. follows' \in [Node -> Host]
    BY <1>10 DEF Registered, TypeOK, MainState, Host
  <2> QED
    BY <1>10, <2>1, <2>2 DEF TypeOK, Registered
<1>11. CASE Exit(n)
  BY <1>11, GoneType DEF Exit, TypeOK
<1>12. CASE HeartbeatEnds(n)
  BY <1>12, AtType, OneMain DEF TypeOK, HeartbeatEnds, Goto, Host
<1> QED
  BY <1>1, <1>2, <1>3, <1>4, <1>5, <1>6, <1>7, <1>8, <1>9, <1>10, <1>11, <1>12 DEF Main

LEMMA CommType ==
  ASSUME TypeOK, NEW n \in Node, Comm(n)
  PROVE  TypeOK'
<1>1. CASE Listen(n)
  BY <1>1 DEF TypeOK, Listen
<1>2. CASE Suggested(n)
  <2> DEFINE m == Head(inbox[n])
  <2>1. m \in Node /\ Tail(inbox[n]) \in Seq(Node)
    BY <1>2 DEF Suggested, TypeOK
  <2>2. comm' \in [Node -> CommState]
    BY <1>2, <2>1, QuietType DEF Suggested, TypeOK, CommState, Host
  <2>3. mLeaderHost' \in [Node -> Host]
    BY <1>2, <2>1 DEF Suggested, TypeOK, Host
  <2> QED
    BY <1>2, <2>1, <2>2, <2>3 DEF Suggested, TypeOK
<1>3. CASE Deregister(n)
  BY <1>3, AbandonedType DEF TypeOK, Deregister, CommState
<1>4. CASE SetLeader(n)
  BY <1>4, QuietType DEF TypeOK, SetLeader, CommState
<1> QED
  BY <1>1, <1>2, <1>3, <1>4 DEF Comm

LEMMA DirectorType ==
  ASSUME TypeOK, NEW n \in Node, Director(n)
  PROVE  TypeOK'
<1>1. ASSUME NEW m \in Node, Tell(n, m)
      PROVE  TypeOK'
  BY <1>1 DEF TypeOK, Tell
<1>2. CASE DirectorReady(n) \/ DirectorEnds(n)
  BY <1>2 DEF TypeOK, DirectorReady, DirectorEnds
<1> QED
  BY <1>1, <1>2 DEF Director

\* The variables keep their types.
THEOREM BullyTyping == Spec => []TypeOK
<1>1. Init => TypeOK
  BY AtType, QuietType DEF Init, InitWith, TypeOK, Host
<1>2. TypeOK /\ [Next]_vars => TypeOK'
  <2> SUFFICES ASSUME TypeOK, [Next]_vars
               PROVE  TypeOK'
    OBVIOUS
  <2>1. CASE UNCHANGED vars
    BY <2>1 DEF vars, TypeOK
  <2>2. ASSUME NEW n \in Node, Main(n) \/ Comm(n) \/ Director(n)
        PROVE  TypeOK'
    BY <2>2, MainType, CommType, DirectorType
  <2>3. ASSUME NEW n \in Node, Crash(n) \/ Start(n) \/ StopDirector(n)
        PROVE  TypeOK'
    <3>1. CASE Crash(n)
      BY <3>1, GoneType DEF Crash, Happens, TypeOK
    <3>2. CASE Start(n)
      BY <3>2 DEF Start, Happens, TypeOK
    <3>3. CASE StopDirector(n)
      BY <3>3, AbandonedType DEF StopDirector, Happens, TypeOK
    <3> QED
      BY <2>3, <3>1, <3>2, <3>3
  <2> QED
    BY <2>1, <2>2, <2>3 DEF Next
<1> QED
  BY <1>1, <1>2, PTL DEF Spec

-----------------------------------------------------------------------------
(* The bully's order.                                                      *)

\* Everything that can become somebody's leader ranks above him: messages,
\* suggestions being adopted, candidates being probed, directors being called.
\* Only a daemon whose election port is open is without a leader on record when
\* it turns to registering.
Above(n) ==
  /\ \A i \in 1..Len(inbox[n]) : inbox[n][i] > n
  /\ comm[n].at # "idle" => comm[n].who \in Node /\ comm[n].who > n
  /\ main[n].at = "probe" => main[n].peer \in Node /\ main[n].peer >= n
  /\ main[n].at = "call" /\ main[n].peer # Nobody => main[n].peer >= n
  /\ mLeaderHost[n] # Nobody => mLeaderHost[n] >= n
  /\ follows[n] # Nobody => follows[n] >= n
  /\ toTell[n] \subseteq Lessers(n)

CanAsk(n) == main[n].at \in {"lead", "slave", "await", "register"}
             /\ mLeaderHost[n] = Nobody => n \in listening

\* A leader by its own account has a director, from the moment it has awaited
\* one until its comm thread is about to record somebody else.
HasDirector(n) ==
  /\ main[n].at = "slave" => mLeaderHost[n] # n
  /\ main[n].at \in {"await", "register", "call", "heartbeat"}
     /\ mLeaderHost[n] = n /\ comm[n].at # "set" => director[n] # "none"

Order == \A n \in Node : Above(n) /\ CanAsk(n) /\ HasDirector(n)

LEMMA InitOrder == Init => Order
BY NobodyIsNoNode DEF Init, InitWith, Order, Above, CanAsk, HasDirector, At, Quiet, Lessers

\* A step that touches one daemon only leaves the others' order alone.
LEMMA Frame ==
  ASSUME Order, NEW k \in Node,
         inbox'[k] = inbox[k], comm'[k] = comm[k], main'[k] = main[k],
         mLeaderHost'[k] = mLeaderHost[k], director'[k] = director[k],
         toTell'[k] = toTell[k], follows'[k] \in {follows[k], Nobody},
         k \in listening => k \in listening'
  PROVE  (Above(k) /\ CanAsk(k) /\ HasDirector(k))'
BY DEF Order, Above, CanAsk, HasDirector

LEMMA GoneOrder ==
  ASSUME TypeOK, Order, NEW n \in Node, Gone(n)
  PROVE  Order'
<1> SUFFICES ASSUME NEW k \in Node
             PROVE  (Above(k) /\ CanAsk(k) /\ HasDirector(k))'
  BY DEF Order
<1>1. CASE k = n
  <2>1. /\ inbox'[n] = <<>> /\ comm'[n] = Quiet /\ main'[n] = At("elect")
        /\ mLeaderHost'[n] = Nobody /\ toTell'[n] = {} /\ follows'[n] = Nobody
    BY DEF Gone, TypeOK, Abandoned
  <2> QED
    BY <1>1, <2>1, NobodyIsNoNode DEF Above, CanAsk, HasDirector, At, Quiet
<1>2. CASE k # n
  <2>1. /\ inbox'[k] = inbox[k] /\ comm'[k] = comm[k]
        /\ mLeaderHost'[k] = mLeaderHost[k] /\ director'[k] = director[k]
        /\ toTell'[k] = toTell[k] /\ follows'[k] \in {follows[k], Nobody}
        /\ k \in listening => k \in listening'
    BY <1>2 DEF Gone, TypeOK, Abandoned
  <2>2. CASE main'[k] = main[k]
    BY <2>1, <2>2, Frame
  <2>3. CASE main[k].at = "call" /\ main'[k] = At("call")
    BY <2>1, <2>3 DEF Order, Above, CanAsk, HasDirector, At
  <2> QED
    BY <1>2, <2>2, <2>3 DEF Gone
<1> QED
  BY <1>1, <1>2

LEMMA MainOrder ==
  ASSUME TypeOK, Order, NEW n \in Node, Main(n)
  PROVE  Order'
<1> SUFFICES ASSUME NEW k \in Node
             PROVE  (Above(k) /\ CanAsk(k) /\ HasDirector(k))'
  BY DEF Order
<1> USE NobodyIsNoNode
<1>0. Above(n) /\ CanAsk(n) /\ HasDirector(n)
  BY DEF Order
<1>1. CASE Exit(n)
  BY <1>1, GoneOrder DEF Exit, Order
<1>2. CASE k # n /\ ~Exit(n)
  <2>1. \A c \in Host : [follows EXCEPT ![n] = c][k] = follows[k]
    BY <1>2 DEF TypeOK
  <2>2. Abandoned(n)[k] \in {follows[k], Nobody}
    BY DEF Abandoned
  <2>3. /\ inbox' = inbox /\ comm' = comm /\ listening' = listening
        /\ main'[k] = main[k] /\ mLeaderHost'[k] = mLeaderHost[k]
        /\ director'[k] = director[k] /\ toTell'[k] = toTell[k]
        /\ follows'[k] \in {follows[k], Nobody}
    BY <1>2, <2>1, <2>2 DEF TypeOK, Main, UseLeader, BeginProbe, Elected, Probe, Lead,
       AwaitDirector, Slave, NoDirector, CallDirector, Registered, HeartbeatEnds, Goto
  <2> QED
    BY <2>3, Frame
<1>3. CASE UseLeader(n) /\ k = n
  <2>1. main'[n] = At(IF mLeaderHost[n] = n THEN "lead" ELSE "slave")
    BY <1>3 DEF UseLeader, Goto, TypeOK
  <2> QED
    BY <1>0, <1>3, <2>1 DEF UseLeader, Above, CanAsk, HasDirector, At
<1>4. CASE BeginProbe(n) /\ k = n
  <2>1. main'[n] = [at |-> "probe", left |-> Superiors(n), peer |-> n]
    BY <1>4 DEF BeginProbe, TypeOK
  <2> QED
    BY <1>0, <1>4, <2>1 DEF BeginProbe, Above, CanAsk, HasDirector
<1>5. ASSUME NEW m \in Node, Probe(n, m), k = n
      PROVE  (Above(k) /\ CanAsk(k) /\ HasDirector(k))'
  <2>1. main[n].at = "probe" /\ main[n] \in MainState
    BY <1>5 DEF Probe, AtMain, TypeOK
  <2>2. main'[n].at = "probe" /\ main'[n].peer \in {main[n].peer, m}
    BY <1>5, <2>1 DEF Probe, TypeOK, MainState
  <2>3. main'[n].peer # main[n].peer => m > main[n].peer
    BY <1>5, <2>1 DEF Probe, TypeOK, MainState
  <2> QED
    BY <1>0, <1>5, <2>1, <2>2, <2>3 DEF Probe, Above, CanAsk, HasDirector
<1>6. CASE Elected(n) /\ k = n
  <2>1. /\ main[n].at = "probe" /\ mLeaderHost'[n] = main[n].peer
        /\ main'[n] = At(IF main[n].peer = n THEN "lead" ELSE "slave")
    BY <1>6 DEF Elected, Goto, AtMain, TypeOK
  <2> QED
    BY <1>0, <1>6, <2>1 DEF Elected, Above, CanAsk, HasDirector, At
<1>7. CASE Lead(n) /\ k = n
  <2>1. main[n].at = "lead" /\ main'[n] = At("await") /\ director'[n] # "none"
    BY <1>7 DEF Lead, Goto, AtMain, TypeOK
  <2>2. toTell'[n] \in {toTell[n], Lessers(n)} /\ follows'[n] \in {follows[n], Nobody}
    BY <1>7 DEF Lead, TypeOK, Abandoned
  <2> QED
    BY <1>0, <1>7, <2>1, <2>2 DEF Lead, Above, CanAsk, HasDirector, At
<1>8. CASE AwaitDirector(n) /\ k = n
  <2>1. main[n].at = "await" /\ main'[n] = At("register")
    BY <1>8 DEF AwaitDirector, Goto, AtMain, TypeOK
  <2> QED
    BY <1>0, <1>8, <2>1 DEF AwaitDirector, Above, CanAsk, HasDirector, At
<1>9. CASE Slave(n) /\ k = n
  <2>1. /\ main[n].at = "slave" /\ main'[n] = At("register")
        /\ follows'[n] \in {follows[n], Nobody}
    BY <1>9 DEF Slave, Goto, AtMain, TypeOK, Abandoned
  <2> QED
    BY <1>0, <1>9, <2>1 DEF Slave, Above, CanAsk, HasDirector, At
<1>10. CASE NoDirector(n) /\ k = n
  <2>1. main'[n] = At("elect") /\ mLeaderHost'[n] = Nobody
    BY <1>10 DEF NoDirector, Goto, TypeOK
  <2> QED
    BY <1>0, <1>10, <2>1 DEF NoDirector, Above, CanAsk, HasDirector, At
<1>11. CASE CallDirector(n) /\ k = n
  <2>1. PICK t \in LeaderHost(n) : main' = [main EXCEPT ![n] = [At("call") EXCEPT !.peer = t]]
    BY <1>11 DEF CallDirector
  <2>2. main[n].at = "register" /\ main'[n].at = "call" /\ main'[n].peer = t
    BY <1>11, <2>1 DEF CallDirector, AtMain, TypeOK, At
  <2>3. t \in Node /\ t >= n
    BY <1>0, <2>2, LeaderHostType DEF LeaderHost, Above, CanAsk
  <2> QED
    BY <1>0, <1>11, <2>2, <2>3 DEF CallDirector, Above, CanAsk, HasDirector
<1>12. CASE Registered(n) /\ k = n
  <2>1. /\ main[n].at = "call" /\ main'[n] = At("heartbeat")
        /\ follows'[n] \in {main[n].peer, Nobody}
    BY <1>12 DEF Registered, Goto, AtMain, TypeOK
  <2> QED
    BY <1>0, <1>12, <2>1 DEF Registered, Above, CanAsk, HasDirector, At
<1>13. CASE HeartbeatEnds(n) /\ k = n
  <2>1. main'[n] = At("elect") /\ follows'[n] = Nobody
    BY <1>13 DEF HeartbeatEnds, Goto, TypeOK
  <2> QED
    BY <1>0, <1>13, <2>1 DEF HeartbeatEnds, Above, CanAsk, HasDirector, At
<1> QED
  BY <1>1, <1>2, <1>3, <1>4, <1>5, <1>6, <1>7, <1>8, <1>9, <1>10, <1>11, <1>12, <1>13
     DEF Main

LEMMA CommOrder ==
  ASSUME TypeOK, Order, NEW n \in Node, Comm(n)
  PROVE  Order'
<1> SUFFICES ASSUME NEW k \in Node
             PROVE  (Above(k) /\ CanAsk(k) /\ HasDirector(k))'
  BY DEF Order
<1> USE NobodyIsNoNode
<1>0. Above(n) /\ CanAsk(n) /\ HasDirector(n)
  BY DEF Order
<1>1. CASE k # n
  <2>1. /\ inbox'[k] = inbox[k] /\ comm'[k] = comm[k]
        /\ mLeaderHost'[k] = mLeaderHost[k] /\ director'[k] = director[k]
        /\ main' = main /\ toTell' = toTell
        /\ k \in listening => k \in listening'
    BY <1>1 DEF TypeOK, Comm, Listen, Suggested, Deregister, SetLeader
  <2>2. follows'[k] \in {follows[k], Nobody}
    BY DEF Comm, Listen, Suggested, Deregister, SetLeader, Abandoned
  <2> QED
    BY <2>1, <2>2, Frame
<1>2. CASE Listen(n) /\ k = n
  BY <1>2, Frame DEF Listen
<1>3. CASE Suggested(n) /\ k = n
  <2> DEFINE m == Head(inbox[n])
  <2>1. inbox[n] # <<>> /\ inbox[n] \in Seq(Node) /\ n \in listening
    BY <1>3 DEF Suggested, TypeOK
  <2>2. /\ m \in Node /\ m > n /\ Tail(inbox[n]) \in Seq(Node)
        /\ \A i \in 1..Len(Tail(inbox[n])) : Tail(inbox[n])[i] > n
    BY <1>0, <2>1 DEF Above
  <2>3. inbox'[n] = Tail(inbox[n])
    BY <1>3 DEF Suggested, TypeOK
  <2>4. comm'[n] \in {Quiet, [at |-> "deregister", who |-> m]}
    BY <1>3 DEF Suggested, TypeOK
  <2>5. mLeaderHost'[n] \in {m, Nobody, mLeaderHost[n]}
    BY <1>3 DEF Suggested, TypeOK
  <2>6. comm[n].at = "idle"
    BY <1>3 DEF Suggested
  <2> QED
    BY <1>0, <1>3, <2>1, <2>2, <2>3, <2>4, <2>5, <2>6
       DEF Suggested, Above, CanAsk, HasDirector, Quiet
<1>4. CASE Deregister(n) /\ k = n
  <2>1. comm[n] \in CommState /\ comm[n].at = "deregister"
    BY <1>4 DEF TypeOK, Deregister
  <2>2. comm'[n].at = "set" /\ comm'[n].who = comm[n].who
    BY <1>4, <2>1 DEF Deregister, TypeOK, CommState
  <2>3. follows'[n] \in {follows[n], Nobody}
    BY <1>4 DEF Deregister, Abandoned
  <2> QED
    BY <1>0, <1>4, <2>1, <2>2, <2>3 DEF Deregister, Above, CanAsk, HasDirector
<1>5. CASE SetLeader(n) /\ k = n
  <2>1. /\ comm[n].at = "set" /\ comm'[n] = Quiet /\ mLeaderHost'[n] = comm[n].who
    BY <1>5 DEF SetLeader, TypeOK
  <2> QED
    BY <1>0, <1>5, <2>1 DEF SetLeader, Above, CanAsk, HasDirector, Quiet
<1> QED
  BY <1>1, <1>2, <1>3, <1>4, <1>5 DEF Comm

LEMMA DirectorOrder ==
  ASSUME TypeOK, Order, NEW n \in Node, Director(n)
  PROVE  Order'
<1> SUFFICES ASSUME NEW k \in Node
             PROVE  (Above(k) /\ CanAsk(k) /\ HasDirector(k))'
  BY DEF Order
<1> USE NobodyIsNoNode
<1>0. Above(k) /\ CanAsk(k) /\ HasDirector(k)
  BY DEF Order
<1>1. ASSUME NEW m \in Node, Tell(n, m)
      PROVE  (Above(k) /\ CanAsk(k) /\ HasDirector(k))'
  <2>1. m < n
    BY <1>1 DEF Tell, Order, Above, Lessers
  <2>2. toTell'[k] \subseteq toTell[k]
    BY <1>1 DEF Tell, TypeOK
  <2>3. inbox[k] \in Seq(Node)
    BY DEF TypeOK
  <2>4. inbox'[k] = inbox[k] \/ (k = m /\ inbox'[k] = Append(inbox[k], n))
    BY <1>1 DEF Tell, TypeOK
  <2>5. \A i \in 1..Len(inbox'[k]) : inbox'[k][i] > k
    <3>1. CASE inbox'[k] = inbox[k]
      BY <1>0, <3>1 DEF Above
    <3>2. CASE k = m /\ inbox'[k] = Append(inbox[k], n)
      <4>1. \A i \in 1..Len(inbox[k]) : inbox[k][i] > k
        BY <1>0 DEF Above
      <4> QED
        BY <2>1, <2>3, <3>2, <4>1
    <3> QED
      BY <2>4, <3>1, <3>2
  <2> QED
    BY <1>0, <1>1, <2>2, <2>5 DEF Tell, Above, CanAsk, HasDirector
<1>2. CASE DirectorReady(n) \/ DirectorEnds(n)
  <2>1. director'[k] = director[k] \/ director'[k] \in {"initialised", "ended"}
    BY <1>2 DEF DirectorReady, DirectorEnds, TypeOK
  <2> QED
    BY <1>0, <1>2, <2>1 DEF DirectorReady, DirectorEnds, Above, CanAsk, HasDirector
<1> QED
  BY <1>1, <1>2 DEF Director

LEMMA EventsOrder ==
  ASSUME TypeOK, Order, NEW n \in Node, Crash(n) \/ Start(n) \/ StopDirector(n)
  PROVE  Order'
<1>1. CASE Crash(n)
  BY <1>1, GoneOrder DEF Crash
<1>2. CASE Start(n)
  BY <1>2 DEF Start, Order, Above, CanAsk, HasDirector
<1>3. CASE StopDirector(n)
  <2> SUFFICES ASSUME NEW k \in Node
               PROVE  (Above(k) /\ CanAsk(k) /\ HasDirector(k))'
    BY DEF Order
  <2>1. /\ director'[k] \in {director[k], "stopping"}
        /\ follows'[k] \in {follows[k], Nobody}
    BY <1>3 DEF StopDirector, TypeOK, Abandoned
  <2> QED
    BY <1>3, <2>1 DEF StopDirector, Order, Above, CanAsk, HasDirector
<1> QED
  BY <1>1, <1>2, <1>3

LEMMA OrderInvariant == Spec => []Order
<1>1. TypeOK /\ Order /\ [Next]_vars => Order'
  <2> SUFFICES ASSUME TypeOK, Order, [Next]_vars
               PROVE  Order'
    OBVIOUS
  <2>1. CASE UNCHANGED vars
    BY <2>1 DEF vars, Order, Above, CanAsk, HasDirector
  <2>2. CASE Next
    BY <2>2, MainOrder, CommOrder, DirectorOrder, EventsOrder DEF Next
  <2> QED
    BY <2>1, <2>2
<1> QED
  BY <1>1, InitOrder, BullyTyping, PTL DEF Spec

\* No daemon records, calls or follows a leader that ranks below itself.
THEOREM BullyOrder == Spec => []NeverBelow
<1>1. Order => NeverBelow
  BY DEF Order, Above, NeverBelow
<1> QED
  BY <1>1, OrderInvariant, PTL

\* A daemon that takes itself for the leader and has settled runs a director.
THEOREM LeadersHaveDirectors == Spec => []LeadersDirect
<1>1. Order => LeadersDirect
  BY DEF Order, HasDirector, LeadersDirect, AtMain
<1> QED
  BY <1>1, OrderInvariant, PTL
=============================================================================
