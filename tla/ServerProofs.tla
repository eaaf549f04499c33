---------------------------- MODULE ServerProofs ----------------------------
(***************************************************************************)
(* The start of a server: for any number of servers and offline commands,  *)
(* and any number of crashes and failing shutdowns, one process at a time  *)
(* is inside a data directory, a stop in which nothing failed gives the    *)
(* lock back over a flushed database, and a directory of another layout is *)
(* left alone.                                                             *)
(*                                                                         *)
(* Its users: for any number of administrators, users, statements and      *)
(* restarts, a dropped user stays out until its name is created again,     *)
(* unless two administrators created it at once; and with one              *)
(* administrator at a time the map is what a restart loads and somebody    *)
(* can always administer.                                                  *)
(*                                                                         *)
(* Its connections: for any number of clients, addresses and limits, an    *)
(* address is held to the connections it has and the log-ins it failed;    *)
(* no stretch of a connection's queries exceeds its rate, and its bytes    *)
(* are within what the bucket and the sleeps earn.                         *)
(*                                                                         *)
(* Its largest client: for any file, batch size and channel, any RUN that  *)
(* fails or PULL that is refused and a connection that may break, the      *)
(* totals of a pipelined import are what the server did and answered.      *)
(*                                                                         *)
(* Its audit log: for any events, limits and failing file operations, no   *)
(* event disappears unaccounted, and the files keep the newest lines in    *)
(* order.                                                                  *)
(***************************************************************************)
EXTENDS StartUp, UserStore, ConnectionFront, Throttle, ImportPipeline, AuditLog,
        FiniteSetTheorems, WellFoundedInduction, TLAPS

-----------------------------------------------------------------------------
(* Starting up.                                                            *)

Markers == {"absent", "empty", "current", "old", "new"}
Places == {"off", "stamp", "write", "layout", "open", "load", "bootstrap", "serve", "unlock", "leave", "edit"}

StartType ==
  /\ marker \in Markers /\ system \in BOOLEAN /\ legacy \in BOOLEAN /\ unflushed \in BOOLEAN /\ unclean \in BOOLEAN
  /\ lockHolder \in Processes \cup {NoProcess}
  /\ admins \in {0, 1} /\ crashes \in Nat
  /\ at \in [Processes -> Places]

\* Past acquire_exclusive, and until the lock is dropped.
Inside == {"load", "bootstrap", "serve", "unlock", "edit"}

\* Whoever is inside is the holder of the lock: not only those the property
\* counts, for a process that has flushed still holds it.
InsideHolds == \A p \in Processes : at[p] \in Inside => lockHolder = p

\* What a starting server read of the users is still so when it acts on it.
BootstrapIsFirst == \A p \in Processes : at[p] = "bootstrap" => admins = 0

\* Unflushed changes have a server that will flush them, unless something went
\* wrong since the last flush.
UnflushedIsServed == (unflushed /\ ~unclean) => \E p \in Processes : at[p] = "serve"

\* Nobody has passed the guard of a directory with another layout, nor found
\* it fresh.
ForeignIsRefused ==
  /\ legacy => system
  /\ (legacy /\ marker # "current") => \A p \in Processes : at[p] \in {"off", "layout", "edit"}

StartInv == StartType /\ InsideHolds /\ BootstrapIsFirst /\ UnflushedIsServed /\ ForeignIsRefused

USE DEF Markers, Places, Inside

\* Every directory a process can be started on satisfies the invariant.
LEMMA StartInit ==
  ASSUME NEW dir \in Directories, InitStart(dir)
  PROVE  StartInv
<1>1. StartType
  <2>1. dir.marker \in Markers /\ dir.system \in {TRUE, FALSE}
    <3>1. CASE dir = [marker |-> "absent", system |-> FALSE]
      BY <3>1
    <3>2. CASE dir \in [marker : {"absent", "current", "old", "new"}, system : {TRUE}]
      BY <3>2, Zenon
    <3>. QED  BY <3>1, <3>2 DEF Directories
  <2>2. system \in BOOLEAN /\ legacy \in BOOLEAN /\ unflushed \in BOOLEAN /\ unclean \in BOOLEAN
    BY <2>1 DEF InitStart
  <2>3. admins \in {0, 1} /\ crashes \in Nat /\ at \in [Processes -> Places]
    BY <2>2 DEF InitStart
  <2>. QED  BY <2>1, <2>2, <2>3 DEF InitStart, StartType
<1>2. InsideHolds /\ BootstrapIsFirst /\ UnflushedIsServed /\ ForeignIsRefused
  BY DEF InitStart, InsideHolds, BootstrapIsFirst, UnflushedIsServed, ForeignIsRefused
<1>. QED  BY <1>1, <1>2 DEF StartInv

\* Every step of a process keeps the invariant.
LEMMA StartStep ==
  ASSUME StartInv, NEW p \in Processes,
         ServerStep(p) \/ ToolStarts(p) \/ ToolAdds(p) \/ Unlock(p) \/ Die(p)
  PROVE  StartInv'
<1>. USE NoProcessAssumption DEF StartInv, StartType, InsideHolds, BootstrapIsFirst, UnflushedIsServed,
        ForeignIsRefused, Move, Processes
<1>1. CASE CheckFresh(p)    BY <1>1 DEF CheckFresh
<1>2. CASE CreateMarker(p)  BY <1>2 DEF CreateMarker
<1>3. CASE WriteMarker(p)   BY <1>3 DEF WriteMarker
<1>4. CASE ReadOrReject(p)  BY <1>4 DEF ReadOrReject
<1>5. CASE AcquireExclusive(p)  BY <1>5 DEF AcquireExclusive
<1>6. CASE LoadUsers(p)     BY <1>6 DEF LoadUsers
<1>7. CASE Bootstrap(p)     BY <1>7 DEF Bootstrap
<1>8. CASE ServeWrite(p)    BY <1>8 DEF ServeWrite
<1>9. CASE CloseAll(p)      BY <1>9 DEF CloseAll
<1>10. CASE ToolStarts(p)   BY <1>10 DEF ToolStarts
<1>11. CASE ToolAdds(p)     BY <1>11 DEF ToolAdds
<1>12. CASE Unlock(p)       BY <1>12 DEF Unlock
<1>13. CASE Die(p)          BY <1>13 DEF Die
<1>14. CASE LateWrite(p)    BY <1>14 DEF LateWrite
<1>15. CASE EndProcess(p)        BY <1>15 DEF EndProcess
<1>. QED
  BY <1>1, <1>2, <1>3, <1>4, <1>5, <1>6, <1>7, <1>8, <1>9, <1>10, <1>11, <1>12, <1>13, <1>14, <1>15
  DEF ServerStep

\* A step that does nothing keeps it as well.
LEMMA StartStutters ==
  ASSUME StartInv, UNCHANGED startVars
  PROVE  StartInv'
BY DEF StartInv, StartType, InsideHolds, BootstrapIsFirst, UnflushedIsServed, ForeignIsRefused, startVars

\* The invariant contains both state properties.
LEMMA StartInvImplies ==
  ASSUME StartInv
  PROVE  OneProcessInside /\ UnlockedIsFlushed
<1>. DEFINE S == {p \in Processes : at[p] \in {"load", "bootstrap", "serve", "edit"}}
<1>1. S \subseteq {lockHolder}
  BY DEF StartInv, InsideHolds
<1>2. IsFiniteSet({lockHolder}) /\ Cardinality({lockHolder}) = 1
  BY FS_Singleton
<1>3. Cardinality(S) <= 1
  <2>. HIDE DEF S
  <2>. QED  BY <1>1, <1>2, FS_Subset
<1>4. OneProcessInside
  BY <1>3 DEF OneProcessInside, StartInv, StartType
<1>5. UnlockedIsFlushed
  BY NoProcessAssumption DEF UnlockedIsFlushed, StartInv, StartType, UnflushedIsServed, InsideHolds, Processes
<1>. QED  BY <1>4, <1>5

\* No step touches a directory of another layout.
LEMMA ForeignStep ==
  ASSUME StartInv, NextStart
  PROVE  (legacy /\ marker # "current") =>
           /\ marker' = marker
           /\ \A p \in Servers : at'[p] \notin {"load", "bootstrap", "serve"}
<1>. SUFFICES ASSUME legacy, marker # "current"
              PROVE  marker' = marker /\ \A p \in Servers : at'[p] \notin {"load", "bootstrap", "serve"}
  OBVIOUS
<1>1. PICK p \in Processes : ServerStep(p) \/ ToolStarts(p) \/ ToolAdds(p) \/ Unlock(p) \/ Die(p)
  BY DEF NextStart
<1>2. \A q \in Processes : at[q] \in {"off", "layout", "edit"}
  BY DEF StartInv, ForeignIsRefused
<1>3. system /\ at \in [Processes -> Places] /\ Servers \subseteq Processes
  BY DEF StartInv, ForeignIsRefused, StartType, Processes
<1>4. CASE ServerStep(p)
  BY <1>2, <1>3, <1>4 DEF ServerStep, CheckFresh, CreateMarker, WriteMarker, ReadOrReject, AcquireExclusive,
       LoadUsers, Bootstrap, ServeWrite, CloseAll, LateWrite, EndProcess, Move
<1>5. CASE ToolStarts(p) \/ ToolAdds(p) \/ Unlock(p) \/ Die(p)
  BY <1>2, <1>3, <1>5 DEF ToolStarts, ToolAdds, Unlock, Die, Move
<1>. QED  BY <1>1, <1>4, <1>5

\* However starts, stops, failing shutdowns and crashes of any number of servers
\* and offline commands interleave, one process at a time is inside the
\* directory, the administrator is created once, a stop in which nothing failed
\* gives the lock back over a flushed database (close_all before the drop of
\* system_lock), and a directory of another layout is neither stamped nor served.
THEOREM StartsAreSafe == SpecStart => StartIsSafe
<1>1. (\E dir \in Directories : InitStart(dir)) => StartInv
  BY StartInit
<1>2. StartInv /\ [NextStart]_startVars => StartInv'
  BY StartStep, StartStutters DEF NextStart
<1>3. StartInv => OneProcessInside /\ UnlockedIsFlushed
  BY StartInvImplies
<1>4. StartInv /\ [NextStart]_startVars =>
        [(legacy /\ marker # "current") =>
           /\ marker' = marker
           /\ \A p \in Servers : at'[p] \notin {"load", "bootstrap", "serve"}]_startVars
  BY ForeignStep
<1>. QED
  BY <1>1, <1>2, <1>3, <1>4, PTL DEF SpecStart, StartIsSafe, ForeignLayoutUntouched

-----------------------------------------------------------------------------
(* Users and administrators.                                               *)

AllNames == Names \cup {RootName}
RootHash == CHOOSE h \in Hashes : TRUE
\* What a property of a user may be: a hash or a flag.
Data == Hashes \cup {RootHash} \cup BOOLEAN

UserNode == [name : AllNames, hash : Data, enabled : Data, admin : Data]
User == [name : AllNames, hash : Data, enabled : Data, admin : Data, node : Nat]

\* A statement between its steps.
CreateChecked == [at : {"graph"}, op : {"create"}, name : AllNames, user : UserNode]
CreateWritten == [at : {"mirror"}, op : {"create"}, name : AllNames, user : User]
DropCall == [at : {"graph", "mirror"}, op : {"drop"}, name : AllNames, node : Nat]
SetCall == [at : {"graph", "mirror"}, op : {"set"}, name : AllNames, node : Nat,
            field : {"hash", "enabled", "admin"}, value : Data]
Calls == {NoCall} \cup CreateChecked \cup CreateWritten \cup DropCall \cup SetCall

UsersType ==
  /\ active \subseteq Sessions
  /\ nextNode \in Nat
  /\ nodes \in [DOMAIN nodes -> UserNode]
  /\ DOMAIN nodes \subseteq Nat /\ \A n \in DOMAIN nodes : n < nextNode
  /\ mirror \in [DOMAIN mirror -> User] /\ DOMAIN mirror \subseteq AllNames
  /\ call \in [Sessions -> Calls]
  /\ \A s \in Sessions : s \notin active => call[s] = NoCall

\* The map files every user under its name, and under the node that had it.
MirrorIsFiled ==
  \A u \in DOMAIN mirror :
    /\ mirror[u].name = u /\ mirror[u].node < nextNode
    /\ mirror[u].node \in DOMAIN nodes => nodes[mirror[u].node].name = u

Dropping(s, u) == call[s].at = "mirror" /\ call[s].op = "drop" /\ call[s].name = u

\* An entry without a node belongs to a drop that is about to remove it.
EntriesHaveNodes ==
  \A u \in DOMAIN mirror :
    mirror[u].node \in DOMAIN nodes \/ \E s \in active : Dropping(s, u)

\* A statement works on the node of the user it names.
CallsAreFiled ==
  \A s \in Sessions :
    /\ call[s].at = "graph" /\ call[s].op = "create" => call[s].user.name = call[s].name
    /\ call[s].at = "graph" /\ call[s].op \in {"drop", "set"} =>
         /\ call[s].node < nextNode
         /\ call[s].node \in DOMAIN nodes => nodes[call[s].node].name = call[s].name

Creating(s) == call[s].at = "mirror" /\ call[s].op = "create"

\* A node that is not yet in the map is known to nobody but its creator.
NewNodesArePrivate ==
  \A s \in Sessions : Creating(s) =>
    /\ call[s].user.name = call[s].name
    /\ call[s].user.node \in DOMAIN nodes /\ nodes[call[s].user.node].name = call[s].name
    /\ \A u \in DOMAIN mirror : mirror[u].node # call[s].user.node
    /\ \A t \in Sessions : call[t].at = "graph" /\ call[t].op \in {"drop", "set"} =>
         call[t].node # call[s].user.node
    /\ \A t \in Sessions : t # s /\ Creating(t) => call[t].user.node # call[s].user.node

UsersInv == UsersType /\ MirrorIsFiled /\ EntriesHaveNodes /\ CallsAreFiled /\ NewNodesArePrivate

\* What a restart loads.
ExactMap(m, graph) ==
  /\ \A u \in DOMAIN m : /\ m[u].name = u /\ m[u].node \in DOMAIN graph
                         /\ NodeOf(m[u]) = graph[m[u].node]
  /\ \A n \in DOMAIN graph : \E u \in DOMAIN m : m[u].node = n
HasAdmin(m) == \E u \in DOMAIN m : m[u].admin /\ m[u].enabled

\* One administrator: before its change is in the nodes the map is exact, and
\* after that the map is exact once the change has reached it; somebody can
\* administer before and after.
Serial(s) ==
  /\ HasAdmin(mirror)
  /\ call[s].at \in {"idle", "graph"} => ExactMap(mirror, nodes)
  /\ call[s].at = "graph" =>
       /\ call[s].op = "create" => call[s].name \notin DOMAIN mirror
       /\ call[s].op \in {"drop", "set"} =>
            /\ call[s].name \in DOMAIN mirror /\ call[s].node = mirror[call[s].name].node
            /\ HasAdmin(MirrorAfter(call[s]))
  /\ call[s].at = "mirror" => ExactMap(MirrorAfter(call[s]), nodes) /\ HasAdmin(MirrorAfter(call[s]))

SerialInv == \A s \in Sessions : active = {s} => Serial(s)

-----------------------------------------------------------------------------
(* Records.                                                                *)

\* The map's record of a node, and back.
LEMMA UserOfType ==
  ASSUME NEW x \in UserNode, NEW n \in Nat
  PROVE  /\ UserOf(x, n) \in User /\ UserOf(x, n).node = n
         /\ UserOf(x, n).name = x.name /\ NodeOf(UserOf(x, n)) = x
         /\ UserOf(x, n).enabled = x.enabled /\ UserOf(x, n).admin = x.admin
BY DEF UserOf, NodeOf, UserNode, User

\* A user's properties can be set, its name and its node cannot.
LEMMA SetNodeType ==
  ASSUME NEW x \in UserNode, NEW f \in {"hash", "enabled", "admin"}, NEW v \in Data
  PROVE  [x EXCEPT ![f] = v] \in UserNode /\ [x EXCEPT ![f] = v].name = x.name
BY DEF UserNode

\* An entry of the map with one property changed is an entry.
LEMMA SetUserType ==
  ASSUME NEW x \in User, NEW f \in {"hash", "enabled", "admin"}, NEW v \in Data
  PROVE  /\ [x EXCEPT ![f] = v] \in User /\ [x EXCEPT ![f] = v].name = x.name
         /\ [x EXCEPT ![f] = v].node = x.node
BY DEF User

\* A change of one property keeps an entry the image of its node.
LEMMA SetBoth ==
  ASSUME NEW x \in User, NEW f \in {"hash", "enabled", "admin"}, NEW v \in Data
  PROVE  NodeOf([x EXCEPT ![f] = v]) = [NodeOf(x) EXCEPT ![f] = v]
BY DEF User, NodeOf

\* Which statement a record stands for.
LEMMA CallForms ==
  ASSUME NEW c \in Calls
  PROVE  /\ c.at = "graph" /\ c.op = "create" => c \in CreateChecked
         /\ c.at = "mirror" /\ c.op = "create" => c \in CreateWritten
         /\ c.at \in {"graph", "mirror"} /\ c.op = "drop" => c \in DropCall
         /\ c.at \in {"graph", "mirror"} /\ c.op = "set" => c \in SetCall
         /\ c.at \in {"idle", "graph", "mirror"}
         /\ c.at = "idle" => c = NoCall
         /\ c.at \in {"graph", "mirror"} => c.op \in {"create", "drop", "set"}
<1>1. CASE c = NoCall  BY <1>1 DEF NoCall
<1>2. CASE c \in CreateChecked  BY <1>2 DEF CreateChecked
<1>3. CASE c \in CreateWritten  BY <1>3 DEF CreateWritten
<1>4. CASE c \in DropCall  BY <1>4 DEF DropCall
<1>5. CASE c \in SetCall  BY <1>5 DEF SetCall
<1>. QED  BY <1>1, <1>2, <1>3, <1>4, <1>5 DEF Calls

-----------------------------------------------------------------------------
(* Any number of administrators.                                           *)

\* What the first step of every statement has in common: it has looked its user
\* up in the map, and changes nothing yet.
Checked(s, c) ==
  /\ c \in Calls /\ c.at = "graph"
  /\ c.op = "create" => c.user.name = c.name /\ c.name \notin DOMAIN mirror
  /\ c.op \in {"drop", "set"} => c.name \in DOMAIN mirror /\ c.node = mirror[c.name].node
  /\ call' = [call EXCEPT ![s] = c]
  /\ UNCHANGED <<active, nodes, nextNode, mirror>>

\* Every first step is such a step.
LEMMA StartChecks ==
  ASSUME UsersInv, NEW s \in active, StartStatement(s)
  PROVE  \E c : Checked(s, c)
<1>. DEFINE Reset(name, field, value) ==
              [at |-> "graph", op |-> "set", name |-> name, node |-> mirror[name].node,
               field |-> field, value |-> value]
<1>0. \A name \in DOMAIN mirror : name \in AllNames /\ mirror[name].node \in Nat
  BY DEF UsersInv, UsersType, User
<1>1. ASSUME NEW name \in DOMAIN mirror, NEW field \in {"hash", "enabled", "admin"}, NEW value \in Data,
             Update(s, name, field, value)
      PROVE  Checked(s, Reset(name, field, value))
  BY <1>0, <1>1 DEF Update, Checked, Calls, SetCall
<1>2. CASE \E name \in Names, hash \in Hashes : CheckCreate(s, name, hash)
  <2>1. PICK name \in Names, hash \in Hashes : CheckCreate(s, name, hash)
    BY <1>2
  <2>. DEFINE user == [name |-> name, hash |-> hash, enabled |-> TRUE, admin |-> FALSE]
              c == [at |-> "graph", op |-> "create", name |-> name, user |-> user]
  <2>2. user \in UserNode
    BY DEF UserNode, AllNames, Data
  <2>3. c \in Calls /\ c.user.name = c.name
    BY <2>2 DEF Calls, CreateChecked, AllNames
  <2>. QED  BY <2>1, <2>3 DEF CheckCreate, Checked
<1>3. CASE \E name \in Names : CheckDrop(s, name)
  <2>1. PICK name \in Names : CheckDrop(s, name)
    BY <1>3
  <2>. DEFINE c == [at |-> "graph", op |-> "drop", name |-> name, node |-> mirror[name].node]
  <2>2. c \in Calls
    BY <1>0, <2>1 DEF CheckDrop, Calls, DropCall
  <2>. QED  BY <2>1, <2>2 DEF CheckDrop, Checked
<1>4. CASE \E name \in Names, hash \in Hashes : CheckSetPassword(s, name, hash)
  BY <1>1, <1>4 DEF CheckSetPassword, Data
<1>5. CASE \E name \in Names, v \in BOOLEAN : CheckSetEnabled(s, name, v) \/ CheckSetAdmin(s, name, v)
  BY <1>1, <1>5 DEF CheckSetEnabled, CheckSetAdmin, Data
<1>. QED  BY <1>2, <1>3, <1>4, <1>5 DEF StartStatement

\* The start of a statement keeps the invariant.
LEMMA CheckedKeeps ==
  ASSUME UsersInv, NEW s \in active, call[s] = NoCall, NEW c, Checked(s, c)
  PROVE  UsersInv'
<1>. USE DEF UsersInv, UsersType, Checked
<1>0. s \in Sessions /\ NoCall.at = "idle"
  BY DEF NoCall
<1>1. \A t \in Sessions : call'[t] = IF t = s THEN c ELSE call[t]
  OBVIOUS
<1>2. UsersType'
  BY <1>0
<1>3. MirrorIsFiled'
  BY DEF MirrorIsFiled
<1>4. EntriesHaveNodes'
  BY <1>0, <1>1 DEF EntriesHaveNodes, Dropping
<1>5. CallsAreFiled'
  BY <1>1, CallForms DEF CallsAreFiled, MirrorIsFiled
<1>6. NewNodesArePrivate'
  BY <1>0, <1>1, CallForms DEF NewNodesArePrivate, Creating
<1>. QED  BY <1>2, <1>3, <1>4, <1>5, <1>6

\* add_node of create_user keeps it: the new node has an id nobody knows.
LEMMA GraphCreateKeeps ==
  ASSUME UsersInv, NEW s \in active, GraphCreate(s)
  PROVE  UsersInv'
<1>. DEFINE x == call[s].user
            c == [at |-> "mirror", op |-> "create", name |-> call[s].name, user |-> UserOf(x, nextNode)]
<1>0. s \in Sessions /\ call[s] \in Calls /\ nextNode \in Nat
  BY DEF UsersInv, UsersType
<1>1. call[s] \in CreateChecked
  BY <1>0, CallForms DEF GraphCreate
<1>2. x \in UserNode /\ call[s].name \in AllNames
  BY <1>1 DEF CreateChecked
<1>3. x.name = call[s].name
  BY <1>0 DEF UsersInv, CallsAreFiled, GraphCreate
<1>4. UserOf(x, nextNode) \in User /\ UserOf(x, nextNode).node = nextNode /\ UserOf(x, nextNode).name = x.name
  BY <1>0, <1>2, UserOfType
<1>5. c \in CreateWritten /\ c \in Calls
  BY <1>2, <1>4 DEF CreateWritten, Calls
<1>6. call' = [call EXCEPT ![s] = c]
  BY DEF GraphCreate
<1>7. \A t \in Sessions : call'[t] = IF t = s THEN c ELSE call[t]
  BY <1>6 DEF UsersInv, UsersType
<1>8. /\ DOMAIN nodes' = DOMAIN nodes \cup {nextNode}
      /\ \A n \in DOMAIN nodes : nodes'[n] = nodes[n]
      /\ nodes'[nextNode] = x /\ nextNode \notin DOMAIN nodes
      /\ nodes' = [n \in DOMAIN nodes \cup {nextNode} |-> IF n = nextNode THEN x ELSE nodes[n]]
  BY DEF GraphCreate, Insert, UsersInv, UsersType
<1>9. nextNode' = nextNode + 1 /\ UNCHANGED <<active, mirror>>
  BY DEF GraphCreate
<1>. HIDE DEF x, c
<1>10. UsersType'
  BY <1>0, <1>2, <1>5, <1>6, <1>8, <1>9 DEF UsersInv, UsersType
<1>11. MirrorIsFiled'
  <2>1. \A u \in DOMAIN mirror : mirror[u].node < nextNode /\ mirror[u].node \in Nat
    BY DEF UsersInv, UsersType, MirrorIsFiled, User
  <2>. QED  BY <1>0, <1>8, <1>9, <2>1 DEF UsersInv, MirrorIsFiled
<1>12. EntriesHaveNodes'
  BY <1>0, <1>7, <1>8, <1>9 DEF UsersInv, EntriesHaveNodes, Dropping, GraphCreate, UsersType
<1>13. c.at = "mirror" /\ c.op = "create" /\ c.name = call[s].name /\ c.user = UserOf(x, nextNode)
  BY DEF c
<1>14. \A t \in Sessions : call[t].at = "graph" /\ call[t].op \in {"drop", "set"} =>
          call[t].node \in Nat /\ call[t].node < nextNode
  BY CallForms DEF UsersInv, UsersType, CallsAreFiled, DropCall, SetCall
<1>15. CallsAreFiled'
  BY <1>0, <1>7, <1>8, <1>9, <1>13, <1>14 DEF UsersInv, CallsAreFiled
<1>16. \A u \in DOMAIN mirror : mirror[u].node < nextNode
  BY DEF UsersInv, MirrorIsFiled
<1>17. \A t \in Sessions : Creating(t) => call[t].user.node \in DOMAIN nodes /\ call[t].user.node # nextNode
  BY <1>8 DEF UsersInv, NewNodesArePrivate
<1>18. NewNodesArePrivate'
  BY <1>0, <1>3, <1>4, <1>7, <1>8, <1>9, <1>13, <1>14, <1>16, <1>17 DEF UsersInv, NewNodesArePrivate, Creating
<1>. QED  BY <1>10, <1>11, <1>12, <1>15, <1>18 DEF UsersInv

\* The graph's half of a drop or of a change keeps it: the node it touches is
\* the one the map has for its user, and no creator's.
LEMMA GraphChangeKeeps ==
  ASSUME UsersInv, NEW s \in active, GraphChange(s)
  PROVE  UsersInv'
<1>. DEFINE k == call[s].node
<1>0. s \in Sessions /\ call[s] \in Calls /\ nextNode' = nextNode /\ UNCHANGED <<active, mirror>>
  BY DEF UsersInv, UsersType, GraphChange
<1>1. call[s].at = "graph" /\ call[s].op \in {"drop", "set"}
  BY DEF GraphChange
<1>2. k \in DOMAIN nodes => nodes[k].name = call[s].name
  BY <1>0, <1>1 DEF UsersInv, CallsAreFiled
<1>3. CASE k \notin DOMAIN nodes
  <2>1. call' = [call EXCEPT ![s] = NoCall] /\ nodes' = nodes
    BY <1>3 DEF GraphChange
  <2>2. \A t \in Sessions : call'[t] = IF t = s THEN NoCall ELSE call[t]
    BY <2>1 DEF UsersInv, UsersType
  <2>3. NoCall \in Calls /\ NoCall.at = "idle"
    BY DEF Calls, NoCall
  <2>4. UsersType'
    BY <1>0, <2>1, <2>3 DEF UsersInv, UsersType
  <2>5. MirrorIsFiled' /\ CallsAreFiled'
    BY <1>0, <2>1, <2>2, <2>3 DEF UsersInv, MirrorIsFiled, CallsAreFiled
  <2>6. EntriesHaveNodes'
    BY <1>0, <1>1, <2>1, <2>2 DEF UsersInv, UsersType, EntriesHaveNodes, Dropping
  <2>7. NewNodesArePrivate'
    BY <1>0, <2>1, <2>2, <2>3 DEF UsersInv, NewNodesArePrivate, Creating
  <2>. QED  BY <2>4, <2>5, <2>6, <2>7 DEF UsersInv
<1>4. CASE k \in DOMAIN nodes
  <2>. DEFINE c == [call[s] EXCEPT !.at = "mirror"]
  <2>1. call' = [call EXCEPT ![s] = c]
    BY <1>4 DEF GraphChange
  <2>2. /\ c \in Calls /\ c.at = "mirror" /\ c.op = call[s].op /\ c.name = call[s].name /\ c.node = k
    <3>1. CASE call[s] \in DropCall
      BY <3>1 DEF DropCall, Calls
    <3>2. CASE call[s] \in SetCall
      BY <3>2 DEF SetCall, Calls
    <3>. QED  BY <1>0, <1>1, <3>1, <3>2, CallForms
  <2>3. \A t \in Sessions : call'[t] = IF t = s THEN c ELSE call[t]
    BY <2>1 DEF UsersInv, UsersType
  <2>. HIDE DEF c
  <2>4. CASE call[s].op = "drop"
    <3>1. nodes' = [n \in DOMAIN nodes \ {k} |-> nodes[n]]
      BY <1>4, <2>4 DEF GraphChange, Restrict
    <3>2. DOMAIN nodes' = DOMAIN nodes \ {k} /\ \A n \in DOMAIN nodes' : nodes'[n] = nodes[n]
      BY <3>1
    <3>3. UsersType'
      BY <1>0, <2>1, <2>2, <3>1 DEF UsersInv, UsersType
    <3>4. MirrorIsFiled'
      BY <1>0, <3>2 DEF UsersInv, MirrorIsFiled
    <3>5. EntriesHaveNodes'
      <4>1. ASSUME NEW u \in DOMAIN mirror  PROVE (mirror[u].node \in DOMAIN nodes \/ \E t \in active : Dropping(t, u))'
        <5>1. CASE mirror[u].node = k
          <6>1. u = call[s].name
            BY <1>2, <1>4, <5>1 DEF UsersInv, MirrorIsFiled
          <6>2. Dropping(s, u)'
            BY <1>0, <2>2, <2>3, <2>4, <6>1 DEF Dropping
          <6>. QED  BY <1>0, <6>2
        <5>2. CASE mirror[u].node # k
          BY <1>0, <1>1, <2>3, <3>2, <5>2 DEF UsersInv, UsersType, EntriesHaveNodes, Dropping
        <5>. QED  BY <5>1, <5>2
      <4>. QED  BY <1>0, <4>1 DEF EntriesHaveNodes
    <3>6. CallsAreFiled'
      BY <1>0, <2>2, <2>3, <3>2 DEF UsersInv, CallsAreFiled
    <3>7. NewNodesArePrivate'
      BY <1>0, <1>1, <2>2, <2>3, <2>4, <3>2 DEF UsersInv, NewNodesArePrivate, Creating
    <3>. QED  BY <3>3, <3>4, <3>5, <3>6, <3>7 DEF UsersInv
  <2>5. CASE call[s].op = "set"
    <3>0. call[s] \in SetCall
      BY <1>0, <1>1, <2>5, CallForms
    <3>1. call[s].field \in {"hash", "enabled", "admin"} /\ call[s].value \in Data
      BY <3>0 DEF SetCall
    <3>. DEFINE y == [nodes[k] EXCEPT ![call[s].field] = call[s].value]
    <3>2. nodes' = [nodes EXCEPT ![k] = y]
      BY <1>4, <2>5 DEF GraphChange
    <3>3. y \in UserNode /\ y.name = nodes[k].name
      BY <1>4, <3>1, SetNodeType DEF UsersInv, UsersType
    <3>. HIDE DEF y
    <3>4. DOMAIN nodes' = DOMAIN nodes /\ \A n \in DOMAIN nodes : nodes'[n] = IF n = k THEN y ELSE nodes[n]
      BY <3>2 DEF UsersInv, UsersType
    <3>5. UsersType'
      BY <1>0, <1>4, <2>1, <2>2, <3>2, <3>3 DEF UsersInv, UsersType
    <3>6. MirrorIsFiled' /\ CallsAreFiled'
      BY <1>0, <2>2, <2>3, <3>3, <3>4 DEF UsersInv, MirrorIsFiled, CallsAreFiled
    <3>7. EntriesHaveNodes'
      BY <1>0, <1>1, <2>3, <3>4 DEF UsersInv, UsersType, EntriesHaveNodes, Dropping
    <3>8. NewNodesArePrivate'
      BY <1>0, <1>1, <2>2, <2>3, <2>5, <3>3, <3>4 DEF UsersInv, NewNodesArePrivate, Creating
    <3>. QED  BY <3>5, <3>6, <3>7, <3>8 DEF UsersInv
  <2>. QED  BY <1>1, <2>4, <2>5
<1>. QED  BY <1>3, <1>4

\* The map after the last step of a statement: where it differs from the map
\* before, and that it is filed.
LEMMA MirrorAfterIs ==
  ASSUME UsersInv, NEW c
  PROVE  /\ c.op = "create" =>
              MirrorAfter(c) = [u \in DOMAIN mirror \cup {c.name} |-> IF u = c.name THEN c.user ELSE mirror[u]]
         /\ c.op = "drop" => MirrorAfter(c) = [u \in DOMAIN mirror \ {c.name} |-> mirror[u]]
         /\ c.op = "set" =>
              MirrorAfter(c) =
                [u \in DOMAIN mirror |-> IF u = c.name THEN [mirror[u] EXCEPT ![c.field] = c.value] ELSE mirror[u]]
<1>1. c.op = "create" =>
        MirrorAfter(c) = [u \in DOMAIN mirror \cup {c.name} |-> IF u = c.name THEN c.user ELSE mirror[u]]
  BY DEF MirrorAfter, Insert
<1>2. c.op = "drop" => MirrorAfter(c) = [u \in DOMAIN mirror \ {c.name} |-> mirror[u]]
  BY DEF MirrorAfter, Restrict
<1>3. c.op = "set" =>
        MirrorAfter(c) =
          [u \in DOMAIN mirror |-> IF u = c.name THEN [mirror[u] EXCEPT ![c.field] = c.value] ELSE mirror[u]]
  BY DEF MirrorAfter, UsersInv, UsersType
<1>. QED  BY <1>1, <1>2, <1>3

\* The map's half of a statement keeps it.
LEMMA MirrorChangeKeeps ==
  ASSUME UsersInv, NEW s \in active, MirrorChange(s)
  PROVE  UsersInv'
<1>0. s \in Sessions /\ call[s] \in Calls /\ call[s].at = "mirror" /\ UNCHANGED <<active, nodes, nextNode>>
  BY DEF UsersInv, UsersType, MirrorChange
<1>1. call' = [call EXCEPT ![s] = NoCall] /\ NoCall \in Calls /\ NoCall.at = "idle"
  BY DEF MirrorChange, Calls, NoCall
<1>2. \A t \in Sessions : call'[t] = IF t = s THEN NoCall ELSE call[t]
  BY <1>1 DEF UsersInv, UsersType
<1>3. mirror' = MirrorAfter(call[s])
  BY DEF MirrorChange
<1>4. CallsAreFiled'
  BY <1>0, <1>1, <1>2 DEF UsersInv, CallsAreFiled
<1>5. CASE call[s].op = "create"
  <2>1. Creating(s) /\ call[s] \in CreateWritten
    BY <1>0, <1>5, CallForms DEF Creating
  <2>2. call[s].user \in User /\ call[s].name \in AllNames
    BY <2>1 DEF CreateWritten
  <2>3. mirror' = [u \in DOMAIN mirror \cup {call[s].name} |-> IF u = call[s].name THEN call[s].user ELSE mirror[u]]
    BY <1>3, <1>5, MirrorAfterIs
  <2>4. UsersType'
    BY <1>0, <1>1, <2>2, <2>3 DEF UsersInv, UsersType
  <2>5. /\ call[s].user.name = call[s].name /\ call[s].user.node \in DOMAIN nodes
        /\ nodes[call[s].user.node].name = call[s].name /\ call[s].user.node < nextNode
    BY <1>0, <2>1 DEF UsersInv, UsersType, NewNodesArePrivate
  <2>6. MirrorIsFiled'
    BY <1>0, <2>3, <2>5 DEF UsersInv, MirrorIsFiled
  <2>7. EntriesHaveNodes'
    BY <1>0, <1>2, <1>5, <2>3, <2>5 DEF UsersInv, UsersType, EntriesHaveNodes, Dropping
  <2>8. NewNodesArePrivate'
    BY <1>0, <1>1, <1>2, <2>1, <2>3 DEF UsersInv, NewNodesArePrivate, Creating
  <2>. QED  BY <1>4, <2>4, <2>6, <2>7, <2>8 DEF UsersInv
<1>6. CASE call[s].op = "drop"
  <2>1. mirror' = [u \in DOMAIN mirror \ {call[s].name} |-> mirror[u]]
    BY <1>3, <1>6, MirrorAfterIs
  <2>2. UsersType'
    BY <1>0, <1>1, <2>1 DEF UsersInv, UsersType
  <2>3. MirrorIsFiled'
    BY <1>0, <2>1 DEF UsersInv, MirrorIsFiled
  <2>4. EntriesHaveNodes'
    BY <1>0, <1>2, <2>1 DEF UsersInv, UsersType, EntriesHaveNodes, Dropping
  <2>5. NewNodesArePrivate'
    BY <1>0, <1>1, <1>2, <2>1 DEF UsersInv, NewNodesArePrivate, Creating
  <2>. QED  BY <1>4, <2>2, <2>3, <2>4, <2>5 DEF UsersInv
<1>7. CASE call[s].op = "set"
  <2>0. call[s] \in SetCall
    BY <1>0, <1>7, CallForms
  <2>1. call[s].field \in {"hash", "enabled", "admin"} /\ call[s].value \in Data
    BY <2>0 DEF SetCall
  <2>. DEFINE Reset(u) == [mirror[u] EXCEPT ![call[s].field] = call[s].value]
  <2>2. mirror' = [u \in DOMAIN mirror |-> IF u = call[s].name THEN Reset(u) ELSE mirror[u]]
    BY <1>3, <1>7, MirrorAfterIs
  <2>3. \A u \in DOMAIN mirror :
          Reset(u) \in User /\ Reset(u).name = mirror[u].name /\ Reset(u).node = mirror[u].node
    <3>. TAKE u \in DOMAIN mirror
    <3>. DEFINE x == mirror[u]  f == call[s].field  v == call[s].value
    <3>1. x \in User /\ f \in {"hash", "enabled", "admin"} /\ v \in Data
      BY <2>1 DEF UsersInv, UsersType
    <3>2. Reset(u) = [x EXCEPT ![f] = v]
      OBVIOUS
    <3>. HIDE DEF x, f, v, Reset
    <3>3. /\ [x EXCEPT ![f] = v] \in User /\ [x EXCEPT ![f] = v].name = x.name
          /\ [x EXCEPT ![f] = v].node = x.node
      BY <3>1, SetUserType
    <3>4. Reset(u) \in User /\ Reset(u).name = x.name /\ Reset(u).node = x.node
      BY <3>2, <3>3, Zenon
    <3>. QED  BY <3>4 DEF x
  <2>. HIDE DEF Reset
  <2>4. DOMAIN mirror' = DOMAIN mirror /\
        \A u \in DOMAIN mirror : mirror'[u].name = mirror[u].name /\ mirror'[u].node = mirror[u].node
    BY <2>2, <2>3
  <2>5. UsersType'
    BY <1>0, <1>1, <2>2, <2>3 DEF UsersInv, UsersType
  <2>6. MirrorIsFiled'
    BY <1>0, <2>4 DEF UsersInv, MirrorIsFiled
  <2>7. EntriesHaveNodes'
    BY <1>0, <1>2, <1>7, <2>4 DEF UsersInv, UsersType, EntriesHaveNodes, Dropping
  <2>8. NewNodesArePrivate'
    BY <1>0, <1>1, <1>2, <2>4 DEF UsersInv, NewNodesArePrivate, Creating
  <2>. QED  BY <1>4, <2>5, <2>6, <2>7, <2>8 DEF UsersInv
<1>. QED  BY <1>0, <1>5, <1>6, <1>7, CallForms

\* load_users keeps it: it runs when no statement does.
LEMMA RestartKeeps ==
  ASSUME UsersInv, Restart
  PROVE  UsersInv'
<1>0. UNCHANGED <<active, nodes, nextNode, call>>
  BY DEF Restart
<1>1. \A s \in Sessions : call[s] = NoCall /\ NoCall.at = "idle"
  BY DEF Restart, UsersInv, UsersType, NoCall
<1>2. /\ DOMAIN mirror' = {nodes[n].name : n \in DOMAIN nodes}
      /\ mirror' \in [DOMAIN mirror' -> {UserOf(nodes[n], n) : n \in DOMAIN nodes}]
      /\ \A u \in DOMAIN mirror' : mirror'[u].name = u
  BY DEF Restart
<1>3. \A n \in DOMAIN nodes : nodes[n] \in UserNode /\ n \in Nat /\ n < nextNode /\ nodes[n].name \in AllNames
  BY DEF UsersInv, UsersType, UserNode
<1>4. \A n \in DOMAIN nodes : /\ UserOf(nodes[n], n) \in User /\ UserOf(nodes[n], n).node = n
                              /\ UserOf(nodes[n], n).name = nodes[n].name
  BY <1>3, UserOfType
<1>5. \A u \in DOMAIN mirror' : /\ mirror'[u] \in User /\ mirror'[u].name = u
                                /\ mirror'[u].node \in DOMAIN nodes /\ nodes[mirror'[u].node].name = u
  BY <1>2, <1>4
<1>6. UsersType'
  BY <1>0, <1>2, <1>3, <1>5 DEF UsersInv, UsersType
<1>7. MirrorIsFiled' /\ EntriesHaveNodes'
  BY <1>0, <1>3, <1>5 DEF MirrorIsFiled, EntriesHaveNodes
<1>8. CallsAreFiled' /\ NewNodesArePrivate'
  BY <1>0, <1>1 DEF CallsAreFiled, NewNodesArePrivate, Creating
<1>. QED  BY <1>6, <1>7, <1>8 DEF UsersInv

\* A fresh directory has it.
LEMMA UsersStart ==
  ASSUME NEW group \in SUBSET Sessions, InitUsers(group)
  PROVE  UsersInv /\ SerialInv
<1>. DEFINE root == [name |-> RootName, hash |-> RootHash, enabled |-> TRUE, admin |-> TRUE]
<1>1. root \in UserNode /\ RootName \in AllNames
  BY DEF UserNode, AllNames, Data
<1>2. /\ active = group /\ nodes = [n \in {1} |-> root] /\ nextNode = 2
      /\ mirror = [u \in {RootName} |-> UserOf(root, 1)]
      /\ call = [s \in Sessions |-> NoCall]
  BY DEF InitUsers, RootHash
<1>3. root.name = RootName /\ root.enabled = TRUE /\ root.admin = TRUE
  OBVIOUS
<1>. HIDE DEF root
<1>4. /\ UserOf(root, 1) \in User /\ UserOf(root, 1).node = 1
      /\ UserOf(root, 1).name = RootName /\ NodeOf(UserOf(root, 1)) = root
      /\ UserOf(root, 1).enabled = TRUE /\ UserOf(root, 1).admin = TRUE
  BY <1>1, <1>3, UserOfType
<1>5. NoCall \in Calls /\ NoCall.at = "idle"
  BY DEF Calls, NoCall
<1>6. UsersType
  BY <1>1, <1>2, <1>4, <1>5 DEF UsersType
<1>7. MirrorIsFiled /\ EntriesHaveNodes
  BY <1>2, <1>3, <1>4 DEF MirrorIsFiled, EntriesHaveNodes
<1>8. CallsAreFiled /\ NewNodesArePrivate
  BY <1>2, <1>5 DEF CallsAreFiled, NewNodesArePrivate, Creating
<1>9. HasAdmin(mirror) /\ ExactMap(mirror, nodes)
  BY <1>2, <1>3, <1>4 DEF HasAdmin, ExactMap
<1>10. SerialInv
  BY <1>2, <1>5, <1>9 DEF SerialInv, Serial
<1>. QED  BY <1>6, <1>7, <1>8, <1>10 DEF UsersInv

-----------------------------------------------------------------------------
(* One administrator.                                                      *)

\* Whoever may administer, if the change of one name spares that or leaves
\* another, somebody may after it.
LEMMA DropLeavesAdmin ==
  ASSUME UsersInv, HasAdmin(mirror), NEW c, c.op = "drop", c.name \in DOMAIN mirror, ~LastAdmin(c.name)
  PROVE  HasAdmin(MirrorAfter(c))
<1>1. PICK u \in DOMAIN mirror : mirror[u].admin /\ mirror[u].enabled
  BY DEF HasAdmin
<1>2. \E w \in DOMAIN mirror : w # c.name /\ mirror[w].admin /\ mirror[w].enabled
  BY <1>1 DEF LastAdmin, OtherAdmin
<1>3. MirrorAfter(c) = [w \in DOMAIN mirror \ {c.name} |-> mirror[w]]
  BY MirrorAfterIs
<1>. QED  BY <1>2, <1>3 DEF HasAdmin

\* set_password, set_enabled and set_admin leave one too.
LEMMA SetLeavesAdmin ==
  ASSUME UsersInv, HasAdmin(mirror), NEW c, c.op = "set", c.name \in DOMAIN mirror,
         \/ c.field = "hash"
         \/ c.field \in {"enabled", "admin"} /\ c.value = TRUE
         \/ c.field \in {"enabled", "admin"} /\ ~LastAdmin(c.name)
  PROVE  HasAdmin(MirrorAfter(c))
<1>. DEFINE m == MirrorAfter(c)
<1>1. PICK u \in DOMAIN mirror : mirror[u].admin /\ mirror[u].enabled
  BY DEF HasAdmin
<1>2. m = [w \in DOMAIN mirror |-> IF w = c.name THEN [mirror[w] EXCEPT ![c.field] = c.value] ELSE mirror[w]]
  BY MirrorAfterIs
<1>3. \A w \in DOMAIN mirror : w # c.name => m[w] = mirror[w]
  BY <1>2
<1>4. DOMAIN m = DOMAIN mirror /\ m[c.name] = [mirror[c.name] EXCEPT ![c.field] = c.value]
  BY <1>2
<1>. HIDE DEF m
<1>5. CASE u # c.name
  BY <1>1, <1>3, <1>4, <1>5 DEF HasAdmin, m
<1>6. CASE u = c.name /\ ~LastAdmin(c.name)
  <2>1. \E w \in DOMAIN mirror : w # c.name /\ mirror[w].admin /\ mirror[w].enabled
    BY <1>1, <1>6 DEF LastAdmin, OtherAdmin
  <2>. QED  BY <1>3, <1>4, <2>1 DEF HasAdmin, m
<1>7. CASE u = c.name /\ LastAdmin(c.name)
  <2>1. mirror[u] \in User
    BY <1>1 DEF UsersInv, UsersType
  <2>2. m[u].admin = mirror[u].admin \/ m[u].admin = TRUE
    BY <1>4, <1>7, <2>1 DEF User
  <2>3. m[u].enabled = mirror[u].enabled \/ m[u].enabled = TRUE
    BY <1>4, <1>7, <2>1 DEF User
  <2>. QED  BY <1>1, <1>4, <2>2, <2>3 DEF HasAdmin, m
<1>. QED  BY <1>5, <1>6, <1>7

\* The first step of the one administrator's statement.
LEMMA StartSerial ==
  ASSUME UsersInv, NEW s \in active, StartStatement(s), Serial(s)
  PROVE  Serial(s)'
<1>0. s \in Sessions /\ call[s] = NoCall /\ NoCall.at = "idle"
  BY DEF UsersInv, UsersType, StartStatement, NoCall
<1>1. HasAdmin(mirror) /\ ExactMap(mirror, nodes)
  BY <1>0 DEF Serial
<1>2. ASSUME NEW c, Checked(s, c), c.op \in {"drop", "set"} => HasAdmin(MirrorAfter(c))
      PROVE  Serial(s)'
  <2>1. call'[s] = c /\ UNCHANGED <<nodes, mirror>>
    BY <1>0, <1>2 DEF Checked, UsersInv, UsersType
  <2>2. HasAdmin(mirror') /\ ExactMap(mirror', nodes')
    BY <1>1, <2>1
  <2>3. c.op \in {"drop", "set"} => HasAdmin(MirrorAfter(call[s])')
    <3>1. c.op \in {"drop", "set"} => MirrorAfter(call[s])' = MirrorAfter(c)
      BY <2>1 DEF MirrorAfter
    <3>. QED  BY <1>2, <3>1
  <2>4. /\ c.at = "graph"
        /\ c.op = "create" => c.name \notin DOMAIN mirror'
        /\ c.op \in {"drop", "set"} => c.name \in DOMAIN mirror' /\ c.node = mirror'[c.name].node
    BY <1>2, <2>1 DEF Checked
  <2>. QED  BY <2>1, <2>2, <2>3, <2>4 DEF Serial
<1>3. PICK c : Checked(s, c)
  BY StartChecks
<1>4. call'[s] = c
  BY <1>0, <1>3 DEF Checked, UsersInv, UsersType
<1>5. c.op = "drop" => ~LastAdmin(c.name)
  BY <1>0, <1>4 DEF StartStatement, CheckCreate, CheckDrop, CheckSetPassword, CheckSetEnabled, CheckSetAdmin,
                    Update, UsersInv, UsersType
<1>6. c.op = "set" => \/ c.field = "hash"
                      \/ c.field \in {"enabled", "admin"} /\ c.value = TRUE
                      \/ c.field \in {"enabled", "admin"} /\ ~LastAdmin(c.name)
  BY <1>0, <1>4 DEF StartStatement, CheckCreate, CheckDrop, CheckSetPassword, CheckSetEnabled, CheckSetAdmin,
                    Update, UsersInv, UsersType
<1>7. c.op \in {"drop", "set"} => HasAdmin(MirrorAfter(c))
  BY <1>1, <1>3, <1>5, <1>6, DropLeavesAdmin, SetLeavesAdmin DEF Checked
<1>. QED  BY <1>2, <1>3, <1>7

\* The new node is what the map is about to hold.
LEMMA GraphCreateSerial ==
  ASSUME UsersInv, NEW s \in active, GraphCreate(s), Serial(s)
  PROVE  Serial(s)'
<1>. DEFINE x == call[s].user
            c == [at |-> "mirror", op |-> "create", name |-> call[s].name, user |-> UserOf(x, nextNode)]
            m == [u \in DOMAIN mirror \cup {c.name} |-> IF u = c.name THEN c.user ELSE mirror[u]]
<1>0. s \in Sessions /\ call[s] \in Calls /\ nextNode \in Nat
  BY DEF UsersInv, UsersType
<1>1. call[s] \in CreateChecked
  BY <1>0, CallForms DEF GraphCreate
<1>2. x \in UserNode /\ x.name = call[s].name
  BY <1>0, <1>1 DEF CreateChecked, UsersInv, CallsAreFiled, GraphCreate
<1>3. HasAdmin(mirror) /\ ExactMap(mirror, nodes) /\ call[s].name \notin DOMAIN mirror
  BY DEF Serial, GraphCreate
<1>4. call'[s] = c /\ mirror' = mirror
  BY <1>0 DEF GraphCreate, UsersInv, UsersType
<1>5. c.at = "mirror" /\ c.op = "create" /\ c.name = call[s].name /\ c.user = UserOf(x, nextNode)
  OBVIOUS
<1>6. /\ DOMAIN nodes' = DOMAIN nodes \cup {nextNode} /\ nextNode \notin DOMAIN nodes
      /\ \A n \in DOMAIN nodes : nodes'[n] = nodes[n]
      /\ nodes'[nextNode] = x
  BY DEF GraphCreate, Insert, UsersInv, UsersType
<1>7. /\ UserOf(x, nextNode).node = nextNode /\ UserOf(x, nextNode).name = call[s].name
      /\ NodeOf(UserOf(x, nextNode)) = x
  BY <1>0, <1>2, UserOfType
<1>. HIDE DEF x, c
<1>8. MirrorAfter(call[s])' = m
  <2>1. MirrorAfter(c) = m
    BY <1>5, MirrorAfterIs
  <2>. QED  BY <1>4, <1>5, <2>1 DEF MirrorAfter
<1>9. /\ DOMAIN m = DOMAIN mirror \cup {call[s].name} /\ m[call[s].name] = UserOf(x, nextNode)
      /\ \A u \in DOMAIN mirror : m[u] = mirror[u]
  BY <1>3, <1>5
<1>. HIDE DEF m
<1>10. HasAdmin(m)
  BY <1>3, <1>9 DEF HasAdmin
<1>11. ExactMap(m, nodes')
  BY <1>3, <1>6, <1>7, <1>9 DEF ExactMap
<1>. QED  BY <1>3, <1>4, <1>5, <1>8, <1>10, <1>11 DEF Serial

\* The changed nodes are what the map is about to hold.
LEMMA GraphChangeSerial ==
  ASSUME UsersInv, NEW s \in active, GraphChange(s), Serial(s)
  PROVE  Serial(s)'
<1>. DEFINE k == call[s].node
            c == [call[s] EXCEPT !.at = "mirror"]
            m == MirrorAfter(call[s])
<1>0. s \in Sessions /\ call[s] \in Calls /\ mirror' = mirror
  BY DEF UsersInv, UsersType, GraphChange
<1>1. call[s].at = "graph" /\ call[s].op \in {"drop", "set"}
  BY DEF GraphChange
<1>2. /\ HasAdmin(mirror) /\ ExactMap(mirror, nodes) /\ HasAdmin(m)
      /\ call[s].name \in DOMAIN mirror /\ k = mirror[call[s].name].node
  BY <1>1 DEF Serial
<1>3. k \in DOMAIN nodes
  BY <1>2 DEF ExactMap
<1>4. call'[s] = c
  BY <1>0, <1>3 DEF GraphChange, UsersInv, UsersType
<1>5. /\ c.at = "mirror" /\ c.op = call[s].op /\ c.name = call[s].name
      /\ c.op = "set" => c.field = call[s].field /\ c.value = call[s].value
  <2>1. CASE call[s] \in DropCall
    BY <2>1 DEF DropCall
  <2>2. CASE call[s] \in SetCall
    BY <2>2 DEF SetCall
  <2>. QED  BY <1>0, <1>1, <2>1, <2>2, CallForms
<1>. HIDE DEF c
<1>6. MirrorAfter(call[s])' = m
  BY <1>0, <1>1, <1>4, <1>5 DEF MirrorAfter
<1>7. \A u \in DOMAIN mirror : mirror[u].node = k => u = call[s].name
  <2>1. \A u \in DOMAIN mirror : mirror[u].node = k => u = nodes[k].name
    BY <1>3 DEF UsersInv, MirrorIsFiled
  <2>. QED  BY <1>2, <2>1
<1>8. CASE call[s].op = "drop"
  <2>1. m = [u \in DOMAIN mirror \ {call[s].name} |-> mirror[u]]
    BY <1>8, MirrorAfterIs
  <2>2. DOMAIN m = DOMAIN mirror \ {call[s].name} /\ \A u \in DOMAIN m : m[u] = mirror[u]
    BY <2>1
  <2>3. DOMAIN nodes' = DOMAIN nodes \ {k} /\ \A n \in DOMAIN nodes' : nodes'[n] = nodes[n]
    BY <1>3, <1>8 DEF GraphChange, Restrict
  <2>. HIDE DEF m, k
  <2>4. ExactMap(m, nodes')
    BY <1>2, <1>7, <2>2, <2>3 DEF ExactMap
  <2>. QED  BY <1>0, <1>2, <1>4, <1>5, <1>6, <2>4 DEF Serial, m
<1>9. CASE call[s].op = "set"
  <2>. DEFINE f == call[s].field
              v == call[s].value
              x == mirror[call[s].name]
  <2>0. call[s] \in SetCall
    BY <1>0, <1>1, <1>9, CallForms
  <2>1. f \in {"hash", "enabled", "admin"} /\ v \in Data /\ x \in User
    BY <1>2, <2>0 DEF SetCall, UsersInv, UsersType
  <2>2. m = [u \in DOMAIN mirror |-> IF u = call[s].name THEN [mirror[u] EXCEPT ![f] = v] ELSE mirror[u]]
    BY <1>9, MirrorAfterIs
  <2>3. /\ DOMAIN m = DOMAIN mirror /\ m[call[s].name] = [x EXCEPT ![f] = v]
        /\ \A u \in DOMAIN mirror : u # call[s].name => m[u] = mirror[u]
    BY <1>2, <2>2
  <2>4. /\ DOMAIN nodes' = DOMAIN nodes /\ nodes'[k] = [nodes[k] EXCEPT ![f] = v]
        /\ \A n \in DOMAIN nodes : n # k => nodes'[n] = nodes[n]
    BY <1>3, <1>9 DEF GraphChange, UsersInv, UsersType
  <2>5. nodes[k] = NodeOf(x)
    BY <1>2 DEF ExactMap
  <2>. HIDE DEF m, k, f, v, x
  <2>6. /\ [x EXCEPT ![f] = v].name = x.name /\ [x EXCEPT ![f] = v].node = x.node
        /\ NodeOf([x EXCEPT ![f] = v]) = [NodeOf(x) EXCEPT ![f] = v]
    BY <2>1, SetUserType, SetBoth
  <2>7. m[call[s].name].name = x.name /\ m[call[s].name].node = x.node
    BY <2>3, <2>6, Zenon
  <2>8. NodeOf(m[call[s].name]) = nodes'[k]
    BY <2>3, <2>4, <2>5, <2>6, Zenon
  <2>9. x.name = call[s].name /\ x.node = k
    BY <1>2 DEF ExactMap, x
  <2>10. ExactMap(m, nodes')
    <3>1. \A u \in DOMAIN m : m[u].name = u /\ m[u].node \in DOMAIN nodes' /\ NodeOf(m[u]) = nodes'[m[u].node]
      <4>. TAKE u \in DOMAIN m
      <4>1. CASE u = call[s].name
        BY <1>3, <2>4, <2>7, <2>8, <2>9, <4>1
      <4>2. CASE u # call[s].name
        BY <1>2, <1>7, <2>3, <2>4, <4>2 DEF ExactMap
      <4>. QED  BY <4>1, <4>2
    <3>2. \A u \in DOMAIN mirror : m[u].node = mirror[u].node
      BY <2>3, <2>7, <2>9, <1>2
    <3>3. \A n \in DOMAIN nodes' : \E u \in DOMAIN m : m[u].node = n
      BY <1>2, <2>3, <2>4, <3>2 DEF ExactMap
    <3>. QED  BY <3>1, <3>3 DEF ExactMap
  <2>. QED  BY <1>0, <1>2, <1>4, <1>5, <1>6, <2>10 DEF Serial, m
<1>. QED  BY <1>1, <1>8, <1>9

\* The change reaches the map.
LEMMA MirrorChangeSerial ==
  ASSUME UsersInv, NEW s \in active, MirrorChange(s), Serial(s)
  PROVE  Serial(s)'
<1>1. s \in Sessions /\ call'[s] = NoCall /\ NoCall.at = "idle"
  BY DEF UsersInv, UsersType, MirrorChange, NoCall
<1>2. HasAdmin(mirror') /\ ExactMap(mirror', nodes')
  BY DEF MirrorChange, Serial
<1>. QED  BY <1>1, <1>2 DEF Serial

\* A restart between statements loads what the map held.
LEMMA RestartSerial ==
  ASSUME UsersInv, NEW s \in active, Restart, Serial(s)
  PROVE  Serial(s)'
<1>0. UNCHANGED <<nodes, call>> /\ call[s] = NoCall /\ NoCall.at = "idle"
  BY DEF Restart, NoCall
<1>1. HasAdmin(mirror) /\ ExactMap(mirror, nodes)
  BY <1>0 DEF Serial
<1>2. /\ DOMAIN mirror' = {nodes[n].name : n \in DOMAIN nodes}
      /\ \A u \in DOMAIN mirror' : mirror'[u].name = u /\ \E n \in DOMAIN nodes : mirror'[u] = UserOf(nodes[n], n)
  BY DEF Restart
<1>3. \A n \in DOMAIN nodes :
         /\ UserOf(nodes[n], n).node = n /\ UserOf(nodes[n], n).name = nodes[n].name
         /\ NodeOf(UserOf(nodes[n], n)) = nodes[n]
         /\ UserOf(nodes[n], n).admin = nodes[n].admin /\ UserOf(nodes[n], n).enabled = nodes[n].enabled
  BY UserOfType DEF UsersInv, UsersType
<1>4. \A n \in DOMAIN nodes : nodes[n].name \in DOMAIN mirror /\ mirror[nodes[n].name].node = n
  BY <1>1 DEF ExactMap, UsersInv, MirrorIsFiled
<1>5. \A u \in DOMAIN mirror' :
         \E n \in DOMAIN nodes : mirror'[u] = UserOf(nodes[n], n) /\ nodes[n].name = u
  BY <1>2, <1>3
<1>6. ExactMap(mirror', nodes)
  <2>1. \A u \in DOMAIN mirror' : /\ mirror'[u].name = u /\ mirror'[u].node \in DOMAIN nodes
                                  /\ NodeOf(mirror'[u]) = nodes[mirror'[u].node]
    BY <1>2, <1>3, <1>5
  <2>2. \A n \in DOMAIN nodes : nodes[n].name \in DOMAIN mirror' /\ mirror'[nodes[n].name].node = n
    BY <1>2, <1>3, <1>4, <1>5
  <2>. QED  BY <2>1, <2>2 DEF ExactMap
<1>7. HasAdmin(mirror')
  <2>1. PICK u \in DOMAIN mirror : mirror[u].admin /\ mirror[u].enabled
    BY <1>1 DEF HasAdmin
  <2>. DEFINE n == mirror[u].node
  <2>2. n \in DOMAIN nodes /\ nodes[n].name = u /\ nodes[n].admin /\ nodes[n].enabled
    <3>1. n \in DOMAIN nodes /\ nodes[n] = NodeOf(mirror[u]) /\ mirror[u].name = u
      BY <1>1 DEF ExactMap
    <3>. QED  BY <2>1, <3>1 DEF NodeOf
  <2>3. u \in DOMAIN mirror' /\ mirror'[u] = UserOf(nodes[n], n)
    BY <1>2, <1>4, <1>5, <2>2
  <2>. QED  BY <1>3, <2>2, <2>3 DEF HasAdmin
<1>. QED  BY <1>0, <1>6, <1>7 DEF Serial

-----------------------------------------------------------------------------
(* Dropped names.                                                          *)

\* A name that two nodes never had at once is that of at most one node, and of
\* none once it has been dropped.
OneNodeEach(graph, shared) ==
  \A m, n \in DOMAIN graph : graph[m].name = graph[n].name /\ graph[n].name \notin shared => m = n
GoneInv ==
  /\ OneNodeEach(nodes, twice)
  /\ \A n \in DOMAIN nodes : nodes[n].name \notin gone \ twice

LEMMA GoneStep ==
  ASSUME UsersInv, GoneInv, [NextUsers]_userVars
  PROVE  GoneInv'
<1>1. CASE UNCHANGED <<nodes, gone, twice>>
  BY <1>1 DEF GoneInv, OneNodeEach
<1>2. ASSUME NEW s \in active, GraphCreate(s) PROVE GoneInv'
  <2>. DEFINE u == call[s].name
  <2>0. s \in Sessions /\ call[s].at = "graph" /\ call[s].op = "create"
    BY <1>2 DEF UsersInv, UsersType, GraphCreate
  <2>1. call[s].user.name = u
    BY <2>0 DEF UsersInv, CallsAreFiled
  <2>2. /\ DOMAIN nodes' = DOMAIN nodes \cup {nextNode} /\ nextNode \notin DOMAIN nodes
        /\ \A n \in DOMAIN nodes : nodes'[n] = nodes[n]
        /\ nodes'[nextNode].name = u
    BY <1>2, <2>1 DEF GraphCreate, Insert, UsersInv, UsersType
  <2>3. gone' = gone \ {u} /\ twice' = IF NodesNamed(u) # {} THEN twice \cup {u} ELSE twice
    BY <1>2 DEF GraphCreate
  <2>4. twice \subseteq twice' /\ (u \in twice' \/ \A n \in DOMAIN nodes : nodes[n].name # u)
    BY <2>3 DEF NodesNamed
  <2>. HIDE DEF u
  <2>5. OneNodeEach(nodes', twice')
    <3>. SUFFICES ASSUME NEW m \in DOMAIN nodes', NEW n \in DOMAIN nodes',
                         nodes'[m].name = nodes'[n].name, nodes'[n].name \notin twice'
                  PROVE  m = n
      BY DEF OneNodeEach
    <3>1. CASE m \in DOMAIN nodes /\ n \in DOMAIN nodes
      BY <2>2, <2>4, <3>1 DEF GoneInv, OneNodeEach
    <3>2. CASE m = nextNode /\ n = nextNode
      BY <3>2
    <3>3. CASE m = nextNode /\ n \in DOMAIN nodes
      BY <2>2, <2>4, <3>3
    <3>4. CASE m \in DOMAIN nodes /\ n = nextNode
      BY <2>2, <2>4, <3>4
    <3>. QED  BY <2>2, <3>1, <3>2, <3>3, <3>4
  <2>6. \A n \in DOMAIN nodes' : nodes'[n].name \notin gone' \ twice'
    BY <2>2, <2>3, <2>4 DEF GoneInv
  <2>. QED  BY <2>5, <2>6 DEF GoneInv
<1>3. ASSUME NEW s \in active, GraphChange(s) PROVE GoneInv'
  <2>. DEFINE k == call[s].node
  <2>0. s \in Sessions /\ call[s] \in Calls /\ call[s].at = "graph" /\ call[s].op \in {"drop", "set"}
        /\ twice' = twice
    BY <1>3 DEF UsersInv, UsersType, GraphChange
  <2>1. CASE k \notin DOMAIN nodes
    BY <1>1, <1>3, <2>1 DEF GraphChange
  <2>2. CASE k \in DOMAIN nodes /\ call[s].op = "drop"
    <3>1. nodes[k].name = call[s].name
      BY <2>0, <2>2 DEF UsersInv, CallsAreFiled
    <3>2. nodes' = [n \in DOMAIN nodes \ {k} |-> nodes[n]] /\ gone' = gone \cup {call[s].name}
      BY <1>3, <2>2 DEF GraphChange, Restrict
    <3>3. DOMAIN nodes' = DOMAIN nodes \ {k} /\ \A n \in DOMAIN nodes' : nodes'[n] = nodes[n]
      BY <3>2
    <3>4. OneNodeEach(nodes', twice')
      BY <2>0, <3>3 DEF GoneInv, OneNodeEach
    <3>5. \A n \in DOMAIN nodes' : nodes'[n].name \notin gone' \ twice'
      BY <2>0, <2>2, <3>1, <3>2, <3>3 DEF GoneInv, OneNodeEach
    <3>. QED  BY <3>4, <3>5 DEF GoneInv
  <2>3. CASE k \in DOMAIN nodes /\ call[s].op = "set"
    <3>1. call[s] \in SetCall
      BY <2>0, <2>3, CallForms
    <3>2. call[s].field \in {"hash", "enabled", "admin"} /\ call[s].value \in Data
      BY <3>1 DEF SetCall
    <3>. DEFINE y == [nodes[k] EXCEPT ![call[s].field] = call[s].value]
    <3>3. nodes' = [nodes EXCEPT ![k] = y] /\ gone' = gone
      BY <1>3, <2>3 DEF GraphChange
    <3>4. y.name = nodes[k].name
      BY <2>3, <3>2, SetNodeType DEF UsersInv, UsersType
    <3>. HIDE DEF y
    <3>5. DOMAIN nodes' = DOMAIN nodes /\ \A n \in DOMAIN nodes : nodes'[n].name = nodes[n].name
      BY <2>3, <3>3, <3>4 DEF UsersInv, UsersType
    <3>. QED  BY <2>0, <3>3, <3>5 DEF GoneInv, OneNodeEach
  <2>. QED  BY <2>0, <2>1, <2>2, <2>3
<1>4. ASSUME NEW s \in active, StartStatement(s) PROVE GoneInv'
  BY <1>1, <1>4, StartChecks DEF StartStatement, Checked
<1>. QED  BY <1>1, <1>2, <1>3, <1>4 DEF NextUsers, MirrorChange, Restart, userVars

-----------------------------------------------------------------------------
(* The theorem.                                                            *)

\* Every step of a statement, of a session and of a restart keeps the invariant.
LEMMA UsersStep ==
  ASSUME UsersInv, SerialInv, [NextUsers]_userVars
  PROVE  UsersInv' /\ SerialInv'
<1>0. active' = active
  BY DEF NextUsers, StartStatement, CheckCreate, CheckDrop, CheckSetPassword, CheckSetEnabled, CheckSetAdmin,
         Update, GraphCreate, GraphChange, MirrorChange, Restart, userVars
<1>1. ASSUME NEW s \in active, StartStatement(s)  PROVE UsersInv'
  BY <1>1, StartChecks, CheckedKeeps DEF StartStatement
<1>2. CASE UNCHANGED userVars
  <2>1. UsersInv'
    BY <1>2 DEF userVars, UsersInv, UsersType, MirrorIsFiled, EntriesHaveNodes, Dropping, CallsAreFiled,
                NewNodesArePrivate, Creating
  <2>2. SerialInv'
    BY <1>2 DEF userVars, SerialInv, Serial, MirrorAfter
  <2>. QED  BY <2>1, <2>2
<1>3. CASE Restart
  BY <1>0, <1>3, RestartKeeps, RestartSerial DEF SerialInv
<1>4. ASSUME NEW s \in active,
             StartStatement(s) \/ GraphCreate(s) \/ GraphChange(s) \/ MirrorChange(s)
      PROVE  UsersInv' /\ SerialInv'
  <2>1. UsersInv'
    BY <1>1, <1>4, GraphCreateKeeps, GraphChangeKeeps, MirrorChangeKeeps
  <2>2. \A t \in Sessions : active = {t} => t = s
    BY <1>4
  <2>3. Serial(s) => Serial(s)'
    BY <1>4, StartSerial, GraphCreateSerial, GraphChangeSerial, MirrorChangeSerial
  <2>4. SerialInv'
    BY <1>0, <2>2, <2>3 DEF SerialInv
  <2>. QED  BY <2>1, <2>4
<1>. QED  BY <1>2, <1>3, <1>4 DEF NextUsers

\* What the invariants say of logging in and of administering.
LEMMA UsersImplies ==
  ASSUME UsersInv, SerialInv, GoneInv
  PROVE  IdentitiesAreSound
<1>1. DroppedStaysOut
  <2>1. \A u \in DOMAIN mirror : mirror[u].node \in DOMAIN nodes \/ BeingDropped(u)
    BY DEF UsersInv, EntriesHaveNodes, Dropping, BeingDropped
  <2>2. \A u \in DOMAIN mirror : mirror[u].node \in DOMAIN nodes => u \notin gone \ twice
    BY DEF UsersInv, MirrorIsFiled, GoneInv
  <2>. QED  BY <2>1, <2>2 DEF DroppedStaysOut, MayLogIn
<1>2. SerialWriteThrough
  <2>1. ASSUME NEW s \in Sessions, active = {s}, Quiet  PROVE Exact
    <3>1. call[s].at = "idle"
      BY <2>1 DEF Quiet, NoCall
    <3>2. ExactMap(mirror, nodes)
      BY <2>1, <3>1 DEF SerialInv, Serial
    <3>. QED  BY <3>2 DEF ExactMap, Exact
  <2>. QED  BY <2>1 DEF SerialWriteThrough, OneAdministrator
<1>3. SerialAdminRemains
  <2>1. ASSUME NEW s \in Sessions, active = {s}
        PROVE  HasAdmin(mirror) /\ \E n \in DOMAIN nodes : nodes[n].admin /\ nodes[n].enabled
    <3>1. Serial(s) /\ call[s] \in Calls
      BY <2>1 DEF SerialInv, UsersInv, UsersType
    <3>2. \E m : HasAdmin(m) /\ ExactMap(m, nodes)
      BY <3>1, CallForms DEF Serial
    <3>3. PICK m : HasAdmin(m) /\ ExactMap(m, nodes)
      BY <3>2
    <3>4. PICK u \in DOMAIN m : m[u].admin /\ m[u].enabled
      BY <3>3 DEF HasAdmin
    <3>5. m[u].node \in DOMAIN nodes /\ nodes[m[u].node] = NodeOf(m[u])
      BY <3>3, <3>4 DEF ExactMap
    <3>. QED  BY <3>1, <3>4, <3>5 DEF Serial, NodeOf
  <2>. QED  BY <2>1 DEF SerialAdminRemains, OneAdministrator, HasAdmin
<1>. QED  BY <1>1, <1>2, <1>3 DEF IdentitiesAreSound

\* Nobody logs in without a node, and a dropped user stays out until the name is
\* created again, restarts included, however many administrators work at once,
\* unless two of them created the name at the same time; and with one
\* administrator at a time the map between statements is what a restart loads
\* and an enabled administrator remains, in the map and in the nodes
\* (auth/system_graph.rs: create_user, drop_user, set_password, set_enabled,
\* set_admin, load_users).
THEOREM IdentitiesHold == SpecUsers => []IdentitiesAreSound
<1>1. (\E group \in SUBSET Sessions : InitUsers(group)) => UsersInv /\ SerialInv /\ GoneInv
  <2>1. ASSUME NEW group \in SUBSET Sessions, InitUsers(group) PROVE GoneInv
    BY <2>1 DEF InitUsers, GoneInv, OneNodeEach
  <2>. QED  BY <2>1, UsersStart
<1>2. UsersInv /\ SerialInv /\ GoneInv /\ [NextUsers]_userVars => (UsersInv /\ SerialInv /\ GoneInv)'
  BY UsersStep, GoneStep
<1>3. UsersInv /\ SerialInv /\ GoneInv => IdentitiesAreSound
  BY UsersImplies
<1>. QED  BY <1>1, <1>2, <1>3, PTL DEF SpecUsers

-----------------------------------------------------------------------------
(* Coming in: the counts of connections and the windows of failed log-ins. *)

\* The times of a window are failures of its address, each a different one.
Embeds(s, t) ==
  \E f \in [1..Len(s) -> 1..Len(t)] :
    /\ \A i, j \in 1..Len(s) : f[i] = f[j] => i = j
    /\ \A i \in 1..Len(s) : s[i] = t[f[i]]

\* A set of naturals that is not empty has a least element.
LEMMA LeastNatural ==
  ASSUME NEW S, S \subseteq Nat, S # {}
  PROVE  Min(S) \in S
<1>1. IsWellFoundedOn(OpToRel(<, Nat), Nat) BY NatLessThanWellFounded
<1>2. PICK x \in S : \A y \in S : ~(<<y, x>> \in OpToRel(<, Nat)) BY <1>1, WFMin, Zenon
<1>3. \A y \in S : x <= y
  <2> SUFFICES ASSUME NEW y \in S, y < x PROVE FALSE OBVIOUS
  <2>1. <<y, x>> \in OpToRel(<, Nat) BY DEF OpToRel
  <2> QED BY <1>2, <2>1
<1> QED BY <1>3 DEF Min

\* expire takes times from the front only.
LEMMA ExpireIsSuffix ==
  ASSUME NEW s \in Seq(Nat), NEW n \in Nat
  PROVE  \E m \in 1..(Len(s) + 1) : Expire(n, s) = SubSeq(s, m, Len(s))
<1> DEFINE L == { i \in DOMAIN s : InWindow(n, s[i]) }
<1>1. CASE L = {}
  <2>1. SubSeq(s, Len(s) + 1, Len(s)) = <<>> OBVIOUS
  <2> QED BY <1>1, <2>1 DEF Expire
<1>2. CASE L # {}
  <2>1. L \subseteq Nat OBVIOUS
  <2>2. Min(L) \in L BY <1>2, <2>1, LeastNatural
  <2>3. Expire(n, s) = SubSeq(s, Min(L), Len(s)) BY <1>2 DEF Expire
  <2>4. Min(L) \in 1..(Len(s) + 1) BY <2>2
  <2> QED BY <2>3, <2>4
<1> QED BY <1>1, <1>2

\* What stays of a window when old times go is still made of failures.
LEMMA EmbedsSuffix ==
  ASSUME NEW s \in Seq(Nat), NEW t \in Seq(Nat), NEW m \in 1..(Len(s) + 1), Embeds(s, t)
  PROVE  Embeds(SubSeq(s, m, Len(s)), t)
<1> DEFINE u == SubSeq(s, m, Len(s))
<1>1. PICK f \in [1..Len(s) -> 1..Len(t)] :
         /\ \A i, j \in 1..Len(s) : f[i] = f[j] => i = j
         /\ \A i \in 1..Len(s) : s[i] = t[f[i]]
  BY DEF Embeds
<1>2. /\ Len(u) = Len(s) - m + 1
      /\ \A i \in 1..Len(u) : u[i] = s[m + i - 1] /\ m + i - 1 \in 1..Len(s)
  <2>1. Len(s) \in Nat /\ m \in Nat \ {0} /\ m <= Len(s) + 1 OBVIOUS
  <2>2. Len(u) = Len(s) - m + 1 BY <2>1
  <2>3. ASSUME NEW i \in 1..Len(u) PROVE u[i] = s[m + i - 1] BY <2>1
  <2>4. ASSUME NEW i \in 1..Len(u) PROVE m + i - 1 \in 1..Len(s)
    <3> HIDE DEF u
    <3> QED BY <2>1, <2>2
  <2> QED BY <2>2, <2>3, <2>4
<1> DEFINE g == [i \in 1..Len(u) |-> f[m + i - 1]]
<1>3. g \in [1..Len(u) -> 1..Len(t)] BY <1>1, <1>2
<1>4. \A i, j \in 1..Len(u) : g[i] = g[j] => i = j
  <2> SUFFICES ASSUME NEW i \in 1..Len(u), NEW j \in 1..Len(u), g[i] = g[j] PROVE i = j OBVIOUS
  <2>1. m + i - 1 = m + j - 1 BY <1>1, <1>2
  <2> QED BY <2>1, <1>2
<1>5. \A i \in 1..Len(u) : u[i] = t[g[i]] BY <1>1, <1>2
<1> QED BY <1>3, <1>4, <1>5 DEF Embeds

\* A failure that a full window does not take is no matter to the others.
LEMMA EmbedsLonger ==
  ASSUME NEW s \in Seq(Nat), NEW t \in Seq(Nat), NEW x \in Nat, Embeds(s, t)
  PROVE  Embeds(s, Append(t, x))
<1>1. PICK f \in [1..Len(s) -> 1..Len(t)] :
         /\ \A i, j \in 1..Len(s) : f[i] = f[j] => i = j
         /\ \A i \in 1..Len(s) : s[i] = t[f[i]]
  BY DEF Embeds
<1>2. /\ Len(Append(t, x)) = Len(t) + 1
      /\ \A i \in 1..Len(t) : Append(t, x)[i] = t[i]
  OBVIOUS
<1>3. f \in [1..Len(s) -> 1..Len(Append(t, x))] BY <1>2
<1>4. \A i \in 1..Len(s) : s[i] = Append(t, x)[f[i]] BY <1>1, <1>2
<1> QED BY <1>1, <1>3, <1>4 DEF Embeds

\* A failure that is recorded is one of the address.
LEMMA EmbedsAppend ==
  ASSUME NEW s \in Seq(Nat), NEW t \in Seq(Nat), NEW x \in Nat, Embeds(s, t)
  PROVE  Embeds(Append(s, x), Append(t, x))
<1> DEFINE u == Append(s, x)
<1> DEFINE v == Append(t, x)
<1>1. PICK f \in [1..Len(s) -> 1..Len(t)] :
         /\ \A i, j \in 1..Len(s) : f[i] = f[j] => i = j
         /\ \A i \in 1..Len(s) : s[i] = t[f[i]]
  BY DEF Embeds
<1>2. /\ Len(s) \in Nat /\ Len(t) \in Nat
      /\ Len(u) = Len(s) + 1 /\ Len(v) = Len(t) + 1
      /\ \A i \in 1..Len(s) : u[i] = s[i]
      /\ \A i \in 1..Len(t) : v[i] = t[i]
      /\ u[Len(s) + 1] = x /\ v[Len(t) + 1] = x
  OBVIOUS
<1> HIDE DEF u, v
<1> DEFINE g == [i \in 1..Len(u) |-> IF i = Len(s) + 1 THEN Len(t) + 1 ELSE f[i]]
<1>3. g \in [1..Len(u) -> 1..Len(v)]
  <2> SUFFICES ASSUME NEW i \in 1..Len(u) PROVE g[i] \in 1..Len(v) OBVIOUS
  <2>1. CASE i = Len(s) + 1 BY <2>1, <1>2
  <2>2. CASE i # Len(s) + 1
    <3>1. i \in 1..Len(s) BY <2>2, <1>2
    <3>2. f[i] \in 1..Len(t) BY <3>1
    <3> QED BY <2>2, <3>2, <1>2
  <2> QED BY <2>1, <2>2
<1>4. \A i, j \in 1..Len(u) : g[i] = g[j] => i = j
  <2> SUFFICES ASSUME NEW i \in 1..Len(u), NEW j \in 1..Len(u), g[i] = g[j] PROVE i = j OBVIOUS
  <2>1. \A k \in 1..Len(u) : (k # Len(s) + 1) => k \in 1..Len(s) BY <1>2
  <2>2. \A k \in 1..Len(s) : f[k] # Len(t) + 1
    <3>1. \A k \in 1..Len(s) : f[k] \in 1..Len(t) BY <1>1
    <3>2. Len(t) + 1 \notin 1..Len(t) BY <1>2
    <3> QED BY <3>1, <3>2
  <2> QED BY <2>1, <2>2, <1>1
<1>5. \A i \in 1..Len(u) : u[i] = v[g[i]]
  <2> SUFFICES ASSUME NEW i \in 1..Len(u) PROVE u[i] = v[g[i]] OBVIOUS
  <2>1. CASE i = Len(s) + 1 BY <2>1, <1>2
  <2>2. CASE i # Len(s) + 1
    <3>1. i \in 1..Len(s) BY <2>2, <1>2
    <3>2. f[i] \in 1..Len(t) BY <3>1
    <3> QED BY <2>2, <3>1, <3>2, <1>1, <1>2
  <2> QED BY <2>1, <2>2
<1>6. Embeds(u, v) BY <1>3, <1>4, <1>5 DEF Embeds
<1> QED BY <1>6 DEF u, v

\* What a window counts, its address did.
LEMMA EmbedsCount ==
  ASSUME NEW s \in Seq(Nat), NEW t \in Seq(Nat), NEW n \in Nat, Embeds(s, t)
  PROVE  CountInWindow(n, s) \in Nat /\ CountInWindow(n, t) \in Nat
         /\ CountInWindow(n, s) <= CountInWindow(n, t)
<1> DEFINE S == { i \in DOMAIN s : InWindow(n, s[i]) }
<1> DEFINE T == { i \in DOMAIN t : InWindow(n, t[i]) }
<1>1. PICK f \in [1..Len(s) -> 1..Len(t)] :
         /\ \A i, j \in 1..Len(s) : f[i] = f[j] => i = j
         /\ \A i \in 1..Len(s) : s[i] = t[f[i]]
  BY DEF Embeds
<1>2. DOMAIN s = 1..Len(s) /\ DOMAIN t = 1..Len(t) /\ Len(s) \in Nat /\ Len(t) \in Nat OBVIOUS
<1> DEFINE g == [i \in S |-> f[i]]
<1>3. g \in [S -> T] BY <1>1, <1>2 DEF InWindow
<1>4. \A i, j \in S : g[i] = g[j] => i = j BY <1>1, <1>2
<1>5. IsFiniteSet(T)
  <2>1. IsFiniteSet(1..Len(t)) BY <1>2, FS_Interval
  <2>2. T \in SUBSET (1..Len(t)) BY <1>2
  <2> QED BY <2>1, <2>2, FS_Subset
<1> HIDE DEF S, T, g
<1>6. g \in Injection(S, T) BY <1>3, <1>4 DEF Injection, IsInjective
<1>7. IsFiniteSet(S) /\ Cardinality(S) <= Cardinality(T) BY <1>5, <1>6, FS_Injection
<1>8. Cardinality(S) \in Nat /\ Cardinality(T) \in Nat BY <1>5, <1>7, FS_CardinalityType
<1> QED BY <1>7, <1>8 DEF CountInWindow, S, T

\* try_add keeps the window within its cap and made of failures.
LEMMA TryAddEmbeds ==
  ASSUME NEW s \in Seq(Nat), NEW t \in Seq(Nat), NEW n \in Nat, Embeds(s, t), Len(s) <= AuthCap
  PROVE  /\ TryAdd(n, s) \in Seq(Nat)
         /\ Len(TryAdd(n, s)) <= AuthCap
         /\ Embeds(TryAdd(n, s), Append(t, n))
<1>1. PICK m \in 1..(Len(s) + 1) : Expire(n, s) = SubSeq(s, m, Len(s)) BY ExpireIsSuffix
<1> DEFINE k == SubSeq(s, m, Len(s))
<1>2. k \in Seq(Nat) /\ Len(k) <= Len(s) /\ Len(k) \in Nat OBVIOUS
<1>3. Embeds(k, t) BY EmbedsSuffix
<1>4. AuthCap \in Nat BY FrontAssumption
<1> HIDE DEF k
<1>5. /\ Append(k, n) \in Seq(Nat) /\ Len(Append(k, n)) = Len(k) + 1
      /\ Embeds(Append(k, n), Append(t, n)) /\ Embeds(k, Append(t, n)) /\ Embeds(s, Append(t, n))
  BY <1>2, <1>3, EmbedsAppend, EmbedsLonger
<1>6. TryAdd(n, s) = IF AuthCap = 0 THEN s ELSE IF Len(k) < AuthCap THEN Append(k, n) ELSE k
  BY <1>1 DEF TryAdd, k
<1> QED BY <1>2, <1>4, <1>5, <1>6

\* Removing an element keeps the others in order.
LEMMA RemoveAtIs ==
  ASSUME NEW X, NEW s \in Seq(X), NEW k \in 1..Len(s)
  PROVE  /\ RemoveAt(s, k) \in Seq(X)
         /\ Len(RemoveAt(s, k)) = Len(s) - 1
         /\ \A i \in 1..(Len(s) - 1) : RemoveAt(s, k)[i] = s[IF i < k THEN i ELSE i + 1]
<1> DEFINE u == SubSeq(s, 1, k - 1)
<1> DEFINE v == SubSeq(s, k + 1, Len(s))
<1>1. /\ u \in Seq(X) /\ Len(u) = k - 1
      /\ \A i \in 1..(k - 1) : u[i] = s[i]
  OBVIOUS
<1>2. /\ v \in Seq(X) /\ Len(v) = Len(s) - k
      /\ \A i \in 1..(Len(s) - k) : v[i] = s[k + i]
  OBVIOUS
<1>3. Len(s) \in Nat OBVIOUS
<1> HIDE DEF u, v
<1>4. /\ u \o v \in Seq(X) /\ Len(u \o v) = Len(s) - 1
      /\ \A i \in 1..(Len(s) - 1) : (u \o v)[i] = IF i <= Len(u) THEN u[i] ELSE v[i - Len(u)]
  <2>1. /\ u \o v \in Seq(X) /\ Len(u \o v) = Len(u) + Len(v)
        /\ \A i \in 1..(Len(u) + Len(v)) : (u \o v)[i] = IF i <= Len(u) THEN u[i] ELSE v[i - Len(u)]
    <3>1. u \in Seq(X) /\ v \in Seq(X) BY <1>1, <1>2
    <3> QED BY <3>1
  <2>2. Len(u) + Len(v) = Len(s) - 1 BY <1>1, <1>2, <1>3
  <2> QED BY <2>1, <2>2
<1>5. ASSUME NEW i \in 1..(Len(s) - 1)
      PROVE  (u \o v)[i] = s[IF i < k THEN i ELSE i + 1]
  <2>1. CASE i < k
    <3>1. i \in 1..(k - 1) /\ i <= Len(u) BY <2>1, <1>1, <1>3
    <3> QED BY <2>1, <3>1, <1>1, <1>4
  <2>2. CASE ~(i < k)
    <3>1. i - Len(u) \in 1..(Len(s) - k) /\ ~(i <= Len(u)) BY <2>2, <1>1, <1>3
    <3>2. v[i - Len(u)] = s[k + (i - Len(u))] BY <3>1, <1>2
    <3>3. k + (i - Len(u)) = i + 1 BY <1>1
    <3> QED BY <2>2, <3>1, <3>2, <3>3, <1>4
  <2> QED BY <2>1, <2>2
<1> QED BY <1>4, <1>5 DEF RemoveAt, u, v

-----------------------------------------------------------------------------

ConnType ==
  [st : {"idle", "accepted", "shaking", "open", "authenticating", "failing"},
   ip : Addresses \cup {NoAddress}, guard : BOOLEAN, at : Nat]

FrontType ==
  /\ conn \in [Conns -> ConnType]
  /\ entries \in Seq([ip : Addresses, times : Seq(Nat)])
  /\ tick \in Nat /\ failed \in [Addresses -> Seq(Nat)]

\* A guard is held by a task past its admission, for the address it came from.
TasksAreSound ==
  /\ IsFiniteSet(Tasks)
  /\ \A c \in Conns :
       /\ conn[c].guard => conn[c].ip \in Addresses /\ conn[c].st \notin {"idle", "accepted"}
       /\ conn[c].st \in {"authenticating", "failing"} => conn[c].ip \in Addresses

WindowsAreTrue ==
  \A i \in DOMAIN entries : Embeds(entries[i].times, failed[entries[i].ip])

FrontInv == FrontType /\ TasksAreSound /\ CountsAreLive /\ StoreIsBounded /\ WindowsAreTrue

\* The tasks that hold a guard of address a.
Holders(a) == { c \in Conns : conn[c].guard /\ conn[c].ip = a }

\* The permits bound the tasks, whatever the set of connections.
LEMMA HoldersFinite ==
  ASSUME FrontType, TasksAreSound, NEW a
  PROVE  IsFiniteSet(Holders(a)) /\ Cardinality(Holders(a)) \in Nat
<1>1. Holders(a) \in SUBSET Tasks BY DEF Holders, Tasks, TasksAreSound
<1>2. IsFiniteSet(Holders(a)) BY <1>1, FS_Subset DEF TasksAreSound
<1> QED BY <1>2, FS_CardinalityType

\* CountsAreLive in terms of the tasks that hold the guard of an address.
LEMMA CountsAre ==
  CountsAreLive <=>
    /\ \A a \in Addresses :
         /\ (a \in DOMAIN counts) = (Cardinality(Holders(a)) > 0)
         /\ Cardinality(Holders(a)) > 0 => counts[a] = Cardinality(Holders(a))
         /\ ConnCap > 0 => Cardinality(Holders(a)) <= ConnCap
    /\ DOMAIN counts \subseteq Addresses
BY DEF CountsAreLive, Holders

\* A step that moves no guard keeps the counts.
LEMMA CountsStay ==
  ASSUME CountsAreLive, counts' = counts,
         \A c \in Conns : conn'[c].guard = conn[c].guard
                          /\ (conn[c].guard => conn'[c].ip = conn[c].ip)
  PROVE  CountsAreLive'
<1>1. \A a : Holders(a)' = Holders(a) BY DEF Holders
<1> QED BY <1>1, CountsAre DEF CountsAreLive, Holders

\* What leaves the store alone keeps what is said of it.
LEMMA StoreStays ==
  ASSUME StoreIsBounded, WindowsAreTrue, UNCHANGED <<entries, failed>>
  PROVE  StoreIsBounded' /\ WindowsAreTrue'
BY DEF StoreIsBounded, WindowsAreTrue

\* The tasks that end give back what they hold.
LEMMA ReleaseKeeps ==
  ASSUME NEW cs \in SUBSET Conns, FrontType, TasksAreSound, CountsAreLive, Release(cs)
  PROVE  /\ conn' \in [Conns -> ConnType]
         /\ TasksAreSound' /\ CountsAreLive'
<1> DEFINE held(a) == Cardinality({ c \in cs : conn[c].guard /\ conn[c].ip = a })
<1> DEFINE left(a) == IF held(a) > counts[a] THEN 0 ELSE counts[a] - held(a)
<1>1. /\ conn' = [c \in Conns |-> IF c \in cs THEN Idle ELSE conn[c]]
      /\ counts' = [a \in { b \in DOMAIN counts : left(b) > 0 } |-> left(a)]
  BY DEF Release
<1>2. conn' \in [Conns -> ConnType]
  BY <1>1 DEF FrontType, ConnType, Idle
<1>3. TasksAreSound'
  <2>1. Tasks' \in SUBSET Tasks BY <1>1 DEF Tasks, Idle
  <2>2. IsFiniteSet(Tasks') BY <2>1, FS_Subset DEF TasksAreSound
  <2> QED BY <1>1, <2>2 DEF TasksAreSound, Idle
<1>4. ASSUME NEW a \in Addresses
      PROVE  /\ held(a) \in Nat /\ held(a) <= Cardinality(Holders(a))
             /\ Cardinality(Holders(a)') = Cardinality(Holders(a)) - held(a)
  <2>1. Holders(a)' = Holders(a) \ cs BY <1>1 DEF Holders, Idle
  <2>2. { c \in cs : conn[c].guard /\ conn[c].ip = a } = Holders(a) \cap cs BY DEF Holders
  <2>3. IsFiniteSet(Holders(a)) BY HoldersFinite
  <2>4. Cardinality(Holders(a) \ cs) = Cardinality(Holders(a)) - Cardinality(Holders(a) \cap cs)
    BY <2>3, FS_Difference
  <2>5. IsFiniteSet(Holders(a) \cap cs) /\ Cardinality(Holders(a) \cap cs) <= Cardinality(Holders(a))
    <3>1. Holders(a) \cap cs \in SUBSET Holders(a) OBVIOUS
    <3> QED BY <2>3, <3>1, FS_Subset
  <2>6. Cardinality(Holders(a) \cap cs) \in Nat BY <2>5, FS_CardinalityType
  <2> QED BY <2>1, <2>2, <2>4, <2>5, <2>6
<1> HIDE DEF held
<1>5. CountsAreLive'
  <2>1. ASSUME NEW a \in Addresses
        PROVE  /\ (a \in DOMAIN counts') = (Cardinality(Holders(a)') > 0)
               /\ Cardinality(Holders(a)') > 0 => counts'[a] = Cardinality(Holders(a)')
               /\ ConnCap > 0 => Cardinality(Holders(a)') <= ConnCap
    <3>1. /\ (a \in DOMAIN counts) = (Cardinality(Holders(a)) > 0)
          /\ Cardinality(Holders(a)) > 0 => counts[a] = Cardinality(Holders(a))
          /\ ConnCap > 0 => Cardinality(Holders(a)) <= ConnCap
          /\ Cardinality(Holders(a)) \in Nat /\ ConnCap \in Nat
      BY CountsAre, HoldersFinite, FrontAssumption
    <3>2. /\ held(a) \in Nat /\ held(a) <= Cardinality(Holders(a))
          /\ Cardinality(Holders(a)') = Cardinality(Holders(a)) - held(a)
      BY <1>4
    <3>3. a \in DOMAIN counts => left(a) = Cardinality(Holders(a)') BY <3>1, <3>2
    <3>4. a \in DOMAIN counts' <=> a \in DOMAIN counts /\ left(a) > 0 BY <1>1
    <3>5. a \in DOMAIN counts' => counts'[a] = left(a) BY <1>1
    <3> QED BY <3>1, <3>2, <3>3, <3>4, <3>5
  <2>2. DOMAIN counts' \subseteq Addresses BY <1>1, CountsAre
  <2> QED BY <2>1, <2>2 DEF CountsAreLive, Holders
<1> QED BY <1>2, <1>3, <1>5

\* r is what is left of the entries s when the one at k goes.
LeftWithout(E, s, k, r) ==
  /\ r \in Seq(E) /\ Len(r) = Len(s) - 1 /\ Len(r) \in Nat
  /\ \A i \in 1..Len(r) : \E m \in 1..Len(s) : r[i] = s[m] /\ m # k
  /\ \A i, j \in 1..Len(r) : r[i].ip = r[j].ip => i = j

\* One window per address.
OneEach(s) == \A i, j \in 1..Len(s) : s[i].ip = s[j].ip => i = j

\* The store without one of its entries.
LEMMA RemovedLeaves ==
  ASSUME NEW E, NEW s \in Seq(E), NEW k \in 1..Len(s), OneEach(s)
  PROVE  LeftWithout(E, s, k, RemoveAt(s, k))
<1> DEFINE r == RemoveAt(s, k)
<1> DEFINE spot(i) == IF i < k THEN i ELSE i + 1
<1>1. /\ r \in Seq(E) /\ Len(r) = Len(s) - 1 /\ Len(s) \in Nat /\ Len(r) \in Nat
      /\ \A i \in 1..Len(r) : r[i] = s[spot(i)]
  <2>1. /\ r \in Seq(E) /\ Len(r) = Len(s) - 1
        /\ \A i \in 1..(Len(s) - 1) : r[i] = s[spot(i)]
    BY RemoveAtIs, Zenon
  <2> HIDE DEF r
  <2>2. Len(s) \in Nat /\ Len(r) \in Nat BY <2>1
  <2> QED BY <2>1, <2>2
<1>2. \A i \in 1..Len(r) : spot(i) \in 1..Len(s) /\ spot(i) # k
  <2>1. ASSUME NEW n \in Nat, NEW i \in 1..(n - 1), k \in 1..n PROVE spot(i) \in 1..n /\ spot(i) # k
    BY <2>1
  <2> QED BY <2>1, <1>1
<1>3. \A i, j \in 1..Len(r) : spot(i) = spot(j) => i = j
  <2>1. ASSUME NEW i \in Nat, NEW j \in Nat, spot(i) = spot(j) PROVE i = j BY <2>1
  <2> QED BY <2>1, <1>1
<1> HIDE DEF spot, r
<1>4. \A i \in 1..Len(r) : \E m \in 1..Len(s) : r[i] = s[m] /\ m # k BY <1>1, <1>2
<1>5. ASSUME NEW i \in 1..Len(r), NEW j \in 1..Len(r), r[i].ip = r[j].ip PROVE i = j
  <2>1. s[spot(i)].ip = s[spot(j)].ip BY <1>1, <1>5
  <2>2. spot(i) = spot(j) BY <2>1, <1>2 DEF OneEach
  <2> QED BY <2>2, <1>3
<1>6. LeftWithout(E, s, k, r) BY <1>1, <1>4, <1>5 DEF LeftWithout
<1> QED BY <1>6 DEF r

\* A failure recorded: its address has one window, which holds failures of
\* that address only.
LEMMA RecordKeeps ==
  ASSUME FrontType, StoreIsBounded, WindowsAreTrue, NEW a \in Addresses, NEW n \in Nat,
         RecordFailure(a, n), failed' = [failed EXCEPT ![a] = Append(@, n)]
  PROVE  /\ entries' \in Seq([ip : Addresses, times : Seq(Nat)])
         /\ failed' \in [Addresses -> Seq(Nat)]
         /\ StoreIsBounded' /\ WindowsAreTrue'
<1> DEFINE E == [ip : Addresses, times : Seq(Nat)]
<1> DEFINE known == EntryOf(a) # {}
<1> DEFINE mine == CHOOSE i \in EntryOf(a) : TRUE
<1> DEFINE full == IpCap > 0 /\ Len(entries) >= IpCap
<1> DEFINE times == IF known THEN entries[mine].times ELSE <<>>
<1> DEFINE others == IF known THEN RemoveAt(entries, mine)
                     ELSE IF full THEN RemoveAt(entries, 1) ELSE entries
<1> DEFINE new == [ip |-> a, times |-> TryAdd(n, times)]
<1>0. /\ entries \in Seq(E) /\ DOMAIN entries = 1..Len(entries) /\ Len(entries) \in Nat
      /\ IpCap \in Nat /\ AuthCap \in Nat /\ failed \in [Addresses -> Seq(Nat)]
      /\ \A i \in 1..Len(entries) : entries[i] \in E
  <2>1. IpCap \in Nat /\ AuthCap \in Nat BY FrontAssumption
  <2>2. entries \in Seq(E) /\ failed \in [Addresses -> Seq(Nat)] BY DEF FrontType, ConnType
  <2> HIDE DEF E
  <2>3. /\ DOMAIN entries = 1..Len(entries) /\ Len(entries) \in Nat
        /\ \A i \in 1..Len(entries) : entries[i] \in E
    BY <2>2
  <2> QED BY <2>1, <2>2, <2>3
<1>1. entries' = Append(others, new) BY DEF RecordFailure
<1>2. known => mine \in 1..Len(entries) /\ entries[mine].ip = a BY <1>0 DEF EntryOf
<1>3. /\ \A i, j \in 1..Len(entries) : entries[i].ip = entries[j].ip => i = j
      /\ IpCap > 0 => Len(entries) <= IpCap
      /\ \A i \in 1..Len(entries) : Len(entries[i].times) <= AuthCap
                                    /\ Embeds(entries[i].times, failed[entries[i].ip])
  BY <1>0 DEF StoreIsBounded, WindowsAreTrue
<1>4. \A i \in 1..Len(entries) : entries[i].ip = a => known
  BY <1>0 DEF EntryOf
<1>5. (known => times = entries[mine].times) /\ (~known => times = <<>>) OBVIOUS
<1>6. /\ known => others = RemoveAt(entries, mine)
      /\ ~known /\ full => others = RemoveAt(entries, 1)
      /\ ~known /\ ~full => others = entries
  OBVIOUS
<1>7. /\ failed' \in [Addresses -> Seq(Nat)] /\ failed'[a] = Append(failed[a], n)
      /\ \A b \in Addresses : b # a => failed'[b] = failed[b]
  BY <1>0
<1> HIDE DEF known, mine, times, others
<1>8. times \in Seq(Nat) /\ Len(times) <= AuthCap /\ Embeds(times, failed[a])
  <2>1. CASE known
    <3>1. entries[mine] \in E BY <2>1, <1>0, <1>2
    <3>2. entries[mine].times \in Seq(Nat) BY <3>1
    <3> QED BY <2>1, <3>2, <1>2, <1>3, <1>5
  <2>2. CASE ~known
    <3>1. Len(<<>>) = 0 /\ <<>> \in Seq(Nat) OBVIOUS
    <3>2. Embeds(<<>>, failed[a])
      <4>1. [i \in {} |-> 0] \in [1..0 -> 1..Len(failed[a])] OBVIOUS
      <4> QED BY <3>1, <4>1 DEF Embeds
    <3> QED BY <2>2, <3>1, <3>2, <1>0, <1>5
  <2> QED BY <2>1, <2>2
<1>9. /\ TryAdd(n, times) \in Seq(Nat) /\ Len(TryAdd(n, times)) <= AuthCap
      /\ Embeds(TryAdd(n, times), Append(failed[a], n))
  BY <1>0, <1>8, TryAddEmbeds
<1>10. new \in E /\ new.ip = a /\ new.times = TryAdd(n, times) BY <1>9
<1> HIDE DEF new, E, full
\* Every other entry is an old one, of another address, and there is room.
<1>11. /\ others \in Seq(E) /\ Len(others) \in Nat
       /\ IpCap > 0 => Len(others) < IpCap
       /\ \A i \in 1..Len(others) : \E k \in 1..Len(entries) : others[i] = entries[k] /\ entries[k].ip # a
       /\ \A i, j \in 1..Len(others) : others[i].ip = others[j].ip => i = j
  <2>0. entries \in Seq(E) /\ OneEach(entries) BY <1>0, <1>3 DEF OneEach
  <2>1. CASE known
    <3>1. /\ others \in Seq(E) /\ Len(others) = Len(entries) - 1 /\ Len(others) \in Nat
          /\ \A i \in 1..Len(others) : \E m \in 1..Len(entries) : others[i] = entries[m] /\ m # mine
          /\ \A i, j \in 1..Len(others) : others[i].ip = others[j].ip => i = j
      <4>1. others = RemoveAt(entries, mine) /\ mine \in 1..Len(entries) BY <2>1, <1>2, <1>6
      <4>2. LeftWithout(E, entries, mine, others) BY <4>1, <2>0, RemovedLeaves
      <4> QED BY <4>2 DEF LeftWithout
    <3>2. \A m \in 1..Len(entries) : m # mine => entries[m].ip # a BY <2>1, <1>2, <1>3
    <3>3. IpCap > 0 => Len(others) < IpCap BY <3>1, <1>0, <1>3
    <3> QED BY <3>1, <3>2, <3>3
  <2>2. CASE ~known /\ full
    <3>0. 1 \in 1..Len(entries) BY <2>2, <1>0 DEF full
    <3>1. /\ others \in Seq(E) /\ Len(others) = Len(entries) - 1 /\ Len(others) \in Nat
          /\ \A i \in 1..Len(others) : \E m \in 1..Len(entries) : others[i] = entries[m] /\ m # 1
          /\ \A i, j \in 1..Len(others) : others[i].ip = others[j].ip => i = j
      <4>1. others = RemoveAt(entries, 1) BY <2>2, <1>6
      <4>2. LeftWithout(E, entries, 1, others) BY <3>0, <4>1, <2>0, RemovedLeaves
      <4> QED BY <4>2 DEF LeftWithout
    <3>2. \A m \in 1..Len(entries) : entries[m].ip # a BY <2>2, <1>4
    <3>3. IpCap > 0 => Len(others) < IpCap BY <3>1, <1>0, <1>3
    <3> QED BY <3>1, <3>2, <3>3
  <2>3. CASE ~known /\ ~full
    <3>1. others = entries BY <2>3, <1>6
    <3>2. \A i \in 1..Len(entries) : entries[i].ip # a BY <2>3, <1>4
    <3>3. IpCap > 0 => Len(entries) < IpCap BY <2>3, <1>0 DEF full
    <3> QED BY <3>1, <3>2, <3>3, <1>0, <1>3
  <2> QED BY <2>1, <2>2, <2>3
<1>12. /\ entries' \in Seq(E) /\ Len(entries') = Len(others) + 1
       /\ DOMAIN entries' = 1..(Len(others) + 1)
       /\ \A i \in 1..Len(others) : entries'[i] = others[i]
       /\ entries'[Len(others) + 1] = new
  BY <1>1, <1>10, <1>11
<1>13. \A i \in 1..(Len(others) + 1) : i \in 1..Len(others) \/ i = Len(others) + 1 BY <1>11
<1>14. StoreIsBounded'
  <2>1. ASSUME NEW i \in 1..(Len(others) + 1), NEW j \in 1..(Len(others) + 1),
               entries'[i].ip = entries'[j].ip
        PROVE  i = j
    <3>1. \A k \in 1..Len(others) : others[k].ip # a BY <1>11
    <3> QED BY <2>1, <3>1, <1>10, <1>11, <1>12, <1>13
  <2>2. IpCap > 0 => Len(entries') <= IpCap BY <1>0, <1>11, <1>12
  <2>3. ASSUME NEW i \in 1..(Len(others) + 1) PROVE Len(entries'[i].times) <= AuthCap
    <3>1. CASE i = Len(others) + 1 BY <3>1, <1>9, <1>10, <1>12
    <3>2. CASE i \in 1..Len(others)
      <4>1. PICK k \in 1..Len(entries) : others[i] = entries[k] BY <3>2, <1>11
      <4> QED BY <3>2, <4>1, <1>3, <1>12
    <3> QED BY <3>1, <3>2, <1>13
  <2> QED BY <2>1, <2>2, <2>3, <1>12 DEF StoreIsBounded
<1>15. WindowsAreTrue'
  <2>1. ASSUME NEW i \in 1..(Len(others) + 1)
        PROVE  Embeds(entries'[i].times, failed'[entries'[i].ip])
    <3>1. CASE i = Len(others) + 1 BY <3>1, <1>7, <1>9, <1>10, <1>12
    <3>2. CASE i \in 1..Len(others)
      <4>1. PICK k \in 1..Len(entries) : others[i] = entries[k] /\ entries[k].ip # a BY <3>2, <1>11
      <4>2. entries[k] \in E BY <1>0
      <4>3. entries[k].ip \in Addresses BY <4>2 DEF E
      <4> QED BY <3>2, <4>1, <4>3, <1>3, <1>7, <1>12
    <3> QED BY <3>1, <3>2, <1>13
  <2> QED BY <2>1, <1>12 DEF WindowsAreTrue
<1> QED BY <1>7, <1>12, <1>14, <1>15 DEF E

-----------------------------------------------------------------------------

\* A server that starts has counted nobody.
LEMMA FrontStarts == InitFront => FrontInv
<1> SUFFICES ASSUME InitFront PROVE FrontInv OBVIOUS
<1> USE DEF InitFront, Idle
<1>1. FrontType BY FrontAssumption DEF FrontType, ConnType
<1>2. Tasks = {} BY DEF Tasks
<1>3. TasksAreSound BY <1>2, FS_EmptySet DEF TasksAreSound
<1>4. \A a : Holders(a) = {} BY DEF Holders
<1>5. DOMAIN counts = {} /\ DOMAIN entries = {} /\ Len(entries) = 0 OBVIOUS
<1>6. CountsAreLive
  <2>1. \A a : Cardinality(Holders(a)) = 0 BY <1>4, FS_EmptySet
  <2>2. ConnCap \in Nat BY FrontAssumption
  <2> HIDE DEF InitFront
  <2> QED BY <2>1, <2>2, <1>5, CountsAre
<1>7. StoreIsBounded BY <1>5, FrontAssumption DEF StoreIsBounded
<1>8. WindowsAreTrue BY <1>5 DEF WindowsAreTrue
<1> QED BY <1>1, <1>3, <1>6, <1>7, <1>8 DEF FrontInv

\* A task admitted is counted for its address, and only if there was room.
LEMMA AdmitKeeps ==
  ASSUME FrontInv, NEW c \in Conns, NEW a \in Addresses \cup {NoAddress}, Admit(c, a)
  PROVE  FrontInv'
<1> DEFINE got == IF a = NoAddress THEN [ok |-> TRUE, counts |-> counts] ELSE TryAcquire(a)
<1>1. /\ conn[c].st = "accepted" /\ ~conn[c].guard /\ counts' = got.counts
      /\ UNCHANGED <<entries, listener, shutdown, tick, failed>>
      /\ conn' = [conn EXCEPT ![c] = IF ~got.ok THEN Idle
                                     ELSE [conn[c] EXCEPT !.st = "shaking", !.ip = a, !.guard = a # NoAddress]]
  BY DEF Admit, FrontInv, TasksAreSound, FrontType, ConnType
<1> USE DEF FrontInv
<1>2. FrontType'
  <2> DEFINE new == IF ~got.ok THEN Idle
                    ELSE [conn[c] EXCEPT !.st = "shaking", !.ip = a, !.guard = a # NoAddress]
  <2>1. conn[c] \in ConnType BY DEF FrontType
  <2>2. Idle \in ConnType BY DEF ConnType, Idle
  <2>3. [conn[c] EXCEPT !.st = "shaking", !.ip = a, !.guard = a # NoAddress] \in ConnType BY <2>1 DEF ConnType
  <2>4. new \in ConnType BY <2>2, <2>3
  <2>5. conn' = [conn EXCEPT ![c] = new] BY <1>1
  <2> HIDE DEF new
  <2> QED BY <1>1, <2>4, <2>5 DEF FrontType
<1>3. TasksAreSound'
  <2>1. Tasks' \in SUBSET Tasks BY <1>1 DEF Tasks, FrontType, ConnType, Idle
  <2>2. IsFiniteSet(Tasks') BY <2>1, FS_Subset DEF TasksAreSound
  <2> QED BY <1>1, <2>2 DEF TasksAreSound, FrontType, ConnType, Idle
<1>4. StoreIsBounded' /\ WindowsAreTrue' BY <1>1, StoreStays
<1>5. CASE ~got.ok
  <2>1. counts' = counts BY <1>1, <1>5 DEF TryAcquire
  <2>2. \A d \in Conns : conn'[d].guard = conn[d].guard /\ (conn[d].guard => conn'[d].ip = conn[d].ip)
    BY <1>1, <1>5 DEF FrontType, ConnType, Idle
  <2> QED BY <1>2, <1>3, <1>4, <2>1, <2>2, CountsStay
<1>6. CASE got.ok /\ a = NoAddress
  <2>1. counts' = counts BY <1>1, <1>6
  <2>2. \A d \in Conns : conn'[d].guard = conn[d].guard /\ (conn[d].guard => conn'[d].ip = conn[d].ip)
    BY <1>1, <1>6 DEF FrontType, ConnType, Idle
  <2> QED BY <1>2, <1>3, <1>4, <2>1, <2>2, CountsStay
<1>7. CASE got.ok /\ a # NoAddress
  <2> DEFINE n == IF a \in DOMAIN counts THEN counts[a] ELSE 0
  <2>1. a \in Addresses BY <1>7
  <2>2. /\ ConnCap = 0 \/ n < ConnCap
        /\ counts' = [b \in DOMAIN counts \cup {a} |-> IF b = a THEN n + 1 ELSE counts[b]]
    BY <1>1, <1>7 DEF TryAcquire
  <2>3. n = Cardinality(Holders(a)) /\ n \in Nat /\ ConnCap \in Nat
    BY <2>1, CountsAre, HoldersFinite, FrontAssumption
  <2>4. Holders(a)' = Holders(a) \cup {c} /\ c \notin Holders(a)
    BY <1>1, <1>7 DEF Holders, FrontType, ConnType
  <2>5. Cardinality(Holders(a)') = n + 1 BY <2>3, <2>4, HoldersFinite, FS_AddElement
  <2>6. \A b \in Addresses : b # a => Holders(b)' = Holders(b)
    BY <1>1, <1>7 DEF Holders, FrontType, ConnType
  <2> HIDE DEF n
  <2>7. ASSUME NEW b \in Addresses
        PROVE  /\ (b \in DOMAIN counts') = (Cardinality(Holders(b)') > 0)
               /\ Cardinality(Holders(b)') > 0 => counts'[b] = Cardinality(Holders(b)')
               /\ ConnCap > 0 => Cardinality(Holders(b)') <= ConnCap
    <3>1. CASE b = a BY <3>1, <2>2, <2>3, <2>5
    <3>2. CASE b # a
      <4>1. /\ (b \in DOMAIN counts) = (Cardinality(Holders(b)) > 0)
            /\ Cardinality(Holders(b)) > 0 => counts[b] = Cardinality(Holders(b))
            /\ ConnCap > 0 => Cardinality(Holders(b)) <= ConnCap
        BY CountsAre
      <4>2. (b \in DOMAIN counts') = (b \in DOMAIN counts) /\ (b \in DOMAIN counts => counts'[b] = counts[b])
        BY <2>2, <3>2
      <4> QED BY <2>6, <3>2, <4>1, <4>2
    <3> QED BY <3>1, <3>2
  <2>8. DOMAIN counts' \subseteq Addresses BY <2>1, <2>2, CountsAre
  <2>9. CountsAreLive' BY <2>7, <2>8 DEF CountsAreLive, Holders
  <2> QED BY <1>2, <1>3, <1>4, <2>9
<1> QED BY <1>5, <1>6, <1>7 DEF TryAcquire

\* A log-in of an address empties its window and nothing else.
LEMMA SuccessKeeps ==
  ASSUME FrontInv, NEW a \in Addresses, RecordSuccess(a), failed' = [failed EXCEPT ![a] = <<>>]
  PROVE  /\ entries' \in Seq([ip : Addresses, times : Seq(Nat)])
         /\ failed' \in [Addresses -> Seq(Nat)]
         /\ StoreIsBounded' /\ WindowsAreTrue'
<1> DEFINE E == [ip : Addresses, times : Seq(Nat)]
<1>1. /\ entries \in Seq(E) /\ failed \in [Addresses -> Seq(Nat)] /\ AuthCap \in Nat
  BY FrontAssumption DEF FrontInv, FrontType, ConnType
<1>2. DOMAIN entries = 1..Len(entries) /\ Len(entries) \in Nat BY <1>1
<1>3. \A i \in 1..Len(entries) : entries[i] \in E
  <2> HIDE DEF E
  <2> QED BY <1>1
<1>4. entries' = [i \in 1..Len(entries) |-> IF entries[i].ip = a THEN [entries[i] EXCEPT !.times = <<>>] ELSE entries[i]]
  BY <1>2 DEF RecordSuccess
<1>5. ASSUME NEW i \in 1..Len(entries)
      PROVE  /\ entries'[i] \in E /\ entries'[i].ip = entries[i].ip
             /\ entries'[i].ip = a => entries'[i].times = <<>>
             /\ entries'[i].ip # a => entries'[i].times = entries[i].times
  <2>1. entries[i] \in E BY <1>3
  <2>2. entries'[i] = IF entries[i].ip = a THEN [entries[i] EXCEPT !.times = <<>>] ELSE entries[i] BY <1>4
  <2>3. <<>> \in Seq(Nat) OBVIOUS
  <2>4. CASE entries[i].ip = a
    <3>1. entries'[i] = [ip |-> a, times |-> <<>>] BY <2>1, <2>2, <2>4
    <3> QED BY <2>3, <2>4, <3>1
  <2>5. CASE entries[i].ip # a BY <2>1, <2>2, <2>5
  <2> QED BY <2>4, <2>5
<1>6. entries' \in Seq(E) /\ Len(entries') = Len(entries) /\ DOMAIN entries' = 1..Len(entries)
  <2> HIDE DEF E
  <2>1. entries' \in [1..Len(entries) -> E] BY <1>4, <1>5
  <2> QED BY <1>2, <2>1
<1>7. failed' \in [Addresses -> Seq(Nat)] /\ \A b \in Addresses : b # a => failed'[b] = failed[b]
  BY <1>1
<1>8. StoreIsBounded'
  <2>1. \A i \in 1..Len(entries) : Len(entries'[i].times) <= AuthCap
    <3> HIDE DEF E
    <3>1. Len(<<>>) = 0 /\ 0 <= AuthCap BY <1>1
    <3>2. \A i \in 1..Len(entries) : Len(entries[i].times) <= AuthCap BY <1>2 DEF FrontInv, StoreIsBounded
    <3>3. \A i \in 1..Len(entries) : entries'[i].times = <<>> \/ entries'[i].times = entries[i].times BY <1>5
    <3> QED BY <3>1, <3>2, <3>3
  <2> QED BY <2>1, <1>2, <1>5, <1>6 DEF FrontInv, StoreIsBounded
<1>9. WindowsAreTrue'
  <2>1. ASSUME NEW i \in 1..Len(entries) PROVE Embeds(entries'[i].times, failed'[entries'[i].ip])
    <3>1. CASE entries'[i].ip = a
      <4>1. entries'[i].times = <<>> /\ Len(<<>>) = 0 BY <3>1, <1>5
      <4>2. [k \in {} |-> 0] \in [1..0 -> 1..Len(failed'[a])] OBVIOUS
      <4>3. Embeds(<<>>, failed'[a]) BY <4>1, <4>2 DEF Embeds
      <4> QED BY <3>1, <4>1, <4>3
    <3>2. CASE entries'[i].ip # a
      <4>1. entries[i].ip \in Addresses BY <1>3
      <4> QED BY <3>2, <4>1, <1>2, <1>5, <1>7 DEF FrontInv, WindowsAreTrue
    <3> QED BY <3>1, <3>2
  <2> QED BY <2>1, <1>6 DEF WindowsAreTrue
<1> QED BY <1>6, <1>7, <1>8, <1>9

\* Every step of the accept loop and of a task keeps the invariant.
LEMMA FrontStep == FrontInv /\ [NextFront]_frontVars => FrontInv'
<1> SUFFICES ASSUME FrontInv, [NextFront]_frontVars PROVE FrontInv' OBVIOUS
<1> USE DEF FrontInv
<1>1. ASSUME NEW c \in Conns, NEW a \in Addresses \cup {NoAddress}, Admit(c, a) PROVE FrontInv'
  <2>1. FrontInv' BY <1>1, AdmitKeeps DEF FrontInv
  <2> QED BY <2>1
<1>2. ASSUME NEW c \in Conns, Accept(c) PROVE FrontInv'
  <2>1. FrontType' BY <1>2 DEF Accept, FrontType, ConnType, Idle
  <2>2. TasksAreSound'
    <3>1. Tasks' = Tasks \cup {c} BY <1>2 DEF Accept, Tasks, FrontType, ConnType, Idle
    <3>2. IsFiniteSet(Tasks') BY <3>1, FS_AddElement DEF TasksAreSound
    <3> QED BY <1>2, <3>2 DEF TasksAreSound, Accept, FrontType, ConnType, Idle
  <2>3. CountsAreLive'
    <3>1. \A d \in Conns : conn'[d].guard = conn[d].guard /\ (conn[d].guard => conn'[d].ip = conn[d].ip)
      BY <1>2 DEF Accept, FrontType, ConnType, Idle
    <3> QED BY <1>2, <3>1, CountsStay DEF Accept
  <2>4. StoreIsBounded' /\ WindowsAreTrue' BY <1>2, StoreStays DEF Accept
  <2> QED BY <2>1, <2>2, <2>3, <2>4
\* A step of one task that moves neither its guard nor its address.
<1>3. ASSUME NEW c \in Conns, NEW s \in {"open", "authenticating", "failing"}, NEW t \in Nat,
             conn' = [conn EXCEPT ![c].st = s, ![c].at = t], conn[c].st \notin {"idle", "accepted"},
             s \in {"authenticating", "failing"} => conn[c].ip \in Addresses, counts' = counts
      PROVE  /\ conn' \in [Conns -> ConnType]
             /\ TasksAreSound' /\ CountsAreLive'
  <2>1. /\ conn \in [Conns -> ConnType]
        /\ conn' = [conn EXCEPT ![c] = [conn[c] EXCEPT !.st = s, !.at = t]]
    BY <1>3 DEF FrontType, ConnType
  <2>2. conn' \in [Conns -> ConnType]
    BY <2>1 DEF ConnType
  <2>3. /\ \A d \in Conns : conn'[d].guard = conn[d].guard /\ conn'[d].ip = conn[d].ip
        /\ \A d \in Conns : d # c => conn'[d] = conn[d]
        /\ conn'[c].st = s
    BY <2>1
  <2>4. TasksAreSound'
    <3>1. Tasks' = Tasks BY <1>3, <2>3 DEF Tasks
    <3> QED BY <1>3, <2>3, <3>1 DEF TasksAreSound
  <2>5. CountsAreLive' BY <1>3, <2>3, CountsStay
  <2> QED BY <2>2, <2>4, <2>5
<1>4. ASSUME NEW c \in Conns, Handshake(c) \/ HelloCheck(c) \/ HelloFails(c) PROVE FrontInv'
  <2>1. \E s \in {"open", "authenticating", "failing"}, t \in Nat :
          /\ conn' = [conn EXCEPT ![c].st = s, ![c].at = t]
          /\ s \in {"authenticating", "failing"} => conn[c].ip \in Addresses
    <3>1. conn[c] \in ConnType
      BY DEF FrontType, ConnType
    <3>2. \A s : [conn EXCEPT ![c].st = s] = [conn EXCEPT ![c].st = s, ![c].at = conn[c].at]
      BY <3>1 DEF FrontType, ConnType
    <3>3. CASE Handshake(c) BY <3>1, <3>2, <3>3 DEF Handshake, ConnType
    <3>4. CASE HelloCheck(c) BY <3>1, <3>2, <3>4 DEF HelloCheck, ConnType
    <3>5. CASE HelloFails(c) BY <3>5 DEF HelloFails, FrontType, ConnType, TasksAreSound
    <3> QED BY <1>4, <3>3, <3>4, <3>5
  <2>2. conn[c].st \notin {"idle", "accepted"} /\ UNCHANGED <<counts, entries, tick, failed>>
    BY <1>4 DEF Handshake, HelloCheck, HelloFails
  <2>3. StoreIsBounded' /\ WindowsAreTrue' BY <2>2, StoreStays
  <2>4. /\ conn' \in [Conns -> ConnType]
        /\ TasksAreSound' /\ CountsAreLive'
    BY <1>3, <2>1, <2>2
  <2>5. FrontType' BY <2>2, <2>4 DEF FrontType, ConnType
  <2> QED BY <2>3, <2>4, <2>5
<1>5. ASSUME NEW c \in Conns, RecordFails(c) PROVE FrontInv'
  <2>1. /\ conn[c].st = "failing" /\ conn[c].ip \in Addresses /\ conn[c].at \in Nat
        /\ conn' = [conn EXCEPT ![c].st = "open", ![c].at = 0] /\ UNCHANGED <<counts, tick>>
        /\ RecordFailure(conn[c].ip, conn[c].at)
        /\ failed' = [failed EXCEPT ![conn[c].ip] = Append(@, conn[c].at)]
    BY <1>5 DEF RecordFails, TasksAreSound, FrontType, ConnType
  <2>2. /\ entries' \in Seq([ip : Addresses, times : Seq(Nat)])
        /\ failed' \in [Addresses -> Seq(Nat)] /\ StoreIsBounded' /\ WindowsAreTrue'
    BY <2>1, RecordKeeps
  <2>3. /\ conn' \in [Conns -> ConnType]
        /\ TasksAreSound' /\ CountsAreLive'
    BY <1>3, <2>1
  <2>4. FrontType' BY <2>1, <2>2, <2>3 DEF FrontType, ConnType
  <2> QED BY <2>2, <2>3, <2>4
<1>6. ASSUME NEW c \in Conns, HelloSucceeds(c) PROVE FrontInv'
  <2>1. /\ conn[c].st = "authenticating" /\ conn[c].ip \in Addresses /\ conn[c].at \in Nat
        /\ conn' = [conn EXCEPT ![c].st = "open", ![c].at = conn[c].at] /\ UNCHANGED <<counts, tick>>
        /\ RecordSuccess(conn[c].ip)
        /\ failed' = [failed EXCEPT ![conn[c].ip] = <<>>]
    BY <1>6 DEF HelloSucceeds, TasksAreSound, FrontType, ConnType
  <2>2. /\ entries' \in Seq([ip : Addresses, times : Seq(Nat)])
        /\ failed' \in [Addresses -> Seq(Nat)] /\ StoreIsBounded' /\ WindowsAreTrue'
    BY <2>1, SuccessKeeps
  <2>3. /\ conn' \in [Conns -> ConnType]
        /\ TasksAreSound' /\ CountsAreLive'
    BY <1>3, <2>1
  <2>4. FrontType' BY <2>1, <2>2, <2>3 DEF FrontType, ConnType
  <2> QED BY <2>2, <2>3, <2>4
<1>7. ASSUME NEW cs \in SUBSET Conns, Release(cs), UNCHANGED <<entries, tick, failed>> PROVE FrontInv'
  <2>1. /\ conn' \in [Conns -> ConnType]
        /\ TasksAreSound' /\ CountsAreLive'
    BY <1>7, ReleaseKeeps
  <2>2. StoreIsBounded' /\ WindowsAreTrue' BY <1>7, StoreStays
  <2>3. FrontType' BY <1>7, <2>1 DEF FrontType, ConnType
  <2> QED BY <2>1, <2>2, <2>3
<1>8. ASSUME NEW c \in Conns, EndTask(c) PROVE FrontInv'
  BY <1>7, <1>8 DEF EndTask
<1>9. CASE Drain
  <2>1. Tasks \in SUBSET Conns BY DEF Tasks
  <2> QED BY <1>7, <1>9, <2>1 DEF Drain
<1>10. CASE Tick \/ SignalShutdown \/ StopAccepting \/ UNCHANGED frontVars
  <2>1. UNCHANGED <<conn, counts, entries, failed>> /\ tick' \in Nat
    BY <1>10 DEF Tick, SignalShutdown, StopAccepting, frontVars, FrontType, ConnType
  <2>2. FrontType' BY <2>1 DEF FrontType, ConnType
  <2>3. TasksAreSound' BY <2>1 DEF TasksAreSound, Tasks
  <2>4. CountsAreLive' BY <2>1 DEF CountsAreLive
  <2>5. StoreIsBounded' /\ WindowsAreTrue' BY <2>1, StoreStays
  <2> QED BY <2>2, <2>3, <2>4, <2>5
<1> HIDE DEF FrontInv
<1> QED BY <1>1, <1>2, <1>4, <1>5, <1>6, <1>8, <1>9, <1>10 DEF NextFront

\* A window that blocks holds AuthCap failures of its address within the window.
LEMMA FrontImplies == FrontInv => AddressesAreTreatedRight
<1> SUFFICES ASSUME FrontInv PROVE NoFalseLockout
  BY DEF FrontInv, AddressesAreTreatedRight
<1> SUFFICES ASSUME NEW a \in Addresses, NEW i \in EntryOf(a), WouldBlock(entries[i].times)
             PROVE  CountInWindow(tick, failed[a]) >= AuthCap
  BY DEF NoFalseLockout, IsAuthBlocked
<1> DEFINE E == [ip : Addresses, times : Seq(Nat)]
<1>1. /\ entries \in Seq(E) /\ tick \in Nat /\ failed[a] \in Seq(Nat) /\ AuthCap \in Nat
  BY FrontAssumption DEF FrontInv, FrontType, ConnType
<1>2. i \in DOMAIN entries /\ entries[i].ip = a BY DEF EntryOf
<1>3. entries[i] \in E
  <2> HIDE DEF E
  <2> QED BY <1>1, <1>2
<1>4. entries[i].times \in Seq(Nat) BY <1>3
<1>5. Embeds(entries[i].times, failed[a]) BY <1>2 DEF FrontInv, WindowsAreTrue
<1>6. /\ CountInWindow(tick, entries[i].times) \in Nat /\ CountInWindow(tick, failed[a]) \in Nat
      /\ CountInWindow(tick, entries[i].times) <= CountInWindow(tick, failed[a])
  BY <1>1, <1>4, <1>5, EmbedsCount
<1>7. CountInWindow(tick, entries[i].times) >= AuthCap BY DEF WouldBlock
<1> QED BY <1>1, <1>6, <1>7

\* For any connections, addresses and caps: an address is counted once per live
\* connection that holds its guard and never above the cap, however connections
\* end (listener.rs, ConnectionGuard::drop); it is refused only after AuthCap
\* failures of its own within the window since its last success, although
\* failures are recorded out of order and windows are evicted; and the store of
\* windows keeps its bounds (rate_limiter.rs).
THEOREM AddressesHold == SpecFront => []AddressesAreTreatedRight
<1>1. SpecFront => []FrontInv BY FrontStarts, FrontStep, PTL DEF SpecFront
<1> QED BY <1>1, FrontImplies, PTL

-----------------------------------------------------------------------------
(* The rate of queries.                                                    *)

\* Multiplication distributes.
LEMMA TimesAdds ==
  ASSUME NEW x \in Int, NEW y \in Int, NEW z \in Int
  PROVE  (x + y) * z = x * z + y * z /\ (x - y) * z = x * z - y * z
OBVIOUS

\* Multiplication keeps the order.
LEMMA TimesGrows ==
  ASSUME NEW x \in Int, NEW y \in Int, NEW z \in Nat, x <= y
  PROVE  x * z <= y * z
OBVIOUS

\* Integer division between its bounds.
LEMMA DivBounds ==
  ASSUME NEW x \in Nat, NEW y \in Nat \ {0}
  PROVE  x \div y \in Nat /\ (x \div y) * y <= x /\ x < (x \div y) * y + y
OBVIOUS

\* The lesser of two numbers.
LEMMA MinOfTwo ==
  ASSUME NEW x \in Int, NEW y \in Int
  PROVE  Min({x, y}) = IF x <= y THEN x ELSE y
BY DEF Min

\* x queries and t tokens are within the burst and the time from g to k.
Within(x, t, k, g) == (x + t) * Period < (2 * Rate + 1) * Period + (k - g) * Rate

\* The tokens of the bucket and the queries since the i-th one are never more
\* than the burst, what the time to the last refill has earned, and a part of
\* a token.
QueryInv ==
  /\ now \in Nat /\ grants \in Seq(Nat)
  /\ queryBucket \in [tokens : 0..(2 * Rate), last : Nat \cup {Unset}]
  /\ queryBucket.last <= now
  /\ \A i \in DOMAIN grants : grants[i] <= now
  /\ queryBucket.last = Unset => grants = <<>>
  /\ \A i \in DOMAIN grants :
       Within(Len(grants) - i + 1, queryBucket.tokens, queryBucket.last, grants[i])
  /\ QueriesWithinRate

\* What a refill does to the bucket.
LEMMA RefillEarns ==
  ASSUME now \in Nat, NEW q \in [tokens : 0..(2 * Rate), last : Nat \cup {Unset}], q.last <= now,
         NEW b, b = Refill(q)
  PROVE  /\ b \in [tokens : 0..(2 * Rate), last : Nat]
         /\ b.last <= now
         /\ (now - b.last) * Rate < Period
         /\ q.last # Unset => (b.tokens - q.tokens) * Period <= (b.last - q.last) * Rate
         /\ q.last = Unset => b.tokens = q.tokens
<1> DEFINE earned == ((now - q.last) * Rate) \div Period
<1>0. /\ Rate \in Nat \ {0} /\ Period \in Nat \ {0} /\ now \in Nat
      /\ q \in [tokens : 0..(2 * Rate), last : Nat \cup {Unset}] /\ q.last <= now
      /\ q.tokens \in 0..(2 * Rate)
  BY ThrottleAssumption
<1>1. b = IF q.last = Unset THEN [q EXCEPT !.last = now]
          ELSE IF earned = 0 THEN q
          ELSE [tokens |-> Min({q.tokens + earned, 2 * Rate}), last |-> now]
  BY DEF Refill
<1>2. (now - now) * Rate = 0 /\ 0 < Period BY <1>0
<1>3. CASE q.last = Unset
  <2>1. b = [tokens |-> q.tokens, last |-> now] BY <1>0, <1>1, <1>3
  <2> QED BY <1>0, <1>2, <1>3, <2>1
<1>4. CASE q.last # Unset
  <2>1. q.last \in Nat /\ now - q.last \in Nat BY <1>0, <1>4
  <2>2. (now - q.last) * Rate \in Nat BY <1>0, <2>1
  <2>3. /\ earned \in Nat /\ earned * Period <= (now - q.last) * Rate
        /\ (now - q.last) * Rate < earned * Period + Period
    BY <1>0, <2>2, DivBounds
  <2> HIDE DEF earned
  <2>4. CASE earned = 0
    <3>1. b = q BY <1>1, <1>4, <2>4
    <3>2. 0 * Period = 0 /\ (q.tokens - q.tokens) * Period = 0 /\ (q.last - q.last) * Rate = 0 BY <1>0, <2>1
    <3>3. (now - q.last) * Rate < Period BY <2>3, <2>4, <3>2, <1>0
    <3> QED BY <1>0, <2>1, <3>1, <3>2, <3>3
  <2>5. CASE earned # 0
    <3> DEFINE m == IF q.tokens + earned <= 2 * Rate THEN q.tokens + earned ELSE 2 * Rate
    <3>1. b = [tokens |-> m, last |-> now]
      <4>1. q.tokens + earned \in Int /\ 2 * Rate \in Int BY <1>0, <2>3
      <4>2. Min({q.tokens + earned, 2 * Rate}) = m BY <4>1, MinOfTwo
      <4> HIDE DEF m
      <4> QED BY <1>1, <1>4, <2>5, <4>2
    <3>2. m \in 0..(2 * Rate) /\ m - q.tokens <= earned /\ m - q.tokens \in Int BY <1>0, <2>3
    <3> HIDE DEF m
    <3>3. (m - q.tokens) * Period <= earned * Period BY <1>0, <2>3, <3>2, TimesGrows
    <3>4. (m - q.tokens) * Period <= (now - q.last) * Rate
      <4>1. (m - q.tokens) * Period \in Int /\ earned * Period \in Int /\ (now - q.last) * Rate \in Int BY <1>0, <2>1, <2>3, <3>2
      <4> QED BY <2>3, <3>3, <4>1
    <3>5. b.tokens = m /\ b.last = now /\ b \in [tokens : 0..(2 * Rate), last : Nat] BY <1>0, <3>1, <3>2
    <3> QED BY <1>0, <1>2, <1>4, <3>4, <3>5
  <2> QED BY <2>4, <2>5
<1> QED BY <1>3, <1>4

\* What time earns keeps the balance.
LEMMA WithinEarned ==
  ASSUME NEW x \in Int, NEW t \in Int, NEW k \in Int, NEW g \in Int, Within(x, t, k, g),
         NEW u \in Int, NEW m \in Int, (u - t) * Period <= (m - k) * Rate
  PROVE  Within(x, u, m, g)
<1>0. Rate \in Nat \ {0} /\ Period \in Nat \ {0} BY ThrottleAssumption
<1>1. (x + u) * Period = (x + t) * Period + (u - t) * Period
  <2>1. x + t \in Int /\ u - t \in Int /\ x + u = (x + t) + (u - t) OBVIOUS
  <2> QED BY <1>0, <2>1, TimesAdds
<1>2. (m - g) * Rate = (k - g) * Rate + (m - k) * Rate
  <2>1. k - g \in Int /\ m - k \in Int /\ m - g = (k - g) + (m - k) OBVIOUS
  <2> QED BY <1>0, <2>1, TimesAdds
<1>3. /\ (x + t) * Period \in Int /\ (u - t) * Period \in Int
      /\ (k - g) * Rate \in Int /\ (m - k) * Rate \in Int /\ (2 * Rate + 1) * Period \in Int
  BY <1>0
<1> QED BY <1>1, <1>2, <1>3 DEF Within

\* A later time and fewer tokens, too.
LEMMA WithinLater ==
  ASSUME NEW x \in Int, NEW t \in Int, NEW k \in Int, NEW g \in Int, Within(x, t, k, g),
         NEW y \in Int, NEW m \in Int, y <= x + t, k <= m
  PROVE  y * Period < (2 * Rate + 1) * Period + (m - g) * Rate
<1>0. Rate \in Nat \ {0} /\ Period \in Nat \ {0} BY ThrottleAssumption
<1>1. y * Period <= (x + t) * Period BY <1>0, TimesGrows
<1>2. (k - g) * Rate <= (m - g) * Rate BY <1>0, TimesGrows
<1>3. /\ y * Period \in Int /\ (x + t) * Period \in Int
      /\ (k - g) * Rate \in Int /\ (m - g) * Rate \in Int /\ (2 * Rate + 1) * Period \in Int
  BY <1>0
<1> QED BY <1>1, <1>2, <1>3 DEF Within

\* A query let through or refused.
LEMMA QueryStep ==
  ASSUME QueryInv, RunQuery
  PROVE  QueryInv'
<1> DEFINE n == Len(grants)
<1>0. /\ Rate \in Nat \ {0} /\ Period \in Nat \ {0} /\ now \in Nat
      /\ grants \in Seq(Nat) /\ n \in Nat /\ DOMAIN grants = 1..n
  BY ThrottleAssumption DEF QueryInv
<1>1. PICK T \in 0..(2 * Rate), L \in Nat \cup {Unset} : queryBucket = [tokens |-> T, last |-> L]
  BY DEF QueryInv
<1>2. PICK t \in 0..(2 * Rate), k \in Nat :
        /\ Refill(queryBucket) = [tokens |-> t, last |-> k] /\ k <= now
        /\ (now - k) * Rate < Period
        /\ L # Unset => (t - T) * Period <= (k - L) * Rate
  <2>1. /\ queryBucket \in [tokens : 0..(2 * Rate), last : Nat \cup {Unset}] /\ queryBucket.last <= now
        /\ queryBucket.tokens = T /\ queryBucket.last = L
    BY <1>1 DEF QueryInv
  <2>2. PICK b \in [tokens : 0..(2 * Rate), last : Nat] :
          /\ b = Refill(queryBucket) /\ b.last <= now /\ (now - b.last) * Rate < Period
          /\ L # Unset => (b.tokens - T) * Period <= (b.last - L) * Rate
    BY <1>0, <2>1, RefillEarns
  <2>3. b = [tokens |-> b.tokens, last |-> b.last] /\ b.tokens \in 0..(2 * Rate) /\ b.last \in Nat OBVIOUS
  <2> QED BY <2>2, <2>3
<1>3. /\ queryBucket' = [tokens |-> IF t >= 1 THEN t - 1 ELSE t, last |-> k]
      /\ grants' = IF t >= 1 THEN Append(grants, now) ELSE grants
      /\ now' = now
  BY <1>2 DEF RunQuery
<1>4. /\ \A i \in 1..n : grants[i] \in Nat /\ grants[i] <= now
      /\ L = Unset => grants = <<>>
      /\ \A i \in 1..n : Within(n - i + 1, T, L, grants[i])
  <2>1. queryBucket.tokens = T /\ queryBucket.last = L BY <1>1
  <2>2. \A i \in 1..n : grants[i] \in Nat BY <1>0
  <2> QED BY <1>0, <2>1, <2>2 DEF QueryInv
<1>5. t \in Nat /\ T \in Nat /\ t <= 2 * Rate BY <1>0
<1>6. n > 0 => L \in Nat /\ L # Unset BY <1>0, <1>4 DEF Unset
<1> HIDE DEF n
\* After the refill the balance of every earlier query holds.
<1>7. ASSUME NEW i \in 1..n PROVE Within(n - i + 1, t, k, grants[i])
  <2>1. L \in Nat /\ (t - T) * Period <= (k - L) * Rate BY <1>0, <1>2, <1>6
  <2>2. n - i + 1 \in Int BY <1>0
  <2>3. Within(n - i + 1, T, L, grants[i]) BY <1>4
  <2>4. grants[i] \in Int /\ T \in Int /\ t \in Int /\ k \in Int /\ L \in Int BY <1>4, <1>5, <2>1
  <2> QED BY <2>1, <2>2, <2>3, <2>4, WithinEarned
\* And that of a query let through now.
<1>8. Within(0, t, k, now)
  <2>1. t * Period <= (2 * Rate) * Period BY <1>0, <1>5, TimesGrows
  <2>2. (2 * Rate + 1) * Period = (2 * Rate) * Period + Period BY <1>0, TimesAdds
  <2>3. (k - now) * Rate = 0 - (now - k) * Rate BY <1>0
  <2>4. t * Period \in Int /\ (2 * Rate) * Period \in Int /\ (now - k) * Rate \in Int /\ 0 + t = t BY <1>0, <1>5
  <2> QED BY <1>0, <1>2, <2>1, <2>2, <2>3, <2>4 DEF Within
<1>9. CASE ~(t >= 1)
  <2>1. queryBucket' = [tokens |-> t, last |-> k] /\ grants' = grants /\ now' = now BY <1>3, <1>9
  <2>2. QueriesWithinRate' BY <2>1 DEF QueryInv, QueriesWithinRate
  <2>3. \A i \in DOMAIN grants : Within(Len(grants) - i + 1, t, k, grants[i])
    BY <1>0, <1>7 DEF n
  <2>4. queryBucket' \in [tokens : 0..(2 * Rate), last : Nat \cup {Unset}] /\ queryBucket'.last = k
        /\ queryBucket'.tokens = t /\ k # Unset
    BY <2>1 DEF Unset
  <2>5. now' \in Nat /\ grants' \in Seq(Nat) /\ queryBucket'.last <= now'
        /\ \A i \in DOMAIN grants' : grants'[i] <= now'
    BY <1>0, <1>2, <1>4, <2>1, <2>4
  <2> QED BY <2>1, <2>2, <2>3, <2>4, <2>5 DEF QueryInv
<1>10. CASE t >= 1
  <2> DEFINE g == Append(grants, now)
  <2>1. queryBucket' = [tokens |-> t - 1, last |-> k] /\ grants' = g /\ now' = now BY <1>3, <1>10
  <2>2. /\ g \in Seq(Nat) /\ Len(g) = n + 1 /\ DOMAIN g = 1..(n + 1)
        /\ \A i \in 1..n : g[i] = grants[i]
        /\ g[n + 1] = now
    BY <1>0 DEF n
  <2>3. /\ queryBucket' \in [tokens : 0..(2 * Rate), last : Nat \cup {Unset}]
        /\ queryBucket'.tokens = t - 1 /\ queryBucket'.last = k /\ k # Unset
    <3>1. t - 1 \in 0..(2 * Rate) BY <1>0, <1>5, <1>10
    <3> QED BY <2>1, <3>1 DEF Unset
  <2> HIDE DEF g
  <2>4. \A i \in 1..(n + 1) : i \in 1..n \/ i = n + 1 BY <1>0
  <2>5. ASSUME NEW i \in 1..(n + 1) PROVE g[i] \in Nat /\ g[i] <= now
    <3>1. CASE i \in 1..n BY <1>4, <2>2, <3>1
    <3>2. CASE i = n + 1 BY <1>0, <2>2, <3>2
    <3> QED BY <2>4, <3>1, <3>2
  <2>6. ASSUME NEW i \in 1..(n + 1) PROVE Within(n + 1 - i + 1, t - 1, k, g[i])
    <3>1. CASE i \in 1..n
      <4>1. n + 1 - i + 1 + (t - 1) = n - i + 1 + t BY <1>0, <1>5
      <4> QED BY <1>7, <2>2, <3>1, <4>1 DEF Within
    <3>2. CASE i = n + 1
      <4>1. n + 1 - i + 1 + (t - 1) = 0 + t BY <1>0, <1>5, <3>2
      <4> QED BY <1>8, <2>2, <3>2, <4>1 DEF Within
    <3> QED BY <2>4, <3>1, <3>2
  <2>7. ASSUME NEW i \in 1..(n + 1), NEW j \in 1..(n + 1), i <= j
        PROVE  (j - i + 1) * Period < (2 * Rate + 1) * Period + (g[j] - g[i]) * Rate
    <3>1. CASE j \in 1..n
      <4>1. i \in 1..n BY <1>0, <2>7, <3>1
      <4>2. (j - i + 1) * Period < (2 * Rate + 1) * Period + (grants[j] - grants[i]) * Rate
        BY <1>0, <2>7, <3>1, <4>1 DEF QueryInv, QueriesWithinRate
      <4>3. g[i] = grants[i] /\ g[j] = grants[j] BY <2>2, <3>1, <4>1
      <4> QED BY <4>2, <4>3
    <3>2. CASE j = n + 1
      <4>1. /\ j - i + 1 \in Int /\ n + 1 - i + 1 \in Int /\ t - 1 \in Int /\ k \in Int
            /\ j - i + 1 <= n + 1 - i + 1 + (t - 1)
        BY <1>0, <1>5, <1>10, <3>2
      <4>2. g[j] = now /\ k <= g[j] /\ g[j] \in Int /\ g[i] \in Int BY <1>0, <1>2, <2>2, <2>5, <3>2
      <4> QED BY <2>6, <4>1, <4>2, WithinLater
    <3> QED BY <2>4, <3>1, <3>2
  <2>8. QueriesWithinRate' BY <2>1, <2>2, <2>7 DEF QueriesWithinRate
  <2>9. \A i \in DOMAIN g : Within(Len(g) - i + 1, t - 1, k, g[i])
    <3>1. Len(g) = n + 1 /\ DOMAIN g = 1..(n + 1) BY <2>2
    <3>2. ASSUME NEW i \in DOMAIN g PROVE Within(Len(g) - i + 1, t - 1, k, g[i])
      <4>1. i \in 1..(n + 1) BY <3>1, <3>2
      <4>2. Within(n + 1 - i + 1, t - 1, k, g[i]) BY <2>6, <4>1
      <4>3. Len(g) - i + 1 = n + 1 - i + 1 BY <1>0, <3>1, <4>1
      <4> QED BY <4>2, <4>3
    <3> QED BY <3>2
  <2>10. now' \in Nat /\ grants' \in Seq(Nat) /\ queryBucket'.last <= now'
         /\ \A i \in DOMAIN grants' : grants'[i] <= now'
    BY <1>0, <1>2, <2>1, <2>2, <2>3, <2>5
  <2> QED BY <2>1, <2>3, <2>8, <2>9, <2>10 DEF QueryInv
<1> QED BY <1>9, <1>10

\* However queries and time interleave, and whatever the rate: no stretch of
\* the queries let through exceeds the burst and what its time earns.
THEOREM QueriesHold == SpecThrottle => []QueriesWithinRate
<1>1. InitThrottle => QueryInv
  <2> SUFFICES ASSUME InitThrottle PROVE QueryInv OBVIOUS
  <2>1. DOMAIN grants = {} /\ grants \in Seq(Nat) /\ grants = <<>> BY DEF InitThrottle
  <2>2. queryBucket \in [tokens : 0..(2 * Rate), last : Nat \cup {Unset}] /\ queryBucket.last <= now /\ now \in Nat
    BY ThrottleAssumption DEF InitThrottle, NewBucket, Unset
  <2> QED BY <2>1, <2>2 DEF QueryInv, QueriesWithinRate
<1>2. QueryInv /\ [NextQueries \/ NextBytes]_throttleVars => QueryInv'
  <2> SUFFICES ASSUME QueryInv, [NextQueries \/ NextBytes]_throttleVars PROVE QueryInv' OBVIOUS
  <2>1. CASE RunQuery BY <2>1, QueryStep
  <2>2. CASE Pass
    <3>1. now' = now + 1 /\ UNCHANGED <<queryBucket, grants>> BY <2>2 DEF Pass
    <3>2. now \in Nat /\ grants \in Seq(Nat)
          /\ queryBucket \in [tokens : 0..(2 * Rate), last : Nat \cup {Unset}]
      BY DEF QueryInv
    <3>3. now' \in Nat /\ queryBucket.last <= now' /\ \A i \in DOMAIN grants : grants[i] <= now'
      BY <3>1, <3>2 DEF QueryInv, Unset
    <3>4. QueriesWithinRate' BY <3>1 DEF QueryInv, QueriesWithinRate
    <3> QED BY <3>1, <3>3, <3>4 DEF QueryInv
  <2>3. CASE UNCHANGED <<now, queryBucket, grants>>
    BY <2>3 DEF QueryInv, QueriesWithinRate
  <2>4. NextBytes => Pass \/ UNCHANGED <<now, queryBucket, grants>>
    BY DEF NextBytes, BeginIo, Reserve, Transfer
  <2> QED BY <2>1, <2>2, <2>3, <2>4 DEF NextQueries, throttleVars
<1>3. QueryInv => QueriesWithinRate BY DEF QueryInv
<1> QED BY <1>1, <1>2, <1>3, PTL DEF SpecThrottle

-----------------------------------------------------------------------------
(* The rate of bytes.                                                      *)

\* Of a direction: what it has charged and not yet passed, a transfer that has
\* charged nothing yet, and when the sleeps of its transfers are over.
Held(f) == IF f.reserved THEN f.size ELSE 0
Begun(f) == IF f.size > 0 /\ ~f.reserved THEN 1 ELSE 0
AwakeAt(f, t) == IF f.wake > t THEN f.wake ELSE t

\* What the bucket has earned until its last refill, what was earned a second
\* time during the sleeps, and a time step for each division.
Clock(b) == IF b.last = Unset THEN 0 ELSE b.last
Earned(b, r, w, t, n) == Clock(b) + AwakeAt(r, t) + AwakeAt(w, t) + (n - Begun(r) - Begun(w))

\* x bytes and tokens are within the burst and m time steps.
Covered(x, m) == x * Period <= (2 * Rate) * Period + m * Rate

\* x bytes are earned in m time steps; a sleep is no longer than the bytes it
\* waits for are worth.
Earns(x, m) == x * Period <= m * Rate
SleepIsPaid(f, t) == (AwakeAt(f, t) - t) * Rate <= Held(f) * Period

Buckets == [tokens : 0..(2 * Rate), last : Nat \cup {Unset}]
Directions == [size : Nat, reserved : BOOLEAN, wake : Nat \cup {Unset}]

\* The bytes charged and the tokens left are covered, and no more passes than was
\* charged.
ByteInv ==
  /\ now \in Nat /\ passed \in Nat /\ asked \in Nat /\ charged \in Nat /\ ios \in Nat
  /\ byteBucket \in Buckets /\ byteBucket.last <= now
  /\ half \in [Halves -> Directions]
  /\ \A h \in Halves : ~half[h].reserved => half[h].wake = Unset
  /\ \A h \in Halves : SleepIsPaid(half[h], now)
  /\ ChargedOnce
  /\ passed + Held(half["read"]) + Held(half["write"]) <= charged
  /\ Covered(charged + byteBucket.tokens, Earned(byteBucket, half["read"], half["write"], now, ios))

\* More bytes and tokens are covered by the time that earns them.
LEMMA CoveredMore ==
  ASSUME NEW x \in Int, NEW y \in Int, NEW m \in Int, NEW n \in Int, Covered(x, m),
         Earns(y - x, n - m)
  PROVE  Covered(y, n)
<1>0. Rate \in Nat \ {0} /\ Period \in Nat \ {0} BY ThrottleAssumption
<1>1. y * Period = x * Period + (y - x) * Period
  <2>1. y - x \in Int /\ y = x + (y - x) OBVIOUS
  <2> QED BY <1>0, <2>1, TimesAdds
<1>2. n * Rate = m * Rate + (n - m) * Rate
  <2>1. n - m \in Int /\ n = m + (n - m) OBVIOUS
  <2> QED BY <1>0, <2>1, TimesAdds
<1>3. /\ x * Period \in Int /\ (y - x) * Period \in Int /\ m * Rate \in Int /\ (n - m) * Rate \in Int
      /\ (2 * Rate) * Period \in Int
  BY <1>0
<1> QED BY <1>1, <1>2, <1>3 DEF Covered, Earns

\* Time alone covers more.
LEMMA CoveredLater ==
  ASSUME NEW x \in Int, NEW m \in Int, NEW n \in Int, Covered(x, m), m <= n
  PROVE  Covered(x, n)
<1>0. Rate \in Nat \ {0} /\ Period \in Nat \ {0} BY ThrottleAssumption
<1>1. (x - x) * Period = 0 /\ 0 * Rate = 0 BY <1>0
<1>2. 0 * Rate <= (n - m) * Rate
  <2>1. 0 \in Int /\ n - m \in Int /\ 0 <= n - m /\ Rate \in Nat BY <1>0
  <2> QED BY <2>1, TimesGrows
<1>3. Earns(x - x, n - m) BY <1>1, <1>2 DEF Earns
<1> QED BY <1>3, CoveredMore

\* What a direction adds to the sums.
LEMMA DirectionIs ==
  ASSUME NEW f \in Directions, NEW t \in Nat
  PROVE  /\ f.size \in Nat /\ f.reserved \in BOOLEAN /\ f.wake \in Int
         /\ Held(f) \in Nat /\ Uncharged(f) \in Nat /\ Begun(f) \in {0, 1}
         /\ AwakeAt(f, t) \in Nat /\ t <= AwakeAt(f, t)
         /\ Held(f) + Uncharged(f) = f.size
         /\ f.reserved => Uncharged(f) = 0 /\ Begun(f) = 0
         /\ ~f.reserved => Held(f) = 0
         /\ f.wake = Unset => AwakeAt(f, t) = t
BY DEF Directions, Held, Uncharged, Begun, AwakeAt, Unset

\* Out of the invariant.
LEMMA ByteFacts ==
  ASSUME ByteInv, NEW r, NEW w, r = half["read"], w = half["write"]
  PROVE  /\ r \in Directions /\ w \in Directions
         /\ now \in Nat /\ passed \in Nat /\ asked \in Nat /\ charged \in Nat /\ ios \in Nat
         /\ byteBucket.tokens \in Nat /\ byteBucket.last \in Int /\ Clock(byteBucket) \in Nat
         /\ Clock(byteBucket) <= now
         /\ Earned(byteBucket, r, w, now, ios) \in Int
<1>1. r \in Directions /\ w \in Directions BY DEF ByteInv, Halves
<1>2. /\ now \in Nat /\ passed \in Nat /\ asked \in Nat /\ charged \in Nat /\ ios \in Nat
      /\ byteBucket \in Buckets /\ byteBucket.last <= now
  BY DEF ByteInv
<1>3. /\ byteBucket.tokens \in Nat /\ byteBucket.last \in Int /\ Clock(byteBucket) \in Nat
      /\ Clock(byteBucket) <= now
  BY <1>2, ThrottleAssumption DEF Buckets, Clock, Unset
<1>4. /\ AwakeAt(r, now) \in Nat /\ AwakeAt(w, now) \in Nat /\ Begun(r) \in {0, 1} /\ Begun(w) \in {0, 1}
  BY <1>1, <1>2, DirectionIs
<1>5. Earned(byteBucket, r, w, now, ios) \in Int BY <1>2, <1>3, <1>4 DEF Earned
<1> QED BY <1>1, <1>2, <1>3, <1>5

\* One direction changes, the balance with it.
LEMMA DirectionKeeps ==
  ASSUME ByteInv, NEW h \in Halves, NEW f \in Directions, half' = [half EXCEPT ![h] = f], now' = now,
         byteBucket' \in Buckets, byteBucket'.last <= now,
         passed' \in Nat, asked' \in Nat, charged' \in Nat, ios' \in Nat,
         ~f.reserved => f.wake = Unset, SleepIsPaid(f, now),
         charged' + Uncharged(f) - asked' = charged + Uncharged(half[h]) - asked,
         passed' + Held(f) - charged' <= passed + Held(half[h]) - charged,
         Earns((charged' + byteBucket'.tokens) - (charged + byteBucket.tokens),
               Clock(byteBucket') - Clock(byteBucket) + AwakeAt(f, now) - AwakeAt(half[h], now)
                 + (ios' - ios) - Begun(f) + Begun(half[h]))
  PROVE  ByteInv'
<1> DEFINE r == half["read"]
<1> DEFINE w == half["write"]
<1> DEFINE m == Earned(byteBucket, r, w, now, ios)
<1>0. /\ r \in Directions /\ w \in Directions
      /\ now \in Nat /\ passed \in Nat /\ asked \in Nat /\ charged \in Nat /\ ios \in Nat
      /\ byteBucket.tokens \in Nat /\ byteBucket.last \in Int /\ Clock(byteBucket) \in Nat
      /\ m \in Int
  BY ByteFacts
<1>1. /\ AwakeAt(r, now) \in Nat /\ AwakeAt(w, now) \in Nat /\ Begun(r) \in {0, 1} /\ Begun(w) \in {0, 1}
      /\ Held(r) \in Nat /\ Held(w) \in Nat /\ Uncharged(r) \in Nat /\ Uncharged(w) \in Nat
      /\ AwakeAt(f, now) \in Nat /\ Begun(f) \in {0, 1} /\ Held(f) \in Nat /\ Uncharged(f) \in Nat
  BY <1>0, DirectionIs
<1>2. byteBucket'.tokens \in Nat /\ Clock(byteBucket') \in Nat
  BY ThrottleAssumption DEF Buckets, Clock, Unset
<1>3. /\ half' \in [Halves -> Directions]
      /\ h = "read" => half'["read"] = f /\ half'["write"] = w
      /\ h = "write" => half'["write"] = f /\ half'["read"] = r
      /\ h \in {"read", "write"}
  BY DEF ByteInv, Halves
<1>4. \A g \in Halves : half'[g] = IF g = h THEN f ELSE half[g] BY DEF ByteInv
<1>5. \A g \in Halves : ~half'[g].reserved => half'[g].wake = Unset BY <1>4 DEF ByteInv
<1>6. \A g \in Halves : SleepIsPaid(half'[g], now')
  BY <1>4 DEF ByteInv
<1>7. /\ charged + Uncharged(r) + Uncharged(w) = asked
      /\ passed + Held(r) + Held(w) <= charged
      /\ Covered(charged + byteBucket.tokens, m)
  BY DEF ByteInv, ChargedOnce
<1> DEFINE x == charged + byteBucket.tokens
<1> DEFINE y == charged' + byteBucket'.tokens
<1> DEFINE d == Clock(byteBucket') - Clock(byteBucket) + AwakeAt(f, now) - AwakeAt(half[h], now)
                 + (ios' - ios) - Begun(f) + Begun(half[h])
<1> DEFINE n == Earned(byteBucket', half'["read"], half'["write"], now', ios')
<1>8. x \in Int /\ y \in Int BY <1>0, <1>2
<1>9. d \in Int /\ n \in Int /\ n - m = d
  <2>1. CASE h = "read"
    <3>1. n = Clock(byteBucket') + AwakeAt(f, now) + AwakeAt(w, now) + (ios' - Begun(f) - Begun(w))
      BY <1>3, <2>1 DEF Earned
    <3>2. m = Clock(byteBucket) + AwakeAt(r, now) + AwakeAt(w, now) + (ios - Begun(r) - Begun(w))
      BY DEF Earned
    <3>3. d = Clock(byteBucket') - Clock(byteBucket) + AwakeAt(f, now) - AwakeAt(r, now)
                + (ios' - ios) - Begun(f) + Begun(r)
      BY <2>1
    <3> HIDE DEF n, m, d, r, w
    <3> QED BY <1>0, <1>1, <1>2, <3>1, <3>2, <3>3
  <2>2. CASE h = "write"
    <3>1. n = Clock(byteBucket') + AwakeAt(r, now) + AwakeAt(f, now) + (ios' - Begun(r) - Begun(f))
      BY <1>3, <2>2 DEF Earned
    <3>2. m = Clock(byteBucket) + AwakeAt(r, now) + AwakeAt(w, now) + (ios - Begun(r) - Begun(w))
      BY DEF Earned
    <3>3. d = Clock(byteBucket') - Clock(byteBucket) + AwakeAt(f, now) - AwakeAt(w, now)
                + (ios' - ios) - Begun(f) + Begun(w)
      BY <2>2
    <3> HIDE DEF n, m, d, r, w
    <3> QED BY <1>0, <1>1, <1>2, <3>1, <3>2, <3>3
  <2> QED BY <1>3, <2>1, <2>2
<1>10. Earns(y - x, d) OBVIOUS
<1> HIDE DEF m, n, d, x, y
<1>11. Covered(y, n)
  <2>1. Earns(y - x, n - m) BY <1>9, <1>10
  <2> QED BY <1>0, <1>7, <1>8, <1>9, <2>1, CoveredMore DEF x
<1>12. ChargedOnce'
  <2>1. CASE h = "read"
    <3>1. charged' + Uncharged(f) - asked' = charged + Uncharged(r) - asked BY <2>1
    <3>2. charged' + Uncharged(f) + Uncharged(w) = asked'
      <4>1. charged + Uncharged(r) + Uncharged(w) = asked BY <1>7
      <4>2. /\ charged \in Nat /\ asked \in Nat
            /\ Uncharged(r) \in Nat /\ Uncharged(w) \in Nat /\ Uncharged(f) \in Nat
        BY <1>0, <1>1
      <4> HIDE DEF r, w
      <4> QED BY <3>1, <4>1, <4>2
    <3> QED BY <1>3, <2>1, <3>2 DEF ChargedOnce
  <2>2. CASE h = "write"
    <3>1. charged' + Uncharged(f) - asked' = charged + Uncharged(w) - asked BY <2>2
    <3>2. charged' + Uncharged(r) + Uncharged(f) = asked'
      <4>1. charged + Uncharged(r) + Uncharged(w) = asked BY <1>7
      <4>2. /\ charged \in Nat /\ asked \in Nat
            /\ Uncharged(r) \in Nat /\ Uncharged(w) \in Nat /\ Uncharged(f) \in Nat
        BY <1>0, <1>1
      <4> HIDE DEF r, w
      <4> QED BY <3>1, <4>1, <4>2
    <3> QED BY <1>3, <2>2, <3>2 DEF ChargedOnce
  <2> QED BY <1>3, <2>1, <2>2
<1>13. passed' + Held(half'["read"]) + Held(half'["write"]) <= charged'
  <2>1. CASE h = "read"
    <3>1. passed' + Held(f) - charged' <= passed + Held(r) - charged BY <2>1
    <3>2. passed' + Held(f) + Held(w) <= charged'
      <4>1. passed + Held(r) + Held(w) <= charged BY <1>7
      <4>2. /\ charged \in Nat /\ passed \in Nat
            /\ Held(r) \in Nat /\ Held(w) \in Nat /\ Held(f) \in Nat
        BY <1>0, <1>1
      <4> HIDE DEF r, w
      <4> QED BY <3>1, <4>1, <4>2
    <3> QED BY <1>3, <2>1, <3>2
  <2>2. CASE h = "write"
    <3>1. passed' + Held(f) - charged' <= passed + Held(w) - charged BY <2>2
    <3>2. passed' + Held(r) + Held(f) <= charged'
      <4>1. passed + Held(r) + Held(w) <= charged BY <1>7
      <4>2. /\ charged \in Nat /\ passed \in Nat
            /\ Held(r) \in Nat /\ Held(w) \in Nat /\ Held(f) \in Nat
        BY <1>0, <1>1
      <4> HIDE DEF r, w
      <4> QED BY <3>1, <4>1, <4>2
    <3> QED BY <1>3, <2>2, <3>2
  <2> QED BY <1>3, <2>1, <2>2
<1> QED BY <1>0, <1>3, <1>5, <1>6, <1>11, <1>12, <1>13 DEF ByteInv, y, n

\* A transfer begins: nothing is charged yet.
LEMMA BeginKeeps ==
  ASSUME ByteInv, NEW h \in Halves, NEW n \in Sizes, BeginIo(h, n)
  PROVE  ByteInv'
<1> DEFINE f == [half[h] EXCEPT !.size = n]
<1>0. /\ now \in Nat /\ passed \in Nat /\ asked \in Nat /\ charged \in Nat /\ ios \in Nat
      /\ byteBucket \in Buckets /\ byteBucket.last <= now /\ half \in [Halves -> Directions]
      /\ byteBucket.tokens \in Nat /\ Clock(byteBucket) \in Nat
  BY ByteFacts DEF ByteInv
<1>1. n \in Nat \ {0} BY ThrottleAssumption
<1>2. /\ half[h] = Resting /\ half' = [half EXCEPT ![h] = f] /\ asked' = asked + n /\ ios' = ios + 1
      /\ UNCHANGED <<now, byteBucket, passed, charged>>
  BY DEF BeginIo
<1>3. /\ f \in Directions /\ Held(f) = 0 /\ Begun(f) = 1 /\ Uncharged(f) = n /\ AwakeAt(f, now) = now
      /\ ~f.reserved /\ f.wake = Unset
  <2>1. half[h] \in Directions /\ ~half[h].reserved /\ half[h].wake = Unset
    <3>1. half[h] \in Directions /\ half[h] = Resting BY <1>0, <1>2
    <3>2. ~Resting.reserved /\ Resting.wake = Unset BY DEF Resting
    <3> QED BY <3>1, <3>2
  <2>2. f \in Directions /\ f.size = n /\ f.reserved = half[h].reserved /\ f.wake = half[h].wake
    BY <1>1, <2>1 DEF Directions
  <2> HIDE DEF f
  <2> QED BY <1>0, <1>1, <2>1, <2>2 DEF Held, Begun, Uncharged, AwakeAt, Unset
<1>4. Held(half[h]) = 0 /\ Begun(half[h]) = 0 /\ Uncharged(half[h]) = 0 /\ AwakeAt(half[h], now) = now
  BY <1>0, <1>2 DEF Resting, Held, Begun, Uncharged, AwakeAt, Unset
<1>5. Earns(0, 0) /\ SleepIsPaid(f, now)
  <2>1. Rate \in Nat /\ Period \in Nat /\ (now - now) * Rate = 0 /\ 0 * Period = 0 /\ 0 * Rate = 0
    BY <1>0, ThrottleAssumption
  <2> QED BY <1>3, <2>1 DEF Earns, SleepIsPaid
<1>6. /\ charged' + Uncharged(f) - asked' = charged + Uncharged(half[h]) - asked
      /\ passed' + Held(f) - charged' <= passed + Held(half[h]) - charged
      /\ asked' \in Nat /\ ios' \in Nat
  BY <1>0, <1>1, <1>2, <1>3, <1>4
<1>7. Earns((charged' + byteBucket'.tokens) - (charged + byteBucket.tokens),
            Clock(byteBucket') - Clock(byteBucket) + AwakeAt(f, now) - AwakeAt(half[h], now)
              + (ios' - ios) - Begun(f) + Begun(half[h]))
  <2>1. (charged' + byteBucket'.tokens) - (charged + byteBucket.tokens) = 0 BY <1>0, <1>2
  <2>2. Clock(byteBucket') - Clock(byteBucket) + AwakeAt(f, now) - AwakeAt(half[h], now)
          + (ios' - ios) - Begun(f) + Begun(half[h]) = 0
    BY <1>0, <1>2, <1>3, <1>4
  <2> QED BY <1>5, <2>1, <2>2
<1> HIDE DEF f
<1> QED BY <1>0, <1>2, <1>3, <1>5, <1>6, <1>7, DirectionKeeps

\* Bytes pass that were charged, and the sleep is over.
LEMMA TransferKeeps ==
  ASSUME ByteInv, NEW h \in Halves, NEW k \in 1..half[h].size, Transfer(h, k)
  PROVE  ByteInv'
<1> DEFINE f == Resting
<1>0. /\ now \in Nat /\ passed \in Nat /\ asked \in Nat /\ charged \in Nat /\ ios \in Nat
      /\ byteBucket \in Buckets /\ byteBucket.last <= now /\ half \in [Halves -> Directions]
      /\ byteBucket.tokens \in Nat /\ Clock(byteBucket) \in Nat
  BY ByteFacts DEF ByteInv
<1>1. half[h] \in Directions /\ half[h].size \in Nat BY <1>0 DEF Directions
<1>2. /\ half' = [half EXCEPT ![h] = f] /\ passed' = passed + k /\ half[h].reserved
      /\ half[h].wake = Unset \/ half[h].wake <= now
      /\ UNCHANGED <<now, byteBucket, asked, charged, ios>>
  BY DEF Transfer
<1>3. /\ f \in Directions /\ Held(f) = 0 /\ Begun(f) = 0 /\ Uncharged(f) = 0 /\ AwakeAt(f, now) = now
      /\ ~f.reserved /\ f.wake = Unset
  BY <1>0, <1>1 DEF Resting, Directions, Held, Begun, Uncharged, AwakeAt, Unset
<1>4. /\ Held(half[h]) = half[h].size /\ Begun(half[h]) = 0 /\ Uncharged(half[h]) = 0
      /\ AwakeAt(half[h], now) = now
  BY <1>0, <1>1, <1>2 DEF Directions, Held, Begun, Uncharged, AwakeAt, Unset
<1>5. Earns(0, 0) /\ SleepIsPaid(f, now)
  <2>1. Rate \in Nat /\ Period \in Nat /\ (now - now) * Rate = 0 /\ 0 * Period = 0 /\ 0 * Rate = 0
    BY <1>0, ThrottleAssumption
  <2> QED BY <1>3, <2>1 DEF Earns, SleepIsPaid
<1>6. /\ charged' + Uncharged(f) - asked' = charged + Uncharged(half[h]) - asked
      /\ passed' + Held(f) - charged' <= passed + Held(half[h]) - charged
      /\ passed' \in Nat
  BY <1>0, <1>1, <1>2, <1>3, <1>4
<1>7. Earns((charged' + byteBucket'.tokens) - (charged + byteBucket.tokens),
            Clock(byteBucket') - Clock(byteBucket) + AwakeAt(f, now) - AwakeAt(half[h], now)
              + (ios' - ios) - Begun(f) + Begun(half[h]))
  <2>1. (charged' + byteBucket'.tokens) - (charged + byteBucket.tokens) = 0 BY <1>0, <1>2
  <2>2. Clock(byteBucket') - Clock(byteBucket) + AwakeAt(f, now) - AwakeAt(half[h], now)
          + (ios' - ios) - Begun(f) + Begun(half[h]) = 0
    BY <1>0, <1>2, <1>3, <1>4
  <2> QED BY <1>5, <2>1, <2>2
<1> HIDE DEF f
<1> QED BY <1>0, <1>2, <1>3, <1>5, <1>6, <1>7, DirectionKeeps

\* Time passes, and what is left of the sleeps is less.
LEMMA TimeKeeps ==
  ASSUME ByteInv, now' = now + 1, UNCHANGED <<byteBucket, half, passed, asked, charged, ios>>
  PROVE  ByteInv'
<1> DEFINE r == half["read"]
<1> DEFINE w == half["write"]
<1>0. /\ r \in Directions /\ w \in Directions /\ half \in [Halves -> Directions]
      /\ now \in Nat /\ charged \in Nat /\ ios \in Nat /\ Rate \in Nat /\ Period \in Nat
      /\ byteBucket.tokens \in Nat /\ byteBucket.last \in Int /\ Clock(byteBucket) \in Nat
      /\ byteBucket.last <= now /\ Earned(byteBucket, r, w, now, ios) \in Int
  BY ByteFacts, ThrottleAssumption DEF ByteInv
<1>1. ASSUME NEW f \in Directions
      PROVE  /\ AwakeAt(f, now + 1) \in Nat /\ AwakeAt(f, now) \in Nat
             /\ AwakeAt(f, now) <= AwakeAt(f, now + 1)
             /\ AwakeAt(f, now + 1) - (now + 1) <= AwakeAt(f, now) - now
             /\ Begun(f) \in {0, 1} /\ Held(f) \in Nat
  <2>1. f.wake \in Int /\ Begun(f) \in {0, 1} /\ Held(f) \in Nat BY <1>0, DirectionIs
  <2> QED BY <1>0, <2>1 DEF AwakeAt
<1>2. ASSUME NEW g \in Halves PROVE SleepIsPaid(half'[g], now')
  <2> DEFINE f == half[g]
  <2>1. f \in Directions BY <1>0
  <2> HIDE DEF f
  <2>2. (AwakeAt(f, now + 1) - (now + 1)) * Rate <= (AwakeAt(f, now) - now) * Rate
    <3>1. AwakeAt(f, now + 1) - (now + 1) \in Int /\ AwakeAt(f, now) - now \in Int BY <1>0, <1>1, <2>1
    <3> QED BY <1>0, <1>1, <2>1, <3>1, TimesGrows
  <2>3. (AwakeAt(f, now) - now) * Rate <= Held(f) * Period BY DEF ByteInv, SleepIsPaid, f
  <2>4. /\ (AwakeAt(f, now + 1) - (now + 1)) * Rate \in Int /\ (AwakeAt(f, now) - now) * Rate \in Int
        /\ Held(f) * Period \in Int
    BY <1>0, <1>1, <2>1
  <2>5. (AwakeAt(f, now + 1) - (now + 1)) * Rate <= Held(f) * Period BY <2>2, <2>3, <2>4
  <2> QED BY <2>5 DEF f, SleepIsPaid
<1>3. Earned(byteBucket, r, w, now + 1, ios) \in Int
      /\ Earned(byteBucket, r, w, now, ios) <= Earned(byteBucket, r, w, now + 1, ios)
  <2> HIDE DEF r, w
  <2> QED BY <1>0, <1>1 DEF Earned
<1>4. Covered(charged + byteBucket.tokens, Earned(byteBucket, r, w, now + 1, ios))
  <2>1. Covered(charged + byteBucket.tokens, Earned(byteBucket, r, w, now, ios)) BY DEF ByteInv
  <2>2. charged + byteBucket.tokens \in Int BY <1>0
  <2> HIDE DEF r, w
  <2> QED BY <1>0, <1>3, <2>1, <2>2, CoveredLater
<1>5. now' \in Nat /\ byteBucket'.last <= now' BY <1>0
<1>6. ChargedOnce' BY DEF ByteInv, ChargedOnce
<1> QED BY <1>2, <1>4, <1>5, <1>6 DEF ByteInv

\* What a refill earns, a bucket that was never used included.
LEMMA RefillIsEarned ==
  ASSUME now \in Nat, NEW q \in Buckets, q.last <= now, NEW b, b = Refill(q)
  PROVE  /\ b \in [tokens : 0..(2 * Rate), last : Nat] /\ b.last <= now
         /\ Earns(b.tokens - q.tokens, b.last - Clock(q))
<1>0. Rate \in Nat \ {0} /\ Period \in Nat \ {0} BY ThrottleAssumption
<1>1. q \in [tokens : 0..(2 * Rate), last : Nat \cup {Unset}] /\ q.tokens \in 0..(2 * Rate) BY DEF Buckets
<1>2. /\ b \in [tokens : 0..(2 * Rate), last : Nat] /\ b.last <= now
      /\ q.last # Unset => (b.tokens - q.tokens) * Period <= (b.last - q.last) * Rate
      /\ q.last = Unset => b.tokens = q.tokens
  BY <1>1, RefillEarns
<1>3. CASE q.last # Unset BY <1>2, <1>3 DEF Earns, Clock
<1>4. CASE q.last = Unset
  <2>1. b.tokens - q.tokens = 0 /\ b.last - Clock(q) = b.last /\ b.last \in Nat BY <1>1, <1>2, <1>4 DEF Clock
  <2>2. 0 * Period = 0 /\ b.last * Rate >= 0 BY <1>0, <2>1
  <2>3. Earns(b.tokens - q.tokens, b.last - Clock(q)) BY <2>1, <2>2 DEF Earns
  <2> QED BY <1>2, <2>3
<1> QED BY <1>2, <1>3, <1>4

\* What earns adds up.
LEMMA EarnsAdds ==
  ASSUME NEW x \in Int, NEW y \in Int, NEW m \in Int, NEW n \in Int, Earns(x, m), Earns(y, n)
  PROVE  Earns(x + y, m + n)
<1>0. Rate \in Nat \ {0} /\ Period \in Nat \ {0} BY ThrottleAssumption
<1>1. (x + y) * Period = x * Period + y * Period /\ (m + n) * Rate = m * Rate + n * Rate BY <1>0, TimesAdds
<1>2. x * Period \in Int /\ y * Period \in Int /\ m * Rate \in Int /\ n * Rate \in Int BY <1>0
<1> QED BY <1>1, <1>2 DEF Earns

\* What take does when the bucket has n tokens or fewer: the sleep earns all of
\* the rest but what less than a time step earns.
LEMMA TakeIs ==
  ASSUME now \in Nat, NEW q \in Buckets, q.last <= now, NEW n \in Nat \ {0}
  PROVE  \E c \in Buckets, v \in Nat :
           /\ Take(q, n) = [bucket |-> c, wait |-> v] /\ c.last <= now /\ c.last # Unset
           /\ v * Rate <= n * Period
           /\ Earns(n + c.tokens - q.tokens, c.last - Clock(q) + v + 1)
<1>0. Rate \in Nat \ {0} /\ Period \in Nat \ {0} BY ThrottleAssumption
<1> DEFINE b == Refill(q)
<1>1. /\ b \in [tokens : 0..(2 * Rate), last : Nat] /\ b.last <= now
      /\ Earns(b.tokens - q.tokens, b.last - Clock(q))
  BY RefillIsEarned
<1>2. /\ b.tokens \in Nat /\ b.tokens <= 2 * Rate /\ b.last \in Nat /\ q.tokens \in Nat /\ Clock(q) \in Nat
  BY <1>0, <1>1 DEF Buckets, Clock
<1>3. Take(q, n) = IF b.tokens >= n THEN [bucket |-> [b EXCEPT !.tokens = b.tokens - n], wait |-> 0]
                   ELSE [bucket |-> [b EXCEPT !.tokens = 0],
                         wait |-> ((n - b.tokens) * Period) \div Rate]
  BY DEF Take
<1> HIDE DEF b
<1>4. b = [tokens |-> b.tokens, last |-> b.last] BY <1>1
<1>5. CASE b.tokens >= n
  <2> DEFINE c == [tokens |-> b.tokens - n, last |-> b.last]
  <2>1. Take(q, n) = [bucket |-> c, wait |-> 0]
    <3>1. [b EXCEPT !.tokens = b.tokens - n] = c BY <1>4
    <3> HIDE DEF c
    <3> QED BY <1>3, <1>5, <3>1
  <2>2. b.tokens - n \in 0..(2 * Rate) BY <1>0, <1>2, <1>5
  <2>3. c \in Buckets /\ c.last = b.last /\ c.tokens = b.tokens - n /\ c.last # Unset
    BY <1>2, <2>2 DEF Buckets, Unset
  <2> HIDE DEF c
  <2>4. Earns(0, 1) /\ 0 * Rate <= n * Period BY <1>0 DEF Earns
  <2>5. Earns(b.tokens - q.tokens + 0, b.last - Clock(q) + 1)
    <3> DEFINE x == b.tokens - q.tokens
               m == b.last - Clock(q)
    <3>1. x \in Int /\ m \in Int BY <1>2
    <3>2. Earns(x, m) BY <1>1
    <3> HIDE DEF x, m
    <3>3. Earns(x + 0, m + 1) BY <2>4, <3>1, <3>2, EarnsAdds
    <3> QED BY <3>3 DEF x, m
  <2>6. n + c.tokens - q.tokens = b.tokens - q.tokens + 0 /\ c.last - Clock(q) + 0 + 1 = b.last - Clock(q) + 1
    BY <1>2, <2>3
  <2>7. Earns(n + c.tokens - q.tokens, c.last - Clock(q) + 0 + 1) BY <2>5, <2>6
  <2> QED BY <1>1, <2>1, <2>3, <2>4, <2>7
<1>6. CASE ~(b.tokens >= n)
  <2> DEFINE c == [tokens |-> 0, last |-> b.last]
  <2> DEFINE d == n - b.tokens
  <2> DEFINE v == (d * Period) \div Rate
  <2>1. Take(q, n) = [bucket |-> c, wait |-> v]
    <3>1. [b EXCEPT !.tokens = 0] = c BY <1>4
    <3> HIDE DEF c
    <3> QED BY <1>3, <1>6, <3>1
  <2>2. 0 \in 0..(2 * Rate) BY <1>0
  <2>3. c \in Buckets /\ c.last = b.last /\ c.tokens = 0 /\ c.last # Unset BY <1>2, <2>2 DEF Buckets, Unset
  <2>4. d \in Nat /\ d <= n /\ d + b.tokens = n BY <1>2, <1>6
  <2>5. d * Period \in Nat BY <1>0, <2>4
  <2>6. v \in Nat /\ v * Rate <= d * Period /\ d * Period < v * Rate + Rate BY <1>0, <2>5, DivBounds
  <2> HIDE DEF c, d, v
  <2>7. v * Rate <= n * Period
    <3>1. d * Period <= n * Period BY <1>0, <2>4, TimesGrows
    <3>2. n * Period \in Int /\ v * Rate \in Int BY <1>0, <2>6
    <3> QED BY <2>5, <2>6, <3>1, <3>2
  <2>8. Earns(d, v + 1)
    <3>1. (v + 1) * Rate = v * Rate + Rate /\ v * Rate \in Int BY <1>0, <2>6, TimesAdds
    <3> QED BY <1>0, <2>5, <2>6, <3>1 DEF Earns
  <2>9. Earns((b.tokens - q.tokens) + d, (b.last - Clock(q)) + (v + 1))
    <3>1. b.tokens - q.tokens \in Int /\ b.last - Clock(q) \in Int /\ d \in Int /\ v + 1 \in Int BY <1>2, <2>4, <2>6
    <3> QED BY <1>1, <2>8, <3>1, EarnsAdds
  <2>10. /\ n + c.tokens - q.tokens = (b.tokens - q.tokens) + d
         /\ c.last - Clock(q) + v + 1 = (b.last - Clock(q)) + (v + 1)
    <3>1. v \in Nat /\ d \in Nat /\ d + b.tokens = n BY <2>4, <2>6
    <3>2. c.last = b.last /\ c.tokens = 0 BY <2>3
    <3>3. n + 0 - q.tokens = (b.tokens - q.tokens) + d BY <1>2, <3>1
    <3>4. b.last - Clock(q) + v + 1 = (b.last - Clock(q)) + (v + 1) BY <1>2, <3>1
    <3> QED BY <3>2, <3>3, <3>4
  <2>11. Earns(n + c.tokens - q.tokens, c.last - Clock(q) + v + 1) BY <2>9, <2>10
  <2> QED BY <1>1, <2>1, <2>3, <2>6, <2>7, <2>11
<1> QED BY <1>5, <1>6

\* A transfer is charged, and sleeps for what is missing.
LEMMA ReserveKeeps ==
  ASSUME ByteInv, NEW h \in Halves, Reserve(h)
  PROVE  ByteInv'
<1> DEFINE n == half[h].size
<1>0. /\ now \in Nat /\ passed \in Nat /\ asked \in Nat /\ charged \in Nat /\ ios \in Nat
      /\ byteBucket \in Buckets /\ byteBucket.last <= now /\ half \in [Halves -> Directions]
      /\ byteBucket.tokens \in Nat /\ Clock(byteBucket) \in Nat
  BY ByteFacts DEF ByteInv
<1>1. half[h] \in Directions /\ n \in Nat \ {0} /\ ~half[h].reserved /\ half[h].wake = Unset
  <2>1. half[h] \in Directions /\ n > 0 /\ ~half[h].reserved BY <1>0 DEF Reserve
  <2>2. n \in Nat BY <2>1 DEF Directions
  <2> QED BY <2>1, <2>2 DEF ByteInv
<1> HIDE DEF n
<1>2. PICK c \in Buckets, v \in Nat :
        /\ Take(byteBucket, n) = [bucket |-> c, wait |-> v] /\ c.last <= now /\ c.last # Unset
        /\ v * Rate <= n * Period
        /\ Earns(n + c.tokens - byteBucket.tokens, c.last - Clock(byteBucket) + v + 1)
  BY <1>0, <1>1, TakeIs
<1> DEFINE u == IF v = 0 THEN Unset ELSE now + v
<1> DEFINE f == [half[h] EXCEPT !.reserved = TRUE, !.wake = u]
<1>3. /\ byteBucket' = c /\ charged' = charged + n /\ half' = [half EXCEPT ![h] = f]
      /\ UNCHANGED <<now, passed, asked, ios>>
  <2>1. Take(byteBucket, n).bucket = c /\ Take(byteBucket, n).wait = v BY <1>2
  <2>2. /\ byteBucket' = Take(byteBucket, n).bucket /\ charged' = charged + n
        /\ half' = [half EXCEPT ![h].reserved = TRUE,
                                ![h].wake = IF Take(byteBucket, n).wait = 0 THEN Unset
                                            ELSE now + Take(byteBucket, n).wait]
        /\ UNCHANGED <<now, passed, asked, ios>>
    BY DEF Reserve, n
  <2>3. half' = [half EXCEPT ![h].reserved = TRUE, ![h].wake = u] BY <2>1, <2>2
  <2>4. half' = [half EXCEPT ![h] = f]
    <3> HIDE DEF u
    <3> QED BY <1>0, <2>3
  <2> QED BY <2>1, <2>2, <2>4
<1>4. u \in Nat \cup {Unset} /\ (IF u > now THEN u ELSE now) = now + v BY <1>0 DEF Unset
<1> HIDE DEF u
<1>5. f \in Directions /\ f.size = n /\ f.reserved /\ f.wake = u BY <1>1, <1>4 DEF Directions, n
<1> HIDE DEF f
<1>6. /\ Held(f) = n /\ Begun(f) = 0 /\ Uncharged(f) = 0 /\ AwakeAt(f, now) = now + v
  BY <1>4, <1>5 DEF Held, Begun, Uncharged, AwakeAt
<1>7. /\ Held(half[h]) = 0 /\ Begun(half[h]) = 1 /\ Uncharged(half[h]) = n /\ AwakeAt(half[h], now) = now
  BY <1>0, <1>1 DEF Held, Begun, Uncharged, AwakeAt, Unset, n
<1>8. SleepIsPaid(f, now)
  <2>0. (now + v) - now = v BY <1>0
  <2>1. v * Rate <= n * Period BY <1>2
  <2>2. AwakeAt(f, now) - now = v /\ Held(f) = n BY <1>6, <2>0, Zenon
  <2>3. (AwakeAt(f, now) - now) * Rate <= Held(f) * Period BY <2>1, <2>2
  <2> QED BY <2>3 DEF SleepIsPaid
<1>9. c.tokens \in Nat /\ c.last \in Nat /\ Clock(c) = c.last
  BY <1>2, ThrottleAssumption DEF Buckets, Clock
<1>10. /\ charged' + Uncharged(f) - asked' = charged + Uncharged(half[h]) - asked
       /\ passed' + Held(f) - charged' <= passed + Held(half[h]) - charged
       /\ charged' \in Nat
  BY <1>0, <1>1, <1>3, <1>6, <1>7
<1>11. Earns((charged' + byteBucket'.tokens) - (charged + byteBucket.tokens),
             Clock(byteBucket') - Clock(byteBucket) + AwakeAt(f, now) - AwakeAt(half[h], now)
               + (ios' - ios) - Begun(f) + Begun(half[h]))
  <2>1. (charged' + byteBucket'.tokens) - (charged + byteBucket.tokens) = n + c.tokens - byteBucket.tokens
    <3>1. (charged + n + c.tokens) - (charged + byteBucket.tokens) = n + c.tokens - byteBucket.tokens
      BY <1>0, <1>1, <1>9
    <3> QED BY <1>3, <3>1
  <2>2. Clock(byteBucket') - Clock(byteBucket) + AwakeAt(f, now) - AwakeAt(half[h], now)
          + (ios' - ios) - Begun(f) + Begun(half[h]) = c.last - Clock(byteBucket) + v + 1
    <3>1. v \in Nat OBVIOUS
    <3>2. c.last - Clock(byteBucket) + (now + v) - now + (ios - ios) - 0 + 1 = c.last - Clock(byteBucket) + v + 1
      BY <1>0, <1>9, <3>1
    <3> QED BY <1>3, <1>6, <1>7, <1>9, <3>2
  <2> QED BY <1>2, <2>1, <2>2
<1>12. byteBucket' \in Buckets /\ byteBucket'.last <= now BY <1>2, <1>3
<1> QED BY <1>0, <1>3, <1>5, <1>8, <1>10, <1>11, <1>12, DirectionKeeps

\* What the invariant says of the bytes that have passed.
LEMMA ByteInvImplies == ByteInv => ChargedOnce /\ BytesAreBounded
<1> SUFFICES ASSUME ByteInv PROVE BytesAreBounded BY DEF ByteInv
<1> DEFINE r == half["read"]
<1> DEFINE w == half["write"]
<1> DEFINE x == charged + byteBucket.tokens
<1> DEFINE m == Earned(byteBucket, r, w, now, ios)
<1> DEFINE sr == AwakeAt(r, now) - now
<1> DEFINE sw == AwakeAt(w, now) - now
<1>0. /\ r \in Directions /\ w \in Directions
      /\ now \in Nat /\ passed \in Nat /\ asked \in Nat /\ charged \in Nat /\ ios \in Nat
      /\ byteBucket.tokens \in Nat /\ Clock(byteBucket) \in Nat /\ Clock(byteBucket) <= now
      /\ m \in Int /\ Rate \in Nat /\ Period \in Nat
  BY ByteFacts, ThrottleAssumption
<1>1. /\ AwakeAt(r, now) \in Nat /\ AwakeAt(w, now) \in Nat /\ Begun(r) \in {0, 1} /\ Begun(w) \in {0, 1}
      /\ Held(r) \in Nat /\ Held(w) \in Nat
  BY <1>0, DirectionIs
<1>2. /\ passed + Held(r) + Held(w) <= charged /\ Covered(x, m)
      /\ sr * Rate <= Held(r) * Period /\ sw * Rate <= Held(w) * Period
  BY DEF ByteInv, SleepIsPaid, Halves
<1>3. sr \in Int /\ sw \in Int /\ m <= (3 * now + ios) + (sr + sw) /\ x \in Int
      /\ passed + (Held(r) + Held(w)) <= x
  <2>1. m = Clock(byteBucket) + AwakeAt(r, now) + AwakeAt(w, now) + (ios - Begun(r) - Begun(w)) BY DEF Earned
  <2>2. passed + Held(r) + Held(w) <= charged BY <1>2
  <2> HIDE DEF r, w, m
  <2> QED BY <1>0, <1>1, <2>1, <2>2
<1> DEFINE p == passed * Period
<1> DEFINE a == Held(r) * Period
<1> DEFINE b == Held(w) * Period
<1> DEFINE e == (3 * now + ios) * Rate
<1>4. (passed + (Held(r) + Held(w))) * Period = p + (a + b)
  <2> HIDE DEF r, w
  <2>1. Held(r) + Held(w) \in Int /\ (Held(r) + Held(w)) * Period = a + b BY <1>0, <1>1, TimesAdds
  <2>2. (passed + (Held(r) + Held(w))) * Period = p + (Held(r) + Held(w)) * Period BY <1>0, <2>1, TimesAdds
  <2> QED BY <2>1, <2>2
<1>5. ((3 * now + ios) + (sr + sw)) * Rate = e + (sr * Rate + sw * Rate)
  <2>0. 3 * now + ios \in Int BY <1>0
  <2> HIDE DEF sr, sw
  <2>1. sr + sw \in Int /\ (sr + sw) * Rate = sr * Rate + sw * Rate BY <1>0, <1>3, TimesAdds
  <2>2. ((3 * now + ios) + (sr + sw)) * Rate = e + (sr + sw) * Rate BY <1>0, <2>0, <2>1, TimesAdds
  <2> QED BY <2>1, <2>2
<1>6. (passed + (Held(r) + Held(w))) * Period <= x * Period
  <2>1. passed + (Held(r) + Held(w)) \in Int BY <1>0, <1>1
  <2> HIDE DEF x, r, w
  <2> QED BY <1>0, <1>3, <2>1, TimesGrows
<1>7. m * Rate <= ((3 * now + ios) + (sr + sw)) * Rate
  <2>1. (3 * now + ios) + (sr + sw) \in Int BY <1>0, <1>3
  <2> HIDE DEF m, sr, sw
  <2> QED BY <1>0, <1>3, <2>1, TimesGrows
<1>8. x * Period <= (2 * Rate) * Period + m * Rate BY <1>2 DEF Covered
<1>9. /\ p \in Int /\ a \in Int /\ b \in Int /\ e \in Int /\ x * Period \in Int /\ m * Rate \in Int
      /\ (2 * Rate) * Period \in Int /\ sr * Rate \in Int /\ sw * Rate \in Int
  <2> HIDE DEF x, m, sr, sw, r, w
  <2> QED BY <1>0, <1>1, <1>3
<1>10. p <= (2 * Rate) * Period + e
  <2> DEFINE A == x * Period
  <2> DEFINE M == m * Rate
  <2> DEFINE B == (2 * Rate) * Period
  <2> DEFINE R == sr * Rate
  <2> DEFINE W == sw * Rate
  <2>1. /\ p \in Int /\ a \in Int /\ b \in Int /\ e \in Int /\ A \in Int /\ M \in Int
        /\ B \in Int /\ R \in Int /\ W \in Int
    BY <1>9
  <2>2. R <= a /\ W <= b BY <1>2
  <2>3. p + (a + b) <= A BY <1>4, <1>6
  <2>4. M <= e + (R + W) BY <1>5, <1>7
  <2>5. A <= B + M BY <1>8
  <2> HIDE DEF p, a, b, e, A, M, B, R, W
  <2>6. p <= B + e BY <2>1, <2>2, <2>3, <2>4, <2>5
  <2> QED BY <2>6 DEF B
<1> QED BY <1>10 DEF BytesAreBounded

\* However the directions, the clock and the queries interleave, and whatever
\* the rate: the queries are within it, each transfer is charged once, and the
\* bytes are within what the bucket and the sleeps earn (TokenBucket, poll_gate).
THEOREM RatesAreHeld == SpecThrottle => []RatesHold
<1>1. InitThrottle => ByteInv
  <2> SUFFICES ASSUME InitThrottle PROVE ByteInv OBVIOUS
  <2>0. Rate \in Nat /\ Period \in Nat BY ThrottleAssumption
  <2>1. now = 0 /\ passed = 0 /\ asked = 0 /\ charged = 0 /\ ios = 0 BY DEF InitThrottle
  <2>2. byteBucket \in Buckets /\ byteBucket.last = Unset /\ byteBucket.tokens = 2 * Rate
    BY <2>0 DEF InitThrottle, NewBucket, Buckets
  <2>3. Resting \in Directions /\ ~Resting.reserved /\ Resting.wake = Unset /\ Resting.size = 0
    BY DEF Resting, Directions
  <2>4. half \in [Halves -> Directions] /\ \A h \in Halves : half[h] = Resting BY <2>3 DEF InitThrottle
  <2>5. half["read"] = Resting /\ half["write"] = Resting BY <2>4 DEF Halves
  <2>6. Held(Resting) = 0 /\ Uncharged(Resting) = 0 /\ Begun(Resting) = 0 /\ AwakeAt(Resting, 0) = 0
    BY <2>3 DEF Held, Uncharged, Begun, AwakeAt, Unset
  <2>7. SleepIsPaid(Resting, 0) BY <2>0, <2>6 DEF SleepIsPaid
  <2>8. Covered(2 * Rate, 0) BY <2>0 DEF Covered
  <2>9. Clock(byteBucket) = 0 BY <2>2 DEF Clock
  <2>10. Earned(byteBucket, Resting, Resting, 0, 0) = 0 BY <2>6, <2>9 DEF Earned
  <2>11. ChargedOnce BY <2>1, <2>5, <2>6 DEF ChargedOnce
  <2>12. byteBucket.last <= now BY <2>1, <2>2 DEF Unset
  <2>13. Covered(charged + byteBucket.tokens, Earned(byteBucket, half["read"], half["write"], now, ios))
    <3>1. charged + byteBucket.tokens = 2 * Rate BY <2>0, <2>1, <2>2
    <3> QED BY <2>1, <2>5, <2>8, <2>10, <3>1
  <2>14. passed + Held(half["read"]) + Held(half["write"]) <= charged BY <2>1, <2>5, <2>6
  <2> QED BY <2>1, <2>2, <2>3, <2>4, <2>7, <2>11, <2>12, <2>13, <2>14 DEF ByteInv
<1>2. ByteInv /\ [NextQueries \/ NextBytes]_throttleVars => ByteInv'
  <2> SUFFICES ASSUME ByteInv, [NextQueries \/ NextBytes]_throttleVars PROVE ByteInv' OBVIOUS
  <2>1. CASE Pass BY <2>1, TimeKeeps DEF Pass
  <2>2. ASSUME NEW h \in Halves, NEW n \in Sizes, BeginIo(h, n) PROVE ByteInv' BY <2>2, BeginKeeps
  <2>3. ASSUME NEW h \in Halves, Reserve(h) PROVE ByteInv' BY <2>3, ReserveKeeps
  <2>4. ASSUME NEW h \in Halves, NEW k \in 1..half[h].size, Transfer(h, k) PROVE ByteInv' BY <2>4, TransferKeeps
  <2>5. CASE UNCHANGED <<now, byteBucket, half, passed, asked, charged, ios>>
    BY <2>5 DEF ByteInv, ChargedOnce
  <2>6. RunQuery => UNCHANGED <<now, byteBucket, half, passed, asked, charged, ios>> BY DEF RunQuery
  <2> QED BY <2>1, <2>2, <2>3, <2>4, <2>5, <2>6 DEF NextQueries, NextBytes, throttleVars
<1>3. ByteInv => ChargedOnce /\ BytesAreBounded BY ByteInvImplies
<1>4. QueriesWithinRate /\ ChargedOnce /\ BytesAreBounded => RatesHold BY DEF RatesHold
<1>5. SpecThrottle => []QueriesWithinRate BY QueriesHold
<1> QED BY <1>1, <1>2, <1>3, <1>4, <1>5, PTL DEF SpecThrottle

-----------------------------------------------------------------------------
(* The pipelined import.                                                   *)

\* What a request, an answer and the client can be.
Request == [kind : {"RUN", "PULL", "RESET"}, stmt : Nat]
Answers == {"SUCCESS", "IGNORED", "FAILURE"}
ClientType ==
  [at : {"fill", "run", "pull", "skip", "reset", "close", "ended"},
   out : Seq(Request), depth : Nat, last : BOOLEAN, inFailed : BOOLEAN,
   count : Nat, errors : Nat, error : {"none", "reset", "io"}, open : BOOLEAN]
ProducerType == [next : Nat \ {0}, state : {"running", "done", "error"}]
ImportType ==
  /\ producer \in ProducerType /\ queue \in Seq(Nat) /\ client \in ClientType
  /\ requests \in Seq(Request) /\ responses \in Seq(Answers)
  /\ refusing \in BOOLEAN
  /\ answered \in SUBSET Nat /\ IsFiniteSet(answered)

\* Pairs of RUN and PULL, of which the first may have lost its RUN.
Alternates(s) ==
  \A i \in 1..Len(s) : s[i].kind = IF (Len(s) - i) % 2 = 1 THEN "RUN" ELSE "PULL"

\* What pipeline_run adds for a statement.
Pair(x) == <<[kind |-> "RUN", stmt |-> x], [kind |-> "PULL", stmt |-> x]>>
AddsPair(s, x, t) == t = s \o Pair(x)

\* The statements are pulled in the order they were parsed, each once.
InOrder(s) ==
  \A i, j \in 1..Len(s) :
    (i < j /\ s[i].kind = "PULL" /\ s[j].kind = "PULL") => s[i].stmt < s[j].stmt
PullsBelow(s, x) == \A i \in 1..Len(s) : s[i].kind = "PULL" => s[i].stmt < x
PullsAbove(s, done) == \A i \in 1..Len(s) : s[i].kind = "PULL" => \A e \in done : e < s[i].stmt
Above(x, done, s, t) == (\A e \in done : e < x) /\ PullsBelow(s, x) /\ PullsBelow(t, x)
StatementsInOrder ==
  /\ InOrder(requests) /\ InOrder(client.out)
  /\ PullsAbove(requests, answered) /\ PullsAbove(client.out, answered)
  /\ \A k \in 1..Len(queue) :
       Above(queue[k], answered, requests, client.out) /\ queue[k] < producer.next
  /\ Above(producer.next, answered, requests, client.out)
  /\ \A k, l \in 1..Len(queue) : k < l => queue[k] < queue[l]

\* No answer that waits is a success.
NoSuccess(s) == \A i \in 1..Len(s) : s[i] # "SUCCESS"

Draining == client.at \in {"run", "pull", "skip", "reset"}
Odd == IF client.at = "pull" THEN 1 ELSE 0

\* Of the answers s the first m are successes.  With odd, the answer to the RUN
\* of the pair at hand, they are those of p statements, and perhaps of one more
\* RUN; n statements are answered and count are counted.
Pending(s, stuck, odd, count, n, m, p) ==
  /\ \A i \in 1..m : s[i] = "SUCCESS"
  /\ \A i \in (m + 1)..Len(s) : s[i] # "SUCCESS"
  /\ ~stuck => m = Len(s)
  /\ m + odd = 2 * p \/ m + odd = 2 * p + 1
  /\ n = count + p
IsPending(s, stuck, odd, count, n) ==
  \E m \in 0..Len(s), p \in 0..n : Pending(s, stuck, odd, count, n, m, p)

\* The RESET is on its way, or its answer is the last one.
ResetPending ==
  \/ /\ requests # <<>> /\ requests[Len(requests)].kind = "RESET"
     /\ \A i \in 1..(Len(requests) - 1) : requests[i].kind # "RESET"
     /\ refusing /\ NoSuccess(responses)
  \/ /\ requests = <<>> /\ responses # <<>>
     /\ \A i \in 1..(Len(responses) - 1) : responses[i] # "SUCCESS"

Batches ==
  /\ client.at = "fill" =>
       /\ requests = <<>> /\ responses = <<>>
       /\ Alternates(client.out) /\ Len(client.out) = 2 * client.depth
       /\ Cardinality(answered) = client.count
  /\ Draining => client.out = <<>> /\ client.depth > 0
  /\ client.at = "run" => Len(requests) + Len(responses) = 2 * client.depth
  /\ client.at \in {"pull", "skip", "reset"} => Len(requests) + Len(responses) = 2 * client.depth - 1
  /\ client.at \in {"run", "pull", "skip"} => Alternates(requests)
  /\ client.at \in {"skip", "reset"} => client.inFailed
  /\ (Draining /\ client.inFailed) => Cardinality(answered) = client.count
  /\ (client.at \in {"run", "pull", "skip"} /\ client.inFailed) => refusing /\ NoSuccess(responses)
  /\ client.at = "reset" => ResetPending
  /\ (client.at \in {"run", "pull"} /\ ~client.inFailed) =>
       IsPending(responses, refusing, Odd, client.count, Cardinality(answered))

\* Every parsed statement is counted, waits in the batch or is queued; at the
\* end there is nothing more to come.
Totals ==
  /\ client.count + client.errors + client.depth + Len(queue) = producer.next - 1
  /\ (client.last \/ client.at \in {"close", "ended"}) =>
       queue = <<>> /\ producer.state # "running"
  /\ client.at \in {"close", "ended"} =>
       client.depth = 0 /\ Cardinality(answered) = client.count /\ requests = <<>>

ImportInv ==
  /\ ImportType
  /\ client.count <= Cardinality(answered)
  /\ client.error # "none" => client.at \in {"close", "ended"}
  /\ client.error = "none" => StatementsInOrder /\ Batches /\ Totals

\* What Tail and Append do, element by element.
LEMMA TailIs ==
  ASSUME NEW S, NEW s \in Seq(S), s # <<>>
  PROVE  /\ Tail(s) \in Seq(S) /\ Len(s) \in Nat \ {0} /\ Len(Tail(s)) = Len(s) - 1
         /\ \A i \in 1..Len(Tail(s)) : Tail(s)[i] = s[i + 1]
         /\ Head(s) = s[1] /\ Head(s) \in S
OBVIOUS

LEMMA AppendIs ==
  ASSUME NEW S, NEW s \in Seq(S), NEW x \in S
  PROVE  /\ Append(s, x) \in Seq(S) /\ Len(Append(s, x)) = Len(s) + 1
         /\ \A i \in 1..Len(s) : Append(s, x)[i] = s[i]
         /\ Append(s, x)[Len(s) + 1] = x
OBVIOUS

LEMMA PairIs ==
  ASSUME NEW S, NEW s \in Seq(S), NEW x \in S, NEW y \in S
  PROVE  /\ s \o <<x, y>> \in Seq(S) /\ Len(s \o <<x, y>>) = Len(s) + 2
         /\ \A i \in 1..Len(s) : (s \o <<x, y>>)[i] = s[i]
         /\ (s \o <<x, y>>)[Len(s) + 1] = x /\ (s \o <<x, y>>)[Len(s) + 2] = y
<1>1. <<x, y>> \in Seq(S) /\ Len(<<x, y>>) = 2 OBVIOUS
<1> QED BY <1>1

\* What a pair adds, and what is left without its first request, alternates.
LEMMA AlternatesTail ==
  ASSUME NEW s \in Seq(Request), s # <<>>, Alternates(s)
  PROVE  /\ Alternates(Tail(s))
         /\ Len(s) % 2 = 0 => Head(s).kind = "RUN"
         /\ Len(s) % 2 = 1 => Head(s).kind = "PULL"
<1>1. /\ Tail(s) \in Seq(Request) /\ Len(s) \in Nat \ {0} /\ Len(Tail(s)) = Len(s) - 1
      /\ \A i \in 1..Len(Tail(s)) : Tail(s)[i] = s[i + 1]
      /\ Head(s) = s[1]
  BY TailIs
<1>2. ASSUME NEW i \in 1..Len(Tail(s))
      PROVE  Tail(s)[i].kind = IF (Len(Tail(s)) - i) % 2 = 1 THEN "RUN" ELSE "PULL"
  <2>1. i + 1 \in 1..Len(s) /\ Len(s) - (i + 1) = Len(Tail(s)) - i BY <1>1
  <2> QED BY <1>1, <2>1 DEF Alternates
<1>3. Head(s).kind = IF (Len(s) - 1) % 2 = 1 THEN "RUN" ELSE "PULL" BY <1>1 DEF Alternates
<1>4. /\ Len(s) % 2 = 0 => (Len(s) - 1) % 2 = 1
      /\ Len(s) % 2 = 1 => (Len(s) - 1) % 2 = 0
  BY <1>1
<1> QED BY <1>2, <1>3, <1>4 DEF Alternates

LEMMA AlternatesPair ==
  ASSUME NEW s \in Seq(Request), Alternates(s), NEW x \in Nat,
         NEW t, AddsPair(s, x, t)
  PROVE  /\ t \in Seq(Request) /\ Len(t) = Len(s) + 2 /\ Alternates(t)
         /\ \A i \in 1..Len(s) : t[i] = s[i]
         /\ t[Len(s) + 1] = [kind |-> "RUN", stmt |-> x] /\ t[Len(s) + 2] = [kind |-> "PULL", stmt |-> x]
<1> DEFINE a == [kind |-> "RUN", stmt |-> x]
<1> DEFINE b == [kind |-> "PULL", stmt |-> x]
<1>1. a \in Request /\ b \in Request /\ a.kind = "RUN" /\ b.kind = "PULL" BY DEF Request
<1>2. t = s \o <<a, b>> BY DEF AddsPair, Pair
<1> HIDE DEF a, b
<1>3. /\ t \in Seq(Request) /\ Len(t) = Len(s) + 2 /\ \A i \in 1..Len(s) : t[i] = s[i]
      /\ t[Len(s) + 1] = a /\ t[Len(s) + 2] = b
  BY <1>1, <1>2, PairIs
<1>4. ASSUME NEW i \in 1..Len(t) PROVE t[i].kind = IF (Len(t) - i) % 2 = 1 THEN "RUN" ELSE "PULL"
  <2>1. CASE i \in 1..Len(s)
    <3>1. s[i].kind = IF (Len(s) - i) % 2 = 1 THEN "RUN" ELSE "PULL" BY <2>1 DEF Alternates
    <3>2. (Len(s) + 2 - i) % 2 = (Len(s) - i) % 2 BY <2>1
    <3> QED BY <1>3, <2>1, <3>1, <3>2
  <2>2. CASE i = Len(s) + 1 BY <1>1, <1>3, <2>2
  <2>3. CASE i = Len(s) + 2 BY <1>1, <1>3, <2>3
  <2> QED BY <1>3, <2>1, <2>2, <2>3
<1> QED BY <1>3, <1>4 DEF a, b, Alternates

\* A request of a sequence.
LEMMA RequestIs ==
  ASSUME NEW s \in Seq(Request), NEW i \in 1..Len(s)
  PROVE  s[i] \in Request /\ s[i].stmt \in Nat /\ s[i].kind \in {"RUN", "PULL", "RESET"}
<1>1. s[i] \in Request OBVIOUS
<1> QED BY <1>1 DEF Request

\* Out of the types.
LEMMA ImportTypes ==
  ASSUME ImportType
  PROVE  /\ producer.next \in Nat \ {0} /\ producer.state \in {"running", "done", "error"}
         /\ client.at \in {"fill", "run", "pull", "skip", "reset", "close", "ended"}
         /\ client.out \in Seq(Request) /\ client.depth \in Nat /\ client.last \in BOOLEAN
         /\ client.inFailed \in BOOLEAN /\ client.count \in Nat /\ client.errors \in Nat
         /\ client.error \in {"none", "reset", "io"}
         /\ Len(queue) \in Nat /\ Len(requests) \in Nat /\ Len(responses) \in Nat
         /\ Cardinality(answered) \in Nat
<1>1. Cardinality(answered) \in Nat BY FS_CardinalityType DEF ImportType
<1> QED BY <1>1 DEF ImportType, ProducerType, ClientType

\* The first state.
LEMMA ImportStarts == InitImport => ImportInv
<1> SUFFICES ASSUME InitImport PROVE ImportInv OBVIOUS
<1>1. Cardinality({}) = 0 /\ IsFiniteSet({}) BY FS_EmptySet
<1>2. /\ producer = [next |-> 1, state |-> "running"] /\ queue = <<>> /\ requests = <<>>
      /\ responses = <<>> /\ refusing = FALSE /\ answered = {}
  BY DEF InitImport
<1>3. /\ client \in ClientType /\ client.at = "fill" /\ client.out = <<>> /\ client.depth = 0
      /\ client.count = 0 /\ client.errors = 0 /\ client.error = "none" /\ client.last = FALSE
  BY DEF InitImport, ClientType
<1>4. producer \in ProducerType /\ producer.next = 1 BY <1>2 DEF ProducerType
<1>5. ImportType
  <2>1. \A S : <<>> \in Seq(S) OBVIOUS
  <2>2. answered \in SUBSET Nat /\ IsFiniteSet(answered) BY <1>1, <1>2
  <2> QED BY <1>2, <1>3, <1>4, <2>1, <2>2 DEF ImportType
<1>6. StatementsInOrder
  BY <1>2, <1>3, <1>4 DEF StatementsInOrder, InOrder, PullsAbove, PullsBelow, Above
<1>7. Batches BY <1>1, <1>2, <1>3 DEF Batches, Draining, Alternates
<1>8. Totals BY <1>1, <1>2, <1>3, <1>4 DEF Totals
<1> QED BY <1>1, <1>2, <1>3, <1>5, <1>6, <1>7, <1>8 DEF ImportInv

\* Steps of the producer leave the client and the streams alone.
LEMMA ProducerKeeps ==
  ASSUME ImportInv, producer' \in ProducerType, queue' \in Seq(Nat),
         UNCHANGED <<client, requests, responses, refusing, answered>>,
         client.error = "none" => StatementsInOrder' /\ Totals'
  PROVE  ImportInv'
<1>1. ImportType' BY DEF ImportInv, ImportType
<1>2. client.error = "none" => Batches'
  BY DEF ImportInv, Batches, Draining, Odd, NoSuccess, ResetPending
<1> QED BY <1>1, <1>2 DEF ImportInv

\* One more in the queue is one more to come.
LEMMA OneMore ==
  ASSUME NEW a \in Nat, NEW b \in Nat, NEW c \in Nat, NEW d \in Nat, NEW x \in Nat, a + b + c + d = x - 1
  PROVE  a + b + c + (d + 1) = (x + 1) - 1
OBVIOUS

LEMMA SendKeeps ==
  ASSUME ImportInv, SendStatement
  PROVE  ImportInv'
<1>0. ImportType /\ producer.state = "running" /\ UNCHANGED <<client, requests, responses, refusing, answered>>
  BY DEF SendStatement, ImportInv
<1>i. client.error = "none" => StatementsInOrder /\ Totals BY DEF ImportInv
<1>t. producer.next \in Nat \ {0} /\ queue \in Seq(Nat) /\ producer \in ProducerType BY <1>0, ImportTypes DEF ImportType
<1>1. CASE queue' = Append(queue, producer.next) /\ producer' = [producer EXCEPT !.next = @ + 1]
  <2>1. /\ queue' \in Seq(Nat) /\ Len(queue') = Len(queue) + 1
        /\ \A k \in 1..Len(queue) : queue'[k] = queue[k]
        /\ queue'[Len(queue) + 1] = producer.next
    BY <1>1, <1>t, AppendIs
  <2>2. producer' \in ProducerType /\ producer'.next = producer.next + 1
    <3> DEFINE n == producer.next + 1
    <3>1. n \in Nat \ {0} /\ producer' = [producer EXCEPT !.next = n] BY <1>1, <1>t
    <3> HIDE DEF n
    <3>2. producer' \in ProducerType /\ producer'.next = n BY <1>t, <3>1 DEF ProducerType
    <3> QED BY <3>2 DEF n
  <2>3. ASSUME client.error = "none" PROVE StatementsInOrder' /\ Totals'
    <3>1. StatementsInOrder /\ Totals BY <1>i, <2>3
    <3> DEFINE Over(y) == Above(y, answered, requests, client.out)
    <3>3. Over(producer.next) /\ Over(producer.next + 1)
      <4>1. Over(producer.next) BY <3>1 DEF StatementsInOrder
      <4>2. /\ \A e \in answered : e \in Nat
            /\ \A i \in 1..Len(requests) : requests[i].stmt \in Nat
            /\ \A i \in 1..Len(client.out) : client.out[i].stmt \in Nat
        <5>1. answered \subseteq Nat /\ requests \in Seq(Request) /\ client.out \in Seq(Request)
          BY <1>0, ImportTypes DEF ImportType
        <5>2. \A s \in Seq(Request) : \A i \in 1..Len(s) : s[i].stmt \in Nat BY RequestIs
        <5> QED BY <5>1, <5>2
      <4>3. \A e \in answered : e < producer.next + 1
        <5>1. \A e \in answered : e < producer.next BY <4>1 DEF Above
        <5> QED BY <4>2, <5>1, <1>t
      <4>4. PullsBelow(requests, producer.next + 1)
        <5>1. PullsBelow(requests, producer.next) BY <4>1 DEF Above
        <5> QED BY <4>2, <5>1, <1>t DEF PullsBelow
      <4>5. PullsBelow(client.out, producer.next + 1)
        <5>1. PullsBelow(client.out, producer.next) BY <4>1 DEF Above
        <5> QED BY <4>2, <5>1, <1>t DEF PullsBelow
      <4> QED BY <4>1, <4>3, <4>4, <4>5 DEF Above
    <3>4. \A k \in 1..Len(queue') : k \in 1..Len(queue) \/ k = Len(queue) + 1 BY <2>1, <1>t
    <3>5. \A k \in 1..Len(queue) : queue[k] \in Nat /\ queue[k] < producer.next /\ Over(queue[k])
      BY <1>t, <3>1 DEF StatementsInOrder
    <3>6. \A k \in 1..Len(queue') : Over(queue'[k]) /\ queue'[k] < producer'.next
      BY <1>t, <2>1, <2>2, <3>3, <3>4, <3>5
    <3>7. \A k, l \in 1..Len(queue') : k < l => queue'[k] < queue'[l]
      <4> SUFFICES ASSUME NEW k \in 1..Len(queue'), NEW l \in 1..Len(queue'), k < l
                   PROVE  queue'[k] < queue'[l]
        OBVIOUS
      <4>1. k \in 1..Len(queue) BY <1>t, <2>1, <3>4
      <4>2. CASE l \in 1..Len(queue) BY <2>1, <3>1, <4>1, <4>2 DEF StatementsInOrder
      <4>3. CASE l = Len(queue) + 1 BY <2>1, <3>5, <4>1, <4>3
      <4> QED BY <3>4, <4>2, <4>3
    <3>8. StatementsInOrder'
      BY <1>0, <2>2, <3>1, <3>3, <3>6, <3>7 DEF StatementsInOrder
    <3>9. Totals'
      <4>1. /\ client.count \in Nat /\ client.errors \in Nat /\ client.depth \in Nat /\ Len(queue) \in Nat
        BY <1>0, ImportTypes
      <4>2. /\ client.count + client.errors + client.depth + Len(queue) = producer.next - 1
            /\ ~client.last /\ client.at \notin {"close", "ended"}
        BY <1>0, <3>1 DEF Totals
      <4>3. client.count + client.errors + client.depth + Len(queue') = producer'.next - 1
        <5>1. Len(queue') = Len(queue) + 1 /\ producer'.next = producer.next + 1 /\ producer.next \in Nat
          BY <1>t, <2>1, <2>2
        <5>3. client.count + client.errors + client.depth + (Len(queue) + 1) = (producer.next + 1) - 1
          BY ONLY <4>1, <4>2, <5>1, OneMore, SMTT(40)
        <5> QED BY <5>1, <5>3
      <4>4. client' = client BY <1>0
      <4> QED BY <4>2, <4>3, <4>4 DEF Totals
    <3> QED BY <3>8, <3>9
  <2> QED BY <1>0, <2>1, <2>2, <2>3, ProducerKeeps
<1>2. CASE producer' = [producer EXCEPT !.state = "error"] /\ UNCHANGED queue
  <2>1. producer' \in ProducerType /\ producer'.next = producer.next /\ producer'.state = "error"
    BY <1>2, <1>t DEF ProducerType
  <2>2. StatementsInOrder => StatementsInOrder' BY <1>0, <1>2, <2>1 DEF StatementsInOrder, InOrder, PullsAbove, PullsBelow, Above
  <2>3. Totals => Totals' BY <1>0, <1>2, <2>1 DEF Totals
  <2> QED BY <1>0, <1>i, <1>2, <1>t, <2>1, <2>2, <2>3, ProducerKeeps
<1> QED BY <1>1, <1>2 DEF SendStatement

LEMMA StopKeeps ==
  ASSUME ImportInv, StopProducing
  PROVE  ImportInv'
<1>0. ImportType /\ UNCHANGED <<queue, client, requests, responses, refusing, answered>>
  BY DEF StopProducing, ImportInv
<1>i. client.error = "none" => StatementsInOrder /\ Totals BY DEF ImportInv
<1>t. queue \in Seq(Nat) /\ producer \in ProducerType BY <1>0 DEF ImportType
<1>1. producer' \in ProducerType /\ producer'.next = producer.next /\ producer'.state # "running"
  BY <1>t DEF ProducerType, StopProducing
<1>2. StatementsInOrder => StatementsInOrder' BY <1>0, <1>1 DEF StatementsInOrder, InOrder, PullsAbove, PullsBelow, Above
<1>3. Totals => Totals' BY <1>0, <1>1 DEF Totals
<1> QED BY <1>0, <1>i, <1>t, <1>1, <1>2, <1>3, ProducerKeeps

\* A statement joins the batch.
LEMMA QueueKeeps ==
  ASSUME ImportInv, Queue
  PROVE  ImportInv'
<1>0. /\ ImportType /\ client.at = "fill" /\ queue # <<>>
      /\ UNCHANGED <<producer, requests, responses, refusing, answered>>
      /\ queue' = Tail(queue)
  BY DEF Queue, ImportInv
<1>1. client.error = "none" /\ StatementsInOrder /\ Batches /\ Totals BY <1>0 DEF ImportInv
<1>t. /\ queue \in Seq(Nat) /\ client \in ClientType /\ client.out \in Seq(Request) /\ answered \in SUBSET Nat
      /\ client.depth \in Nat /\ client.count \in Nat /\ client.errors \in Nat /\ producer.next \in Nat
  BY <1>0, ImportTypes DEF ImportType
<1> DEFINE x == Head(queue)
<1> DEFINE t == client.out \o Pair(x)
<1>2. /\ queue' \in Seq(Nat) /\ Len(queue) \in Nat \ {0} /\ Len(queue') = Len(queue) - 1
      /\ \A k \in 1..Len(queue') : queue'[k] = queue[k + 1]
      /\ x = queue[1] /\ x \in Nat
  BY <1>0, <1>t, TailIs
<1>3. Alternates(client.out) /\ Len(client.out) = 2 * client.depth /\ requests = <<>> /\ responses = <<>>
      /\ Cardinality(answered) = client.count
  BY <1>0, <1>1 DEF Batches
<1>4. client' = [client EXCEPT !.depth = client.depth + 1, !.out = t] BY DEF Queue, Pair
<1>e. AddsPair(client.out, x, t) BY DEF AddsPair
<1> HIDE DEF x, t
<1>5. /\ t \in Seq(Request) /\ Len(t) = Len(client.out) + 2 /\ Alternates(t)
      /\ \A i \in 1..Len(client.out) : t[i] = client.out[i]
      /\ t[Len(client.out) + 1] = [kind |-> "RUN", stmt |-> x]
      /\ t[Len(client.out) + 2] = [kind |-> "PULL", stmt |-> x]
  <2>1. client.out \in Seq(Request) /\ Alternates(client.out) /\ x \in Nat BY <1>t, <1>2, <1>3
  <2> QED BY ONLY <1>e, <2>1, AlternatesPair
<1>d. t \in Seq(Request) /\ client.depth + 1 \in Nat BY <1>5, <1>t
<1>6. /\ client' \in ClientType /\ client'.at = "fill" /\ client'.out = t /\ client'.depth = client.depth + 1
      /\ client'.count = client.count /\ client'.errors = client.errors /\ client'.error = client.error
      /\ client'.last = client.last /\ client'.inFailed = client.inFailed
  BY <1>0, <1>t, <1>4, <1>d DEF ClientType
<1>7. ImportType' BY <1>0, <1>2, <1>6 DEF ImportType
<1>8. Batches'
  <2>0. Len(t) = Len(client.out) + 2 /\ Len(client.out) = 2 * client.depth /\ client.depth \in Nat
    BY <1>3, <1>t, <1>5
  <2>1. Alternates(client'.out) /\ Len(client'.out) = 2 * client'.depth
    <3>1. client'.depth = client.depth + 1 BY <1>6
    <3>2. Len(t) = 2 * client'.depth BY <2>0, <3>1
    <3> QED BY <1>5, <1>6, <3>2
  <2>2. /\ requests' = <<>> /\ responses' = <<>> /\ Cardinality(answered') = client'.count
    BY <1>0, <1>3, <1>6
  <2> QED BY <1>6, <2>1, <2>2 DEF Batches, Draining
<1>9. Totals' BY <1>0, <1>1, <1>2, <1>t, <1>6 DEF Totals
<1>10. StatementsInOrder'
  <2> DEFINE out == client.out
  <2>0. out \in Seq(Request) /\ Len(out) \in Nat BY <1>t
  <2>1. /\ InOrder(out) /\ PullsAbove(out, answered) /\ Above(x, answered, requests, out) /\ x < producer.next
        /\ Above(producer.next, answered, requests, out)
    BY <1>1, <1>2 DEF StatementsInOrder
  <2>2. \A k \in 1..Len(queue') : /\ x < queue'[k] /\ Above(queue'[k], answered, requests, out)
                                   /\ queue'[k] < producer.next
    <3> TAKE k \in 1..Len(queue')
    <3>1. k + 1 \in 1..Len(queue) /\ 1 \in 1..Len(queue) /\ queue'[k] = queue[k + 1] /\ 1 < k + 1 BY <1>2
    <3> QED BY <1>1, <1>2, <3>1 DEF StatementsInOrder
  <2> HIDE DEF out
  <2>3. /\ Len(t) = Len(out) + 2 /\ \A i \in 1..Len(out) : t[i] = out[i]
        /\ t[Len(out) + 1].kind = "RUN" /\ t[Len(out) + 2].stmt = x /\ t[Len(out) + 2].kind = "PULL"
    BY <1>5 DEF out
  <2>4. \A i \in 1..Len(t) : i \in 1..Len(out) \/ i = Len(out) + 1 \/ i = Len(out) + 2
    BY <2>0, <2>3
  <2>5. InOrder(t)
    <3> SUFFICES ASSUME NEW i \in 1..Len(t), NEW j \in 1..Len(t), i < j, t[i].kind = "PULL", t[j].kind = "PULL"
                 PROVE  t[i].stmt < t[j].stmt
      BY DEF InOrder
    <3>1. i \in 1..Len(out) BY <2>0, <2>3, <2>4
    <3>2. CASE j \in 1..Len(out) BY <2>1, <2>3, <3>1, <3>2 DEF InOrder
    <3>3. CASE j = Len(out) + 2 BY <2>1, <2>3, <3>1, <3>3 DEF Above, PullsBelow
    <3> QED BY <2>3, <2>4, <3>2, <3>3
  <2>6. PullsAbove(t, answered) BY <2>1, <2>3, <2>4 DEF PullsAbove, Above
  <2>7. ASSUME NEW y, Above(y, answered, requests, out), x < y PROVE Above(y, answered, requests, t)
    BY <2>3, <2>4, <2>7 DEF Above, PullsBelow
  <2>8. \A k, l \in 1..Len(queue') : k < l => queue'[k] < queue'[l]
    <3> SUFFICES ASSUME NEW k \in 1..Len(queue'), NEW l \in 1..Len(queue'), k < l
                 PROVE  queue'[k] < queue'[l]
      OBVIOUS
    <3>1. k + 1 \in 1..Len(queue) /\ l + 1 \in 1..Len(queue) /\ k + 1 < l + 1 BY <1>2
    <3> QED BY <1>1, <1>2, <3>1 DEF StatementsInOrder
  <2>9. InOrder(requests) /\ PullsAbove(requests, answered) BY <1>1 DEF StatementsInOrder
  <2> QED BY <1>0, <1>6, <2>1, <2>2, <2>5, <2>6, <2>7, <2>8, <2>9 DEF StatementsInOrder
<1>11. client'.count <= Cardinality(answered') BY <1>0, <1>6 DEF ImportInv
<1> QED BY <1>1, <1>6, <1>7, <1>8, <1>9, <1>10, <1>11 DEF ImportInv

\* The order needs only the sequences and what was answered.
LEMMA OrderKept ==
  ASSUME StatementsInOrder, UNCHANGED <<producer, queue, answered>>,
         client'.out = <<>>, requests' = requests \/ (requests = <<>> /\ requests' = client.out)
  PROVE  StatementsInOrder'
<1>1. InOrder(<<>>) /\ PullsAbove(<<>>, answered) /\ \A x : PullsBelow(<<>>, x)
  BY DEF InOrder, PullsAbove, PullsBelow
<1>2. /\ InOrder(requests') /\ PullsAbove(requests', answered)
      /\ \A x : Above(x, answered, requests, client.out) => PullsBelow(requests', x)
  BY DEF StatementsInOrder, Above
<1>3. \A x : Above(x, answered, requests, client.out) => Above(x, answered', requests', client'.out)
  BY <1>1, <1>2 DEF Above
<1> QED BY <1>1, <1>2, <1>3 DEF StatementsInOrder

\* The batch goes out: no answer is read or missing.
LEMMA FlushKeeps ==
  ASSUME ImportInv, Flush
  PROVE  ImportInv'
<1>0. /\ ImportType /\ client.at = "fill" /\ client.depth > 0
      /\ UNCHANGED <<producer, queue, responses, refusing, answered>>
      /\ requests' = requests \o client.out
  BY DEF Flush, ImportInv
<1>1. client.error = "none" /\ StatementsInOrder /\ Batches /\ Totals BY <1>0 DEF ImportInv
<1>t. /\ client \in ClientType /\ client.out \in Seq(Request) /\ client.depth \in Nat
      /\ client.count \in Nat /\ Cardinality(answered) \in Nat
  BY <1>0, ImportTypes DEF ImportType
<1>2. /\ Alternates(client.out) /\ Len(client.out) = 2 * client.depth /\ requests = <<>>
      /\ responses = <<>> /\ Cardinality(answered) = client.count
  BY <1>0, <1>1 DEF Batches
<1>3. requests' = client.out BY <1>0, <1>2, <1>t
<1> DEFINE b == queue = <<>> /\ producer.state # "running" /\ client.depth < BatchSize
<1>4. client' = [client EXCEPT !.at = "run", !.out = <<>>, !.inFailed = FALSE, !.last = b]
  BY DEF Flush
<1>5. b \in BOOLEAN /\ (b => queue = <<>> /\ producer.state # "running") /\ <<>> \in Seq(Request) OBVIOUS
<1> HIDE DEF b
<1>6. /\ client' \in ClientType /\ client'.at = "run" /\ client'.out = <<>> /\ ~client'.inFailed
      /\ client'.last = b /\ client'.depth = client.depth /\ client'.count = client.count
      /\ client'.errors = client.errors /\ client'.error = client.error
  BY <1>t, <1>4, <1>5 DEF ClientType
<1>7. ImportType' BY <1>0, <1>3, <1>6, <1>t DEF ImportType
<1>8. StatementsInOrder' BY <1>0, <1>1, <1>2, <1>3, <1>6, OrderKept
<1>9. Totals' BY <1>0, <1>1, <1>5, <1>6 DEF Totals
<1>10. Batches'
  <2>1. Len(requests') + Len(responses') = 2 * client'.depth BY <1>0, <1>2, <1>3, <1>6, <1>t
  <2>2. /\ Len(responses') = 0 /\ Odd' = 0 /\ Cardinality(answered') = client'.count /\ client'.count \in Nat
        /\ refusing' \in BOOLEAN
    BY <1>0, <1>2, <1>6, <1>t DEF Odd, ImportType
  <2>3. Pending(responses', refusing', 0, client'.count, client'.count, 0, 0) BY <2>2 DEF Pending
  <2>4. IsPending(responses', refusing', 0, client'.count, client'.count) BY <2>2, <2>3 DEF IsPending
  <2>5. Alternates(requests') BY <1>2, <1>3
  <2>6. client'.depth > 0 BY <1>0, <1>6
  <2> QED BY <1>6, <2>1, <2>2, <2>4, <2>5, <2>6 DEF Batches, Draining
<1>11. client'.count <= Cardinality(answered') BY <1>0, <1>6 DEF ImportInv
<1> QED BY <1>1, <1>6, <1>7, <1>8, <1>9, <1>10, <1>11 DEF ImportInv

\* The import loop stops without an error.
LEMMA NothingLeftKeeps ==
  ASSUME ImportInv, NothingLeft
  PROVE  ImportInv'
<1>0. /\ ImportType /\ client.at = "fill" /\ client.depth = 0 /\ queue = <<>> /\ producer.state # "running"
      /\ UNCHANGED <<producer, queue, requests, responses, refusing, answered>>
      /\ client' = [client EXCEPT !.at = "close"]
  BY DEF NothingLeft, ImportInv
<1>1. client.error = "none" /\ StatementsInOrder /\ Batches /\ Totals BY <1>0 DEF ImportInv
<1>2. client \in ClientType BY <1>0 DEF ImportType
<1>3. /\ client' \in ClientType /\ client'.at = "close" /\ client'.out = client.out
      /\ client'.last = client.last /\ client'.depth = client.depth /\ client'.count = client.count
      /\ client'.errors = client.errors /\ client'.error = client.error
  BY <1>0, <1>2 DEF ClientType
<1>4. ImportType' BY <1>0, <1>3 DEF ImportType
<1>5. StatementsInOrder' BY <1>0, <1>1, <1>3 DEF StatementsInOrder
<1>6. Totals' BY <1>0, <1>1, <1>3 DEF Totals, Batches
<1>7. Batches' BY <1>3 DEF Batches, Draining
<1>8. client'.count <= Cardinality(answered') BY <1>0, <1>3 DEF ImportInv
<1> QED BY <1>1, <1>3, <1>4, <1>5, <1>6, <1>7, <1>8 DEF ImportInv

\* The import gives up: what it has counted was answered.
LEMMA GiveUpKeeps ==
  ASSUME ImportInv, NEW why \in {"reset", "io"}, client' = GiveUp(client, why),
         requests' \in Seq(Request), responses' \in Seq(Answers),
         UNCHANGED <<producer, queue, refusing, answered>>
  PROVE  ImportInv'
<1>1. ImportType /\ client \in ClientType BY DEF ImportInv, ImportType
<1>2. client' = [client EXCEPT !.at = "close", !.error = why, !.depth = 0] BY DEF GiveUp
<1>3. client' \in ClientType /\ client'.at = "close" /\ client'.error = why /\ client'.count = client.count
  <2>1. client \in ClientType /\ why \in {"none", "reset", "io"} /\ 0 \in Nat BY <1>1
  <2>2. client' \in ClientType BY <1>2, <2>1 DEF ClientType
  <2>3. client'.at = "close" /\ client'.error = why /\ client'.count = client.count
    BY <1>2, <2>1 DEF ClientType
  <2> QED BY <2>2, <2>3
<1>4. ImportType' BY <1>1, <1>3 DEF ImportType
<1> QED BY <1>3, <1>4 DEF ImportInv

\* The channel is dropped and the producer joined.
LEMMA CloseKeeps ==
  ASSUME ImportInv, CloseChannel \/ JoinProducer
  PROVE  ImportInv'
<1>1. ImportType /\ client \in ClientType BY DEF ImportInv, ImportType
<1>2. /\ client.at = "close" /\ UNCHANGED <<producer, queue, requests, responses, refusing, answered>>
      /\ client' = [client EXCEPT !.open = FALSE] \/ client' = [client EXCEPT !.at = "ended"]
  BY DEF CloseChannel, JoinProducer
<1>3. /\ client' \in ClientType /\ client'.at \in {"close", "ended"} /\ client'.out = client.out
      /\ client'.last = client.last /\ client'.depth = client.depth /\ client'.count = client.count
      /\ client'.errors = client.errors /\ client'.error = client.error
  BY <1>1, <1>2 DEF ClientType
<1>4. ImportType' BY <1>1, <1>2, <1>3 DEF ImportType
<1>5. StatementsInOrder => StatementsInOrder' BY <1>2, <1>3 DEF StatementsInOrder
<1>6. Totals => Totals' BY <1>2, <1>3 DEF Totals
<1>7. Batches' BY <1>3 DEF Batches, Draining
<1>8. client'.count <= Cardinality(answered') BY <1>2, <1>3 DEF ImportInv
<1> QED BY <1>3, <1>4, <1>5, <1>6, <1>7, <1>8 DEF ImportInv

\* The first of a pair's two answers is read, or the second.
LEMMA HalfRead ==
  ASSUME NEW m \in Nat, NEW p \in Nat, NEW k \in Nat, k + 1 = m
  PROVE  (m + 0 = 2 * p => k + 1 = 2 * p) /\ (m + 0 = 2 * p + 1 => k + 1 = 2 * p + 1)
OBVIOUS

LEMMA PairRead ==
  ASSUME NEW m \in Nat, NEW p \in Nat, NEW k \in Nat, k + 1 = m
  PROVE  /\ m + 1 = 2 * p => k + 0 = 2 * (p - 1) /\ p - 1 \in Nat
         /\ m + 1 = 2 * p + 1 => k + 0 = 2 * (p - 1) + 1 /\ p - 1 \in Nat
         /\ (k = 0 /\ (m + 1 = 2 * p \/ m + 1 = 2 * p + 1)) => p = 1
OBVIOUS

\* A success is read.
LEMMA PendingSuccess ==
  ASSUME NEW s \in Seq(Answers), s # <<>>, s[1] = "SUCCESS", NEW stuck \in BOOLEAN, NEW odd \in {0, 1},
         NEW count \in Nat, NEW n \in Nat, IsPending(s, stuck, odd, count, n)
  PROVE  /\ odd = 0 => IsPending(Tail(s), stuck, 1, count, n)
         /\ odd = 1 => IsPending(Tail(s), stuck, 0, count + 1, n) /\ count + 1 <= n
         /\ odd = 1 /\ Len(s) = 1 => count + 1 = n
<1>1. PICK m \in 0..Len(s), p \in 0..n : Pending(s, stuck, odd, count, n, m, p) BY DEF IsPending
<1>2. /\ Len(s) \in Nat \ {0} /\ Len(Tail(s)) = Len(s) - 1
      /\ \A i \in 1..Len(Tail(s)) : Tail(s)[i] = s[i + 1]
  BY TailIs
<1>3. m >= 1
  <2>1. m = 0 => 1 \in (m + 1)..Len(s) BY <1>2
  <2> QED BY <1>1, <2>1 DEF Pending
<1>4. (\A i \in 1..(m - 1) : Tail(s)[i] = "SUCCESS") /\ (\A i \in m..Len(Tail(s)) : Tail(s)[i] # "SUCCESS")
  <2>1. ASSUME NEW i \in 1..(m - 1) PROVE Tail(s)[i] = "SUCCESS"
    <3>1. i \in 1..Len(Tail(s)) /\ i + 1 \in 1..m BY <1>2, <1>3
    <3> QED BY <1>1, <1>2, <3>1 DEF Pending
  <2>2. ASSUME NEW i \in m..Len(Tail(s)) PROVE Tail(s)[i] # "SUCCESS"
    <3>1. i \in 1..Len(Tail(s)) /\ i + 1 \in (m + 1)..Len(s) BY <1>2, <1>3
    <3> QED BY <1>1, <1>2, <3>1 DEF Pending
  <2> QED BY <2>1, <2>2
<1> DEFINE k == m - 1
<1> DEFINE L == Len(Tail(s))
<1>5. /\ k \in Nat /\ k + 1 = m /\ L + 1 = Len(s) /\ L \in Nat /\ k \in 0..L /\ m \in Nat
      /\ Len(s) = 1 => k = 0
  BY <1>2, <1>3
<1>6. /\ ~stuck => m = Len(s)
      /\ m + odd = 2 * p \/ m + odd = 2 * p + 1
      /\ n = count + p /\ p \in Nat
  BY <1>1 DEF Pending
<1>7. (\A i \in 1..k : Tail(s)[i] = "SUCCESS") /\ (\A i \in (k + 1)..L : Tail(s)[i] # "SUCCESS")
  BY <1>4, <1>5
<1> HIDE DEF k
<1>8. ASSUME odd = 0 PROVE IsPending(Tail(s), stuck, 1, count, n)
  <2>1. (~stuck => k = L) /\ (k + 1 = 2 * p \/ k + 1 = 2 * p + 1)
    <3>1. (m + 0 = 2 * p => k + 1 = 2 * p) /\ (m + 0 = 2 * p + 1 => k + 1 = 2 * p + 1)
      <4>1. m \in Nat /\ p \in Nat /\ k \in Nat /\ k + 1 = m BY <1>5, <1>6
      <4> QED BY ONLY <4>1, HalfRead
    <3>2. ~stuck => k = L
      <4>1. ~stuck => k + 1 = L + 1 BY <1>5, <1>6
      <4>2. k \in Nat /\ L \in Nat BY <1>5
      <4> QED BY <4>1, <4>2
    <3>3. m + 0 = 2 * p \/ m + 0 = 2 * p + 1 BY <1>6, <1>8
    <3> QED BY <3>1, <3>2, <3>3
  <2>2. Pending(Tail(s), stuck, 1, count, n, k, p) BY <1>6, <1>7, <2>1 DEF Pending
  <2> QED BY <1>5, <2>2 DEF IsPending
<1>9. ASSUME odd = 1
      PROVE  /\ IsPending(Tail(s), stuck, 0, count + 1, n) /\ count + 1 <= n
             /\ Len(s) = 1 => count + 1 = n
  <2> DEFINE q == p - 1
  <2>h. m + 1 = 2 * p \/ m + 1 = 2 * p + 1 BY <1>6, <1>9
  <2>i. /\ m + 1 = 2 * p => k + 0 = 2 * q /\ q \in Nat
        /\ m + 1 = 2 * p + 1 => k + 0 = 2 * q + 1 /\ q \in Nat
        /\ (k = 0 /\ (m + 1 = 2 * p \/ m + 1 = 2 * p + 1)) => p = 1
    <3>1. m \in Nat /\ p \in Nat /\ k \in Nat /\ k + 1 = m BY <1>5, <1>6
    <3>2. /\ m + 1 = 2 * p => k + 0 = 2 * (p - 1) /\ p - 1 \in Nat
          /\ m + 1 = 2 * p + 1 => k + 0 = 2 * (p - 1) + 1 /\ p - 1 \in Nat
          /\ (k = 0 /\ (m + 1 = 2 * p \/ m + 1 = 2 * p + 1)) => p = 1
      BY ONLY <3>1, PairRead
    <3> QED BY <3>2
  <2>1. /\ q \in Nat /\ p = q + 1 /\ n = count + 1 + q
    <3>1. q \in Nat BY <2>h, <2>i
    <3>2. n = count + p /\ p \in Nat BY <1>6
    <3> QED BY <3>1, <3>2
  <2>2. q \in 0..n BY <2>1
  <2> HIDE DEF q
  <2>3. /\ ~stuck => k = L
        /\ k + 0 = 2 * q \/ k + 0 = 2 * q + 1
    <3>1. ~stuck => k = L
      <4>1. ~stuck => k + 1 = L + 1 BY <1>5, <1>6
      <4>2. k \in Nat /\ L \in Nat BY <1>5
      <4> QED BY <4>1, <4>2
    <3> QED BY <2>h, <2>i, <3>1
  <2>4. Pending(Tail(s), stuck, 0, count + 1, n, k, q) BY <1>7, <2>1, <2>3 DEF Pending
  <2>5. count + 1 <= n BY <2>1
  <2>6. Len(s) = 1 => count + 1 = n
    <3>1. k = 0 => p = 1 BY <2>h, <2>i
    <3> QED BY <1>5, <1>6, <3>1
  <2>7. IsPending(Tail(s), stuck, 0, count + 1, n) BY <1>5, <2>2, <2>4 DEF IsPending
  <2> QED BY <2>5, <2>6, <2>7
<1> QED BY <1>8, <1>9

\* Something else is read: the session refuses, and every success was counted.
LEMMA PendingOther ==
  ASSUME NEW s \in Seq(Answers), s # <<>>, s[1] # "SUCCESS", NEW stuck \in BOOLEAN, NEW odd \in {0, 1},
         NEW count \in Nat, NEW n \in Nat, IsPending(s, stuck, odd, count, n)
  PROVE  stuck /\ n = count /\ NoSuccess(s)
<1>1. PICK m \in 0..Len(s), p \in 0..n : Pending(s, stuck, odd, count, n, m, p) BY DEF IsPending
<1>2. Len(s) \in Nat \ {0} BY TailIs
<1>3. m = 0
  <2>1. m # 0 => 1 \in 1..m BY <1>2
  <2> QED BY <1>1, <2>1 DEF Pending
<1>4. stuck /\ (odd = 2 * p \/ odd = 2 * p + 1) /\ n = count + p
  BY <1>1, <1>2, <1>3 DEF Pending
<1>5. n = count
  <2>1. p = 0 BY ONLY <1>4, p \in Nat, odd \in {0, 1}
  <2> QED BY <1>4, <2>1
<1>6. NoSuccess(s) BY <1>1, <1>3 DEF Pending, NoSuccess
<1> QED BY <1>4, <1>5, <1>6

\* What remains without the first answer.
LEMMA NoSuccessTail ==
  ASSUME NEW s \in Seq(Answers), s # <<>>, NoSuccess(s)
  PROVE  NoSuccess(Tail(s))
<1>1. /\ Len(s) \in Nat \ {0} /\ Len(Tail(s)) = Len(s) - 1
      /\ \A i \in 1..Len(Tail(s)) : Tail(s)[i] = s[i + 1]
  BY TailIs
<1>2. \A i \in 1..Len(Tail(s)) : i + 1 \in 1..Len(s) BY <1>1
<1> QED BY <1>1, <1>2 DEF NoSuccess

\* Answers arrive.
LEMMA NoSuccessAppend ==
  ASSUME NEW s \in Seq(Answers), NoSuccess(s), NEW a \in Answers, a # "SUCCESS"
  PROVE  NoSuccess(Append(s, a))
<1>1. /\ Len(Append(s, a)) = Len(s) + 1 /\ Len(s) \in Nat
      /\ \A i \in 1..Len(s) : Append(s, a)[i] = s[i]
      /\ Append(s, a)[Len(s) + 1] = a
  BY AppendIs
<1>2. \A i \in 1..Len(Append(s, a)) : i \in 1..Len(s) \/ i = Len(s) + 1 BY <1>1
<1> QED BY <1>1, <1>2 DEF NoSuccess

LEMMA PendingAppendOther ==
  ASSUME NEW s \in Seq(Answers), NEW stuck \in BOOLEAN, NEW odd \in {0, 1},
         NEW count \in Nat, NEW n \in Nat, IsPending(s, stuck, odd, count, n),
         NEW a \in Answers, a # "SUCCESS"
  PROVE  IsPending(Append(s, a), TRUE, odd, count, n)
<1>1. PICK m \in 0..Len(s), p \in 0..n : Pending(s, stuck, odd, count, n, m, p) BY DEF IsPending
<1>2. /\ Len(Append(s, a)) = Len(s) + 1 /\ Len(s) \in Nat
      /\ \A i \in 1..Len(s) : Append(s, a)[i] = s[i]
      /\ Append(s, a)[Len(s) + 1] = a
  BY AppendIs
<1>3. \A i \in 1..m : i \in 1..Len(s) BY <1>2
<1>4. \A i \in (m + 1)..Len(Append(s, a)) : i \in (m + 1)..Len(s) \/ i = Len(s) + 1 BY <1>2
<1>5. \A i \in (m + 1)..Len(s) : i \in 1..Len(s) BY <1>2
<1>6. (m + odd = 2 * p \/ m + odd = 2 * p + 1) /\ n = count + p BY <1>1 DEF Pending
<1>7. (\A i \in 1..m : Append(s, a)[i] = "SUCCESS") /\ \A i \in (m + 1)..Len(Append(s, a)) : Append(s, a)[i] # "SUCCESS"
  BY <1>1, <1>2, <1>3, <1>4, <1>5 DEF Pending
<1>8. Pending(Append(s, a), TRUE, odd, count, n, m, p) BY <1>6, <1>7 DEF Pending
<1>9. m \in 0..Len(Append(s, a)) BY <1>2
<1> QED BY <1>8, <1>9 DEF IsPending

\* The answer to a RUN opens a pair; the answer to a PULL completes it, and one
\* more statement is answered.
LEMMA PendingAppendSuccess ==
  ASSUME NEW s \in Seq(Answers), NEW odd \in {0, 1},
         NEW count \in Nat, NEW n \in Nat, IsPending(s, FALSE, odd, count, n)
  PROVE  /\ (Len(s) + odd) % 2 = 0 => IsPending(Append(s, "SUCCESS"), FALSE, odd, count, n)
         /\ (Len(s) + odd) % 2 = 1 => IsPending(Append(s, "SUCCESS"), FALSE, odd, count, n + 1)
<1>1. PICK m \in 0..Len(s), p \in 0..n : Pending(s, FALSE, odd, count, n, m, p) BY DEF IsPending
<1> DEFINE t == Append(s, "SUCCESS")
<1>2. /\ Len(t) = Len(s) + 1 /\ Len(s) \in Nat
      /\ \A i \in 1..Len(s) : t[i] = s[i]
      /\ t[Len(s) + 1] = "SUCCESS"
  BY AppendIs DEF Answers
<1> HIDE DEF t
<1>3. /\ m = Len(s) /\ n = count + p
      /\ Len(s) + odd = 2 * p \/ Len(s) + odd = 2 * p + 1
  BY <1>1 DEF Pending
<1>4. \A i \in 1..Len(t) : i \in 1..Len(s) \/ i = Len(s) + 1 BY <1>2
<1>5. \A i \in 1..Len(t) : t[i] = "SUCCESS" BY <1>1, <1>2, <1>3, <1>4 DEF Pending
<1>6. (Len(t) + 1)..Len(t) = {} /\ Len(t) \in 0..Len(t) BY <1>2
<1>7. ASSUME (Len(s) + odd) % 2 = 0 PROVE IsPending(t, FALSE, odd, count, n)
  <2>1. Len(s) + odd = 2 * p BY <1>2, <1>3, <1>7
  <2>2. Len(t) + odd = 2 * p + 1 BY <1>2, <2>1
  <2>3. Pending(t, FALSE, odd, count, n, Len(t), p) BY <1>3, <1>5, <1>6, <2>2 DEF Pending
  <2> QED BY <1>6, <2>3 DEF IsPending
<1>8. ASSUME (Len(s) + odd) % 2 = 1 PROVE IsPending(t, FALSE, odd, count, n + 1)
  <2>1. Len(s) + odd = 2 * p + 1 BY <1>2, <1>3, <1>8
  <2>2. Len(t) + odd = 2 * (p + 1) /\ n + 1 = count + (p + 1) BY <1>2, <1>3, <2>1
  <2>3. Pending(t, FALSE, odd, count, n + 1, Len(t), p + 1) BY <1>5, <1>6, <2>2 DEF Pending
  <2>4. p + 1 \in 0..(n + 1) OBVIOUS
  <2> QED BY <1>6, <2>3, <2>4 DEF IsPending
<1> QED BY <1>7, <1>8 DEF t

\* The pair's answers have been read: the next pair, or the end of the batch.
LEMMA PairDoneKeeps ==
  ASSUME ImportInv, client.at \in {"pull", "reset"}, responses # <<>>,
         NEW c \in ClientType, c.out = client.out, c.depth = client.depth, c.last = client.last,
         c.error = client.error, client' = PairDone(c), c.count + c.errors = client.count + client.errors + 1,
         UNCHANGED <<producer, queue, requests, refusing, answered>>, responses' = Tail(responses),
         c.count <= Cardinality(answered),
         c.depth = 1 => c.count = Cardinality(answered),
         c.depth > 1 => Alternates(requests),
         (c.depth > 1 /\ c.inFailed) => /\ refusing /\ NoSuccess(Tail(responses))
                                        /\ c.count = Cardinality(answered),
         (c.depth > 1 /\ ~c.inFailed) =>
           IsPending(Tail(responses), refusing, 0, c.count, Cardinality(answered))
  PROVE  ImportInv'
<1>0. ImportType /\ client.error = "none" /\ StatementsInOrder /\ Batches /\ Totals
  BY DEF ImportInv
<1>t. /\ client.depth \in Nat /\ client.count \in Nat /\ client.errors \in Nat /\ Len(queue) \in Nat
      /\ producer.next \in Nat /\ Len(requests) \in Nat /\ responses \in Seq(Answers)
      /\ requests \in Seq(Request)
  BY <1>0, ImportTypes DEF ImportType
<1>c. c.count \in Nat /\ c.errors \in Nat /\ c.depth \in Nat BY DEF ClientType
<1>1. responses' \in Seq(Answers) /\ Len(responses) \in Nat \ {0} /\ Len(responses') = Len(responses) - 1
  BY <1>t, TailIs
<1>2. /\ client.out = <<>> /\ client.depth > 0
      /\ Len(requests) + Len(responses) = 2 * client.depth - 1
  BY <1>0 DEF Batches, Draining
<1>3. CASE c.depth > 1
  <2>1. client' = [c EXCEPT !.depth = c.depth - 1, !.at = "run"] BY <1>3 DEF PairDone
  <2>2. c.depth - 1 \in Nat BY <1>3, <1>c
  <2>3. /\ client' \in ClientType /\ client'.at = "run" /\ client'.depth = c.depth - 1
        /\ client'.out = c.out /\ client'.last = c.last /\ client'.error = c.error
        /\ client'.count = c.count /\ client'.errors = c.errors /\ client'.inFailed = c.inFailed
    BY <2>1, <2>2 DEF ClientType
  <2>4. ImportType' BY <1>0, <1>1, <2>3 DEF ImportType
  <2>5. StatementsInOrder' BY <1>0, <1>2, <2>3, OrderKept
  <2>6. Len(requests') + Len(responses') = 2 * client'.depth /\ client'.depth > 0
    <3>1. client'.depth = client.depth - 1 /\ Len(requests') = Len(requests) /\ client.depth > 1 BY <1>3, <2>3
    <3>2. /\ Len(responses') = Len(responses) - 1 /\ Len(responses) \in Nat /\ Len(requests) \in Nat
          /\ Len(requests) + Len(responses) = 2 * client.depth - 1 /\ client.depth \in Nat
      BY <1>1, <1>2, <1>t
    <3>3. Len(requests) + (Len(responses) - 1) = 2 * (client.depth - 1) /\ client.depth - 1 > 0
      BY <3>1, <3>2
    <3> QED BY <3>1, <3>2, <3>3
  <2>7. client'.count + client'.errors + client'.depth + Len(queue') = producer'.next - 1
    <3>1. /\ client.count + client.errors + client.depth + Len(queue) = producer.next - 1
      BY <1>0 DEF Totals
    <3>2. client'.count = c.count /\ client'.errors = c.errors /\ client'.depth = client.depth - 1
      BY <2>3
    <3>3. c.count + c.errors + (client.depth - 1) + Len(queue) = producer.next - 1
      BY <1>c, <1>t, <3>1, SMTT(40)
    <3> QED BY <3>2, <3>3
  <2>8. Totals' BY <1>0, <2>3, <2>7 DEF Totals
  <2>9. Odd' = 0 BY <2>3 DEF Odd
  <2>10. Batches' BY <1>2, <1>3, <2>3, <2>6, <2>9 DEF Batches, Draining
  <2>11. client'.count <= Cardinality(answered') BY <2>3
  <2> QED BY <1>0, <2>3, <2>4, <2>5, <2>8, <2>10, <2>11 DEF ImportInv
<1>4. CASE ~(c.depth > 1)
  <2> DEFINE p == IF c.last THEN "close" ELSE "fill"
  <2>1. client' = [c EXCEPT !.depth = 0, !.at = p] BY <1>4 DEF PairDone
  <2>2. p \in {"close", "fill"} /\ (p = "close" => c.last) OBVIOUS
  <2> HIDE DEF p
  <2>3. /\ client' \in ClientType /\ client'.at = p /\ client'.depth = 0
        /\ client'.out = c.out /\ client'.last = c.last /\ client'.error = c.error
        /\ client'.count = c.count /\ client'.errors = c.errors /\ client'.inFailed = c.inFailed
    <3>1. c \in ClientType /\ 0 \in Nat
          /\ p \in {"fill", "run", "pull", "skip", "reset", "close", "ended"}
      BY <2>2
    <3>2. client' \in ClientType BY <2>1, <3>1 DEF ClientType
    <3>3. /\ client'.at = p /\ client'.depth = 0
          /\ client'.out = c.out /\ client'.last = c.last /\ client'.error = c.error
          /\ client'.count = c.count /\ client'.errors = c.errors /\ client'.inFailed = c.inFailed
      BY <2>1, <3>1 DEF ClientType
    <3> QED BY <3>2, <3>3
  <2>4. ImportType' BY <1>0, <1>1, <2>3 DEF ImportType
  <2>5. StatementsInOrder' BY <1>0, <1>2, <2>3, OrderKept
  <2>6. c.depth = 1 BY <1>2, <1>4, <1>c
  <2>7. Len(requests) = 0 /\ Len(responses') = 0 BY <1>1, <1>2, <1>t, <2>6
  <2>8. requests' = <<>> /\ responses' = <<>> BY <1>1, <1>t, <2>7
  <2>9. client'.count + client'.errors + client'.depth + Len(queue') = producer'.next - 1
    <3>1. /\ client.count + client.errors + client.depth + Len(queue) = producer.next - 1
      BY <1>0 DEF Totals
    <3>2. client'.count = c.count /\ client'.errors = c.errors /\ client'.depth = 0 /\ client.depth = 1
      BY <2>3, <2>6
    <3>3. c.count + c.errors + 0 + Len(queue) = producer.next - 1
      BY <1>c, <1>t, <3>1, <3>2
    <3> QED BY <3>2, <3>3
  <2>10. Cardinality(answered') = client'.count BY <2>3, <2>6
  <2>11. Totals'
    <3>1. client'.last => queue' = <<>> /\ producer'.state # "running" BY <1>0, <2>3 DEF Totals
    <3> QED BY <2>2, <2>3, <2>8, <2>9, <2>10, <3>1 DEF Totals
  <2>12. Batches'
    <3>1. Alternates(client'.out) /\ Len(client'.out) = 2 * client'.depth
      <4>1. client'.out = <<>> /\ client'.depth = 0 BY <1>2, <2>3
      <4>2. Len(<<>>) = 0 /\ 0 = 2 * 0 OBVIOUS
      <4>3. Alternates(<<>>) BY DEF Alternates
      <4> QED BY <4>1, <4>2, <4>3
    <3> QED BY <2>2, <2>3, <2>8, <2>10, <3>1 DEF Batches, Draining
  <2>13. client'.count <= Cardinality(answered') BY <2>3
  <2> QED BY <1>0, <2>3, <2>4, <2>5, <2>11, <2>12, <2>13 DEF ImportInv
<1> QED BY <1>3, <1>4

\* The first answer of a pair is read.
LEMMA ReadRunKeeps ==
  ASSUME ImportInv, client.at = "run", responses # <<>>,
         NEW b \in BOOLEAN, NEW p \in {"pull", "skip"},
         client' = [client EXCEPT !.at = p, !.inFailed = b],
         UNCHANGED <<producer, queue, requests, refusing, answered>>, responses' = Tail(responses),
         p = "skip" => b,
         b => /\ refusing /\ NoSuccess(Tail(responses)) /\ client.count = Cardinality(answered),
         ~b => IsPending(Tail(responses), refusing, 1, client.count, Cardinality(answered))
  PROVE  ImportInv'
<1>0. ImportType /\ client.error = "none" /\ StatementsInOrder /\ Batches /\ Totals
  BY DEF ImportInv
<1>t. /\ client.depth \in Nat /\ Len(requests) \in Nat /\ responses \in Seq(Answers)
      /\ client \in ClientType
  BY <1>0, ImportTypes DEF ImportType
<1>1. responses' \in Seq(Answers) /\ Len(responses) \in Nat \ {0} /\ Len(responses') = Len(responses) - 1
  BY <1>t, TailIs
<1>2. /\ client.out = <<>> /\ client.depth > 0 /\ Alternates(requests)
      /\ Len(requests) + Len(responses) = 2 * client.depth
  BY <1>0 DEF Batches, Draining
<1>3. /\ client' \in ClientType /\ client'.at = p /\ client'.depth = client.depth
      /\ client'.out = client.out /\ client'.last = client.last /\ client'.error = client.error
      /\ client'.count = client.count /\ client'.errors = client.errors /\ client'.inFailed = b
  BY <1>t DEF ClientType
<1>4. ImportType' BY <1>0, <1>1, <1>3 DEF ImportType
<1>5. StatementsInOrder' BY <1>0, <1>2, <1>3, OrderKept
<1>6. Totals' BY <1>0, <1>3 DEF Totals
<1>7. Len(requests') + Len(responses') = 2 * client'.depth - 1
  <2>1. Len(requests') = Len(requests) /\ client'.depth = client.depth BY <1>3
  <2> QED BY <1>1, <1>2, <1>t, <2>1
<1>8. p = "pull" => Odd' = 1 BY <1>3 DEF Odd
<1>9. Batches' BY <1>2, <1>3, <1>7, <1>8 DEF Batches, Draining
<1>10. client'.count <= Cardinality(answered') BY <1>3 DEF ImportInv
<1> QED BY <1>0, <1>3, <1>4, <1>5, <1>6, <1>9, <1>10 DEF ImportInv

\* Both answers of a pair are dropped and RESET is sent.
LEMMA SendResetKeeps ==
  ASSUME ImportInv, client.at = "skip", responses # <<>>,
         client' = [client EXCEPT !.at = "reset"], responses' = Tail(responses),
         requests' = Append(requests, [kind |-> "RESET", stmt |-> 0]),
         UNCHANGED <<producer, queue, refusing, answered>>
  PROVE  ImportInv'
<1>0. ImportType /\ client.error = "none" /\ StatementsInOrder /\ Batches /\ Totals
  BY DEF ImportInv
<1>t. /\ client.depth \in Nat /\ Len(requests) \in Nat /\ responses \in Seq(Answers)
      /\ client \in ClientType /\ requests \in Seq(Request)
  BY <1>0, ImportTypes DEF ImportType
<1>1. responses' \in Seq(Answers) /\ Len(responses) \in Nat \ {0} /\ Len(responses') = Len(responses) - 1
  BY <1>t, TailIs
<1>2. /\ client.out = <<>> /\ client.depth > 0 /\ Alternates(requests) /\ client.inFailed
      /\ refusing /\ NoSuccess(responses) /\ Cardinality(answered) = client.count
      /\ Len(requests) + Len(responses) = 2 * client.depth - 1
  BY <1>0 DEF Batches, Draining
<1>3. /\ client' \in ClientType /\ client'.at = "reset" /\ client'.depth = client.depth
      /\ client'.out = client.out /\ client'.last = client.last /\ client'.error = client.error
      /\ client'.count = client.count /\ client'.errors = client.errors
      /\ client'.inFailed = client.inFailed
  BY <1>t DEF ClientType
<1> DEFINE r == [kind |-> "RESET", stmt |-> 0]
<1>4. r \in Request /\ r.kind = "RESET" /\ requests' = Append(requests, r) BY DEF Request
<1> HIDE DEF r
<1>5. /\ requests' \in Seq(Request) /\ Len(requests') = Len(requests) + 1
      /\ \A i \in 1..Len(requests) : requests'[i] = requests[i]
      /\ requests'[Len(requests) + 1] = r
  BY <1>4, <1>t, AppendIs
<1>6. \A i \in 1..Len(requests') : i \in 1..Len(requests) \/ i = Len(requests) + 1 BY <1>5, <1>t
<1>7. ImportType' BY <1>0, <1>1, <1>3, <1>5 DEF ImportType
<1>8. StatementsInOrder'
  <2>1. InOrder(requests')
    <3> SUFFICES ASSUME NEW i \in 1..Len(requests'), NEW j \in 1..Len(requests'), i < j,
                        requests'[i].kind = "PULL", requests'[j].kind = "PULL"
                 PROVE  requests'[i].stmt < requests'[j].stmt
      BY DEF InOrder
    <3>1. i \in 1..Len(requests) /\ j \in 1..Len(requests) BY <1>4, <1>5, <1>6
    <3> QED BY <1>0, <1>5, <3>1 DEF StatementsInOrder, InOrder
  <2>2. PullsAbove(requests', answered)
    BY <1>0, <1>4, <1>5, <1>6 DEF StatementsInOrder, PullsAbove
  <2>3. \A x : Above(x, answered, requests, client.out) => Above(x, answered', requests', client'.out)
    BY <1>3, <1>4, <1>5, <1>6 DEF Above, PullsBelow
  <2> QED BY <1>0, <1>3, <2>1, <2>2, <2>3 DEF StatementsInOrder
<1>9. Totals' BY <1>0, <1>3 DEF Totals
<1>10. Len(requests') + Len(responses') = 2 * client'.depth - 1
  <2>1. Len(requests') = Len(requests) + 1 /\ client'.depth = client.depth BY <1>3, <1>5
  <2> QED BY <1>1, <1>2, <1>t, <2>1
<1>11. ResetPending'
  <2>1. NoSuccess(responses') BY <1>2, <1>t, NoSuccessTail
  <2>2. requests' # <<>> /\ requests'[Len(requests')].kind = "RESET" BY <1>4, <1>5, <1>t
  <2>3. \A i \in 1..(Len(requests') - 1) : requests'[i].kind # "RESET"
    <3>1. \A i \in 1..(Len(requests') - 1) : i \in 1..Len(requests) BY <1>5, <1>t
    <3>2. \A i \in 1..Len(requests) : requests[i].kind # "RESET" BY <1>2 DEF Alternates
    <3> QED BY <1>5, <3>1, <3>2
  <2> QED BY <1>2, <2>1, <2>2, <2>3 DEF ResetPending
<1>12. Batches' BY <1>2, <1>3, <1>10, <1>11 DEF Batches, Draining
<1>13. client'.count <= Cardinality(answered') BY <1>3 DEF ImportInv
<1> QED BY <1>0, <1>3, <1>7, <1>8, <1>9, <1>12, <1>13 DEF ImportInv

\* What drain_pipeline does in each place.
LEMMA DrainIs ==
  ASSUME NEW c \in ClientType, NEW answer, NEW d, d = DrainStep(c, answer)
  PROVE  /\ c.at = "run" /\ c.inFailed => d = [c EXCEPT !.at = "skip"]
         /\ c.at = "run" /\ ~c.inFailed => d = [c EXCEPT !.at = "pull", !.inFailed = answer # "SUCCESS"]
         /\ c.at = "pull" /\ ~c.inFailed /\ answer = "SUCCESS" =>
              d = PairDone([c EXCEPT !.count = c.count + 1])
         /\ c.at = "pull" /\ (c.inFailed \/ answer # "SUCCESS") =>
              d = PairDone([c EXCEPT !.inFailed = TRUE, !.errors = c.errors + 1])
         /\ c.at = "skip" => d = [c EXCEPT !.at = "reset"]
         /\ c.at = "reset" /\ answer = "SUCCESS" =>
              d = PairDone([c EXCEPT !.inFailed = FALSE, !.errors = c.errors + 1])
         /\ c.at = "reset" /\ answer # "SUCCESS" => d = GiveUp(c, "reset")
BY DEF DrainStep

\* A pair is counted.
LEMMA CountedIs ==
  ASSUME NEW c \in ClientType, NEW k \in Nat, NEW d, d = [c EXCEPT !.count = k]
  PROVE  /\ d \in ClientType /\ d.out = c.out /\ d.depth = c.depth /\ d.last = c.last
         /\ d.error = c.error /\ d.count = k /\ d.errors = c.errors /\ d.inFailed = c.inFailed
BY DEF ClientType

\* An answer is read: drain_pipeline gives it to the request it belongs to.
LEMMA ReceiveKeeps ==
  ASSUME ImportInv, Receive
  PROVE  ImportInv'
<1>0. ImportType /\ client.error = "none" /\ StatementsInOrder /\ Batches /\ Totals
  BY DEF ImportInv, Receive
<1>r. /\ Draining /\ responses # <<>> /\ client' = DrainStep(client, Head(responses))
      /\ responses' = Tail(responses) /\ UNCHANGED <<producer, queue, refusing, answered>>
      /\ client'.at = "reset" => requests' = Append(requests, [kind |-> "RESET", stmt |-> 0])
      /\ client'.at # "reset" => requests' = requests
  BY DEF Receive, Draining
<1> DEFINE a == Head(responses)
<1> DEFINE n == Cardinality(answered)
<1>t. /\ client \in ClientType /\ responses \in Seq(Answers) /\ requests \in Seq(Request)
      /\ refusing \in BOOLEAN /\ client.count \in Nat /\ client.errors \in Nat /\ client.depth \in Nat
      /\ n \in Nat /\ Len(requests) \in Nat /\ client.inFailed \in BOOLEAN
  BY <1>0, ImportTypes DEF ImportType
<1>1. /\ Tail(responses) \in Seq(Answers) /\ Len(responses) \in Nat \ {0}
      /\ Len(Tail(responses)) = Len(responses) - 1
      /\ \A i \in 1..Len(Tail(responses)) : Tail(responses)[i] = responses[i + 1]
      /\ a = responses[1]
  BY <1>r, <1>t, TailIs
<1>d. client.depth > 0 /\ client.out = <<>> /\ client.count <= n BY <1>0, <1>r DEF Batches, ImportInv
<1> HIDE DEF a, n
<1>2. CASE client.at = "run"
  <2>1. CASE client.inFailed
    <3>1. client' = [client EXCEPT !.at = "skip"] BY <1>2, <1>r, <1>t, <2>1, DrainIs
    <3>2. client' = [client EXCEPT !.at = "skip", !.inFailed = TRUE]
      BY <1>t, <2>1, <3>1 DEF ClientType
    <3>3. client'.at = "skip" BY <1>t, <3>1 DEF ClientType
    <3>4. refusing /\ NoSuccess(responses) /\ client.count = n BY <1>0, <1>2, <1>r, <2>1 DEF Batches, n
    <3>5. NoSuccess(Tail(responses)) BY <1>r, <1>t, <3>4, NoSuccessTail
    <3>6. requests' = requests BY <1>r, <3>3
    <3> QED BY <1>2, <1>r, <3>2, <3>4, <3>5, <3>6, ReadRunKeeps DEF n
  <2>2. CASE ~client.inFailed /\ a = "SUCCESS"
    <3>1. client' = [client EXCEPT !.at = "pull", !.inFailed = a # "SUCCESS"]
      BY <1>2, <1>r, <1>t, <2>2, DrainIs DEF a
    <3>2. client' = [client EXCEPT !.at = "pull", !.inFailed = FALSE] BY <2>2, <3>1
    <3>3. client'.at = "pull" BY <1>t, <3>1 DEF ClientType
    <3>4. IsPending(responses, refusing, 0, client.count, n) BY <1>0, <1>2, <2>2 DEF Batches, Odd, n
    <3>5. IsPending(Tail(responses), refusing, 1, client.count, n)
      BY <1>1, <1>r, <1>t, <2>2, <3>4, PendingSuccess
    <3>6. requests' = requests BY <1>r, <3>3
    <3> QED BY <1>2, <1>r, <3>2, <3>5, <3>6, ReadRunKeeps DEF n
  <2>3. CASE ~client.inFailed /\ a # "SUCCESS"
    <3>1. client' = [client EXCEPT !.at = "pull", !.inFailed = TRUE]
      <4>1. client' = [client EXCEPT !.at = "pull", !.inFailed = a # "SUCCESS"]
        BY <1>2, <1>r, <1>t, <2>3, DrainIs DEF a
      <4> QED BY <2>3, <4>1
    <3>3. client'.at = "pull" BY <1>t, <3>1 DEF ClientType
    <3>4. IsPending(responses, refusing, 0, client.count, n) BY <1>0, <1>2, <2>3 DEF Batches, Odd, n
    <3>5. refusing /\ client.count = n /\ NoSuccess(responses)
      BY <1>1, <1>r, <1>t, <2>3, <3>4, PendingOther
    <3>6. NoSuccess(Tail(responses)) BY <1>r, <1>t, <3>5, NoSuccessTail
    <3>7. requests' = requests BY <1>r, <3>3
    <3> QED BY <1>2, <1>r, <3>1, <3>5, <3>6, <3>7, ReadRunKeeps DEF n
  <2> QED BY <1>t, <2>1, <2>2, <2>3
<1>e. ASSUME client.at \in {"pull", "reset"}, client.depth = 1
      PROVE  Len(requests) = 0 /\ Len(responses) = 1 /\ requests = <<>>
  <2>1. Len(requests) + Len(responses) = 2 * client.depth - 1 BY <1>0, <1>e DEF Batches
  <2>2. Len(requests) = 0 /\ Len(responses) = 1 BY <1>1, <1>t, <1>e, <2>1
  <2> QED BY <1>t, <2>2
<1>p. ASSUME NEW c \in ClientType, client' = PairDone(c) PROVE client'.at # "reset"
  <2>1. CASE c.depth > 1
    <3>1. client' = [c EXCEPT !.depth = c.depth - 1, !.at = "run"] BY <1>p, <2>1 DEF PairDone
    <3> QED BY <3>1 DEF ClientType
  <2>2. CASE ~(c.depth > 1)
    <3> DEFINE q == IF c.last THEN "close" ELSE "fill"
    <3>1. client' = [c EXCEPT !.depth = 0, !.at = q] BY <1>p, <2>2 DEF PairDone
    <3>2. q # "reset" OBVIOUS
    <3> HIDE DEF q
    <3> QED BY <3>1, <3>2 DEF ClientType
  <2> QED BY <2>1, <2>2
<1>3. CASE client.at = "pull"
  <2>a. Alternates(requests) BY <1>0, <1>3 DEF Batches
  <2>h. ~client.inFailed => IsPending(responses, refusing, 1, client.count, n) BY <1>0, <1>3 DEF Batches, Odd, n
  <2>1. CASE client.inFailed \/ a # "SUCCESS"
    <3> DEFINE c == [client EXCEPT !.inFailed = TRUE, !.errors = client.errors + 1]
    <3>1. client' = PairDone(c) BY <1>3, <1>r, <1>t, <2>1, DrainIs DEF a
    <3>2. /\ c \in ClientType /\ c.out = client.out /\ c.depth = client.depth /\ c.last = client.last
          /\ c.error = client.error /\ c.count = client.count /\ c.errors = client.errors + 1
          /\ c.inFailed = TRUE
      <4> DEFINE k == client.errors + 1
      <4>1. k \in Nat /\ client \in ClientType BY <1>t
      <4>2. c = [client EXCEPT !.inFailed = TRUE, !.errors = k] OBVIOUS
      <4> HIDE DEF k, c
      <4>3. c \in ClientType BY <4>1, <4>2 DEF ClientType
      <4>4. /\ c.out = client.out /\ c.depth = client.depth /\ c.last = client.last
            /\ c.error = client.error /\ c.count = client.count /\ c.errors = k /\ c.inFailed = TRUE
        BY <4>1, <4>2 DEF ClientType
      <4> QED BY <4>3, <4>4 DEF k
    <3> HIDE DEF c
    <3>3. c.count + c.errors = client.count + client.errors + 1
      <4>1. client.count \in Nat /\ client.errors \in Nat BY <1>t
      <4>2. client.count + (client.errors + 1) = client.count + client.errors + 1 BY ONLY <4>1
      <4> QED BY <3>2, <4>2
    <3>4. refusing /\ NoSuccess(responses) /\ client.count = n
      <4>1. CASE client.inFailed BY <1>0, <1>3, <1>r, <4>1 DEF Batches, n
      <4>2. CASE ~client.inFailed /\ a # "SUCCESS"
        <5>1. /\ responses \in Seq(Answers) /\ responses # <<>> /\ responses[1] # "SUCCESS"
              /\ refusing \in BOOLEAN /\ 1 \in {0, 1} /\ client.count \in Nat /\ n \in Nat
              /\ IsPending(responses, refusing, 1, client.count, n)
          BY <1>1, <1>r, <1>t, <2>h, <4>2
        <5> QED BY <5>1, PendingOther
      <4> QED BY <2>1, <4>1, <4>2
    <3>5. NoSuccess(Tail(responses)) BY <1>r, <1>t, <3>4, NoSuccessTail
    <3>6. requests' = requests BY <1>r, <1>p, <3>1, <3>2
    <3>7. c.count <= n /\ c.count = n /\ c.inFailed BY <1>t, <2>1, <3>2, <3>4
    <3> QED BY <1>3, <1>r, <2>a, <3>1, <3>2, <3>3, <3>4, <3>5, <3>6, <3>7, PairDoneKeeps DEF n
  <2>2. CASE ~client.inFailed /\ a = "SUCCESS"
    <3> DEFINE c == [client EXCEPT !.count = client.count + 1]
    <3>1. client' = PairDone(c) BY <1>3, <1>r, <1>t, <2>2, DrainIs DEF a
    <3>2. /\ c \in ClientType /\ c.out = client.out /\ c.depth = client.depth /\ c.last = client.last
          /\ c.error = client.error /\ c.count = client.count + 1 /\ c.errors = client.errors
          /\ c.inFailed = client.inFailed
      <4>1. client.count + 1 \in Nat /\ client \in ClientType BY <1>t
      <4> QED BY <4>1, CountedIs
    <3> HIDE DEF c
    <3>3. c.count + c.errors = client.count + client.errors + 1
      <4>1. client.count \in Nat /\ client.errors \in Nat BY <1>t
      <4>2. (client.count + 1) + client.errors = client.count + client.errors + 1 BY ONLY <4>1
      <4> QED BY <3>2, <4>2
    <3>4. /\ IsPending(Tail(responses), refusing, 0, client.count + 1, n) /\ client.count + 1 <= n
          /\ Len(responses) = 1 => client.count + 1 = n
      <4>1. /\ responses \in Seq(Answers) /\ responses # <<>> /\ responses[1] = "SUCCESS"
            /\ refusing \in BOOLEAN /\ 1 \in {0, 1} /\ client.count \in Nat /\ n \in Nat
            /\ IsPending(responses, refusing, 1, client.count, n)
        BY <1>1, <1>r, <1>t, <2>2, <2>h
      <4> QED BY <4>1, PendingSuccess
    <3>5. c.depth = 1 => c.count = n BY <1>3, <1>e, <3>2, <3>4
    <3>6. requests' = requests BY <1>r, <1>p, <3>1, <3>2
    <3>7. IsPending(Tail(responses), refusing, 0, c.count, n) /\ c.count <= n /\ ~c.inFailed BY <2>2, <3>2, <3>4
    <3> QED BY <1>3, <1>r, <2>a, <3>1, <3>2, <3>3, <3>5, <3>6, <3>7, PairDoneKeeps DEF n
  <2> QED BY <1>t, <2>1, <2>2
<1>4. CASE client.at = "skip"
  <2>0. client \in ClientType /\ client' = DrainStep(client, Head(responses)) BY <1>r, <1>t
  <2>1. client' = [client EXCEPT !.at = "reset"] BY <1>4, <2>0, DrainIs
  <2>2. client'.at = "reset" BY <1>t, <2>1 DEF ClientType
  <2> QED BY <1>4, <1>r, <2>1, <2>2, SendResetKeeps
<1>5. CASE client.at = "reset"
  <2>r. ResetPending /\ client.inFailed /\ client.count = n BY <1>0, <1>5, <1>r DEF Batches, n
  <2>1. CASE a = "SUCCESS"
    <3> DEFINE c == [client EXCEPT !.inFailed = FALSE, !.errors = client.errors + 1]
    <3>1. client' = PairDone(c) BY <1>5, <1>r, <1>t, <2>1, DrainIs DEF a
    <3>2. /\ c \in ClientType /\ c.out = client.out /\ c.depth = client.depth /\ c.last = client.last
          /\ c.error = client.error /\ c.count = client.count /\ c.errors = client.errors + 1
      <4> DEFINE k == client.errors + 1
      <4>1. k \in Nat /\ client \in ClientType BY <1>t
      <4>2. c = [client EXCEPT !.inFailed = FALSE, !.errors = k] OBVIOUS
      <4> HIDE DEF k, c
      <4>3. c \in ClientType BY <4>1, <4>2 DEF ClientType
      <4>4. /\ c.out = client.out /\ c.depth = client.depth /\ c.last = client.last
            /\ c.error = client.error /\ c.count = client.count /\ c.errors = k /\ c.inFailed = FALSE
        BY <4>1, <4>2 DEF ClientType
      <4> QED BY <4>3, <4>4 DEF k
    <3> HIDE DEF c
    <3>3. c.count + c.errors = client.count + client.errors + 1
      <4>1. client.count \in Nat /\ client.errors \in Nat BY <1>t
      <4>2. client.count + (client.errors + 1) = client.count + client.errors + 1 BY ONLY <4>1
      <4> QED BY <3>2, <4>2
    <3>4. requests = <<>> /\ Len(responses) = 1
      <4>1. 1 \in 1..Len(responses) /\ (Len(responses) # 1 => 1 \in 1..(Len(responses) - 1)) BY <1>1
      <4> QED BY <1>1, <2>1, <2>r, <4>1 DEF ResetPending, NoSuccess
    <3>5. client.depth = 1
      <4>1. Len(requests) + Len(responses) = 2 * client.depth - 1 BY <1>0, <1>5 DEF Batches
      <4>2. Len(requests) = 0 BY <3>4
      <4>3. 1 = 2 * client.depth - 1 BY <3>4, <4>1, <4>2
      <4> QED BY <1>t, <4>3
    <3>6. requests' = requests BY <1>r, <1>p, <3>1, <3>2
    <3>7. c.count <= n /\ c.count = n /\ c.depth = 1 BY <1>t, <2>r, <3>2, <3>5
    <3>8. ~(c.depth > 1) BY <3>7
    <3> QED BY <1>5, <1>r, <3>1, <3>2, <3>3, <3>6, <3>7, <3>8, PairDoneKeeps DEF n
  <2>2. CASE a # "SUCCESS"
    <3>1. client' = GiveUp(client, "reset") BY <1>5, <1>r, <1>t, <2>2, DrainIs DEF a
    <3>2. client'.at = "close" BY <1>t, <3>1 DEF GiveUp, ClientType
    <3>3. requests' \in Seq(Request) /\ responses' \in Seq(Answers) BY <1>1, <1>r, <1>t, <3>2
    <3> QED BY <1>r, <3>1, <3>3, GiveUpKeeps
  <2> QED BY <2>1, <2>2
<1> QED BY <1>2, <1>3, <1>4, <1>5, <1>r DEF Draining

\* What the server does with the next request.
LEMMA ServeIs ==
  ASSUME ImportType, Serve, NEW r, r = Head(requests)
  PROVE  /\ requests # <<>> /\ requests' = Tail(requests) /\ UNCHANGED <<producer, queue, client>>
         /\ \/ /\ r.kind = "RESET" /\ ~refusing' /\ UNCHANGED <<executed, answered>>
               /\ responses' = Append(responses, "SUCCESS")
            \/ /\ r.kind # "RESET" /\ refusing /\ refusing' /\ UNCHANGED <<executed, answered>>
               /\ responses' = Append(responses, "IGNORED")
            \/ /\ r.kind # "RESET" /\ ~refusing /\ refusing' /\ UNCHANGED <<executed, answered>>
               /\ responses' = Append(responses, "FAILURE")
            \/ /\ r.kind = "RUN" /\ ~refusing /\ ~refusing' /\ UNCHANGED answered
               /\ executed' = executed \cup {r.stmt}
               /\ responses' = Append(responses, "SUCCESS")
            \/ /\ r.kind = "PULL" /\ ~refusing /\ ~refusing' /\ UNCHANGED executed
               /\ answered' = answered \cup {r.stmt}
               /\ responses' = Append(responses, "SUCCESS")
         /\ refusing' \in BOOLEAN
<1>1. PICK no \in {FALSE, r.kind # "RESET" /\ ~refusing} :
        /\ requests' = Tail(requests)
        /\ refusing' = CASE r.kind = "RESET" -> FALSE
                         [] no               -> TRUE
                         [] OTHER            -> refusing
        /\ responses' = Append(responses,
             CASE r.kind # "RESET" /\ refusing -> "IGNORED"
               [] no                           -> "FAILURE"
               [] OTHER                        -> "SUCCESS")
        /\ executed' = IF r.kind = "RUN" /\ ~refusing /\ ~no
                       THEN executed \cup {r.stmt} ELSE executed
        /\ answered' = IF r.kind = "PULL" /\ ~refusing /\ ~no
                       THEN answered \cup {r.stmt} ELSE answered
  BY Zenon DEF Serve, MayFail
<1>2. no \in BOOLEAN /\ (no => r.kind # "RESET" /\ ~refusing) OBVIOUS
<1>3. requests # <<>> /\ UNCHANGED <<producer, queue, client>> BY DEF Serve, MayFail
<1>4. refusing \in BOOLEAN BY DEF ImportType
<1>5. r.kind \in {"RUN", "PULL", "RESET"}
  <2>1. requests \in Seq(Request) BY DEF ImportType
  <2>2. r = requests[1] /\ 1 \in 1..Len(requests) BY <1>3, <2>1, TailIs
  <2> QED BY <2>1, <2>2, RequestIs
<1>6. CASE r.kind = "RESET" BY <1>1, <1>2, <1>3, <1>4, <1>6
<1>7. CASE r.kind = "PULL" BY <1>1, <1>2, <1>3, <1>4, <1>7
<1>8. CASE r.kind = "RUN" BY <1>1, <1>2, <1>3, <1>4, <1>8
<1> QED BY <1>5, <1>6, <1>7, <1>8

\* Where a request of a batch stands, by the answers still to come.
LEMMA RequestParity ==
  ASSUME NEW a \in Nat, NEW b \in Nat, NEW d \in Nat, NEW h \in {0, 1}, a + b = 2 * d - h
  PROVE  (b + h) % 2 = a % 2
OBVIOUS

\* The order of the statements, when the server has taken a request.
LEMMA ServeOrder ==
  ASSUME ImportType, StatementsInOrder, requests # <<>>, client.out = <<>>, NEW r, r = Head(requests),
         requests' = Tail(requests), UNCHANGED <<producer, queue, client>>,
         answered' = answered \/ (r.kind = "PULL" /\ answered' = answered \cup {r.stmt})
  PROVE  StatementsInOrder'
<1>1. /\ Len(requests) \in Nat \ {0} /\ Len(requests') = Len(requests) - 1
      /\ \A i \in 1..Len(requests') : requests'[i] = requests[i + 1]
      /\ r = requests[1]
  BY TailIs DEF ImportType
<1>2. \A i \in 1..Len(requests') : i + 1 \in 1..Len(requests) /\ 1 < i + 1 BY <1>1
<1>3. 1 \in 1..Len(requests) BY <1>1
<1>4. \A e \in answered' : e \in answered \/ (r.kind = "PULL" /\ e = r.stmt) OBVIOUS
<1>5. InOrder(requests')
  <2> SUFFICES ASSUME NEW i \in 1..Len(requests'), NEW j \in 1..Len(requests'), i < j,
                      requests'[i].kind = "PULL", requests'[j].kind = "PULL"
               PROVE  requests'[i].stmt < requests'[j].stmt
    BY DEF InOrder
  <2>1. i + 1 < j + 1 BY <1>1
  <2> QED BY <1>1, <1>2, <2>1 DEF StatementsInOrder, InOrder
<1>6. PullsAbove(requests', answered')
  <2> SUFFICES ASSUME NEW i \in 1..Len(requests'), requests'[i].kind = "PULL", NEW e \in answered'
               PROVE  e < requests'[i].stmt
    BY DEF PullsAbove
  <2>1. CASE e \in answered BY <1>1, <1>2, <2>1 DEF StatementsInOrder, PullsAbove
  <2>2. CASE r.kind = "PULL" /\ e = r.stmt BY <1>1, <1>2, <1>3, <2>2 DEF StatementsInOrder, InOrder
  <2> QED BY <1>4, <2>1, <2>2
<1>7. ASSUME NEW x, Above(x, answered, requests, client.out) PROVE Above(x, answered', requests', client'.out)
  BY <1>1, <1>2, <1>3, <1>4, <1>7 DEF Above, PullsBelow
<1>8. InOrder(client'.out) /\ PullsAbove(client'.out, answered') BY DEF InOrder, PullsAbove
<1> QED BY <1>5, <1>6, <1>7, <1>8 DEF StatementsInOrder

\* A request is served: the answer joins the ones that wait.
LEMMA ServeKeeps ==
  ASSUME ImportInv, Serve
  PROVE  ImportInv'
<1> DEFINE r == Head(requests)
<1> DEFINE n == Cardinality(answered)
<1>0. ImportType BY DEF ImportInv
<1>t. /\ requests \in Seq(Request) /\ responses \in Seq(Answers) /\ refusing \in BOOLEAN
      /\ answered \in SUBSET Nat /\ IsFiniteSet(answered) /\ n \in Nat /\ client.count \in Nat
      /\ client.depth \in Nat /\ Len(requests) \in Nat /\ Len(responses) \in Nat
      /\ client.inFailed \in BOOLEAN /\ client.error \in {"none", "reset", "io"}
      /\ client.at \in {"fill", "run", "pull", "skip", "reset", "close", "ended"}
  BY <1>0, ImportTypes DEF ImportType
<1>s. /\ requests # <<>> /\ requests' = Tail(requests) /\ UNCHANGED <<producer, queue, client>>
      /\ \/ /\ r.kind = "RESET" /\ ~refusing' /\ answered' = answered
            /\ responses' = Append(responses, "SUCCESS")
         \/ /\ r.kind # "RESET" /\ refusing /\ refusing' /\ answered' = answered
            /\ responses' = Append(responses, "IGNORED")
         \/ /\ r.kind # "RESET" /\ ~refusing /\ refusing' /\ answered' = answered
            /\ responses' = Append(responses, "FAILURE")
         \/ /\ r.kind = "RUN" /\ ~refusing /\ ~refusing' /\ answered' = answered
            /\ responses' = Append(responses, "SUCCESS")
         \/ /\ r.kind = "PULL" /\ ~refusing /\ ~refusing' /\ answered' = answered \cup {r.stmt}
            /\ responses' = Append(responses, "SUCCESS")
      /\ refusing' \in BOOLEAN
  BY <1>0, ServeIs
<1>1. /\ requests' \in Seq(Request) /\ Len(requests) \in Nat \ {0} /\ Len(requests') = Len(requests) - 1
      /\ \A i \in 1..Len(requests') : requests'[i] = requests[i + 1]
      /\ r = requests[1] /\ r \in Request /\ r.stmt \in Nat /\ r.kind \in {"RUN", "PULL", "RESET"}
  <2>1. /\ requests' \in Seq(Request) /\ Len(requests) \in Nat \ {0} /\ Len(requests') = Len(requests) - 1
        /\ \A i \in 1..Len(requests') : requests'[i] = requests[i + 1]
        /\ r = requests[1] /\ r \in Request
    BY <1>s, <1>t, TailIs
  <2> QED BY <2>1 DEF Request
<1> HIDE DEF r
<1>2. PICK a \in Answers : responses' = Append(responses, a) BY <1>s DEF Answers
<1>3. /\ responses' \in Seq(Answers) /\ Len(responses') = Len(responses) + 1
      /\ \A i \in 1..Len(responses) : responses'[i] = responses[i]
      /\ responses'[Len(responses) + 1] = a
  BY <1>2, <1>t, AppendIs
<1>4. /\ answered' \in SUBSET Nat /\ IsFiniteSet(answered') /\ n <= Cardinality(answered')
      /\ answered' = answered \/ (r.kind = "PULL" /\ answered' = answered \cup {r.stmt})
      /\ (answered' = answered \cup {r.stmt} /\ r.stmt \notin answered) => Cardinality(answered') = n + 1
  <2>1. /\ IsFiniteSet(answered \cup {r.stmt})
        /\ Cardinality(answered \cup {r.stmt}) = IF r.stmt \in answered THEN n ELSE n + 1
    BY <1>t, FS_AddElement
  <2>2. answered' = answered \/ (r.kind = "PULL" /\ answered' = answered \cup {r.stmt}) BY <1>s
  <2>3. CASE answered' = answered BY <1>t, <2>1, <2>2, <2>3
  <2>4. CASE answered' = answered \cup {r.stmt}
    <3>1. answered' \in SUBSET Nat BY <1>1, <1>t, <2>4
    <3>2. n <= Cardinality(answered') /\ (r.stmt \notin answered => Cardinality(answered') = n + 1)
      BY <1>t, <2>1, <2>4
    <3>3. IsFiniteSet(answered') BY <2>1, <2>4
    <3> QED BY <2>2, <3>1, <3>2, <3>3
  <2> QED BY <2>2, <2>3, <2>4
<1>5. ImportType' BY <1>0, <1>1, <1>3, <1>4, <1>s DEF ImportType
<1>6. client'.count <= Cardinality(answered')
  <2>1. client.count <= n /\ client' = client BY <1>s DEF ImportInv
  <2>2. Cardinality(answered') \in Nat BY <1>4, FS_CardinalityType
  <2>3. client.count <= Cardinality(answered') BY <1>4, <1>t, <2>1, <2>2
  <2> QED BY <2>1, <2>3
<1>7. CASE client.error # "none" BY <1>5, <1>6, <1>7, <1>s DEF ImportInv
<1>8. CASE client.error = "none"
  <2>0. StatementsInOrder /\ Batches /\ Totals BY <1>8 DEF ImportInv
  <2>1. client.at \in {"run", "pull", "skip", "reset"} BY <1>s, <1>t, <2>0 DEF Batches, Totals
  <2>2. client.out = <<>> /\ client.depth > 0 BY <2>0, <2>1 DEF Batches, Draining
  <2>3. StatementsInOrder' BY <1>0, <1>4, <1>s, <2>0, <2>2, ServeOrder DEF r
  <2>4. Totals' BY <1>s, <2>0, <2>1 DEF Totals
  <2>5. Len(requests') + Len(responses') = Len(requests) + Len(responses) BY <1>1, <1>3, <1>t
  <2> DEFINE N == Cardinality(answered')
  <2>6. CASE client.at \in {"run", "pull", "skip"}
    <3>1. Alternates(requests) BY <2>0, <2>6 DEF Batches
    <3>2. /\ Alternates(requests') /\ r.kind # "RESET"
          /\ Len(requests) % 2 = 0 => r.kind = "RUN"
          /\ Len(requests) % 2 = 1 => r.kind = "PULL"
          /\ Len(requests) % 2 = 0 \/ Len(requests) % 2 = 1
      <4>1. Len(requests) % 2 = 0 \/ Len(requests) % 2 = 1 BY <1>t
      <4>2. /\ Alternates(requests')
            /\ Len(requests) % 2 = 0 => r.kind = "RUN"
            /\ Len(requests) % 2 = 1 => r.kind = "PULL"
        BY <1>s, <1>t, <3>1, AlternatesTail DEF r
      <4> QED BY <4>1, <4>2
    <3>3. CASE client.inFailed
      <4>1. refusing /\ NoSuccess(responses) /\ n = client.count
        BY <2>0, <2>6, <3>3 DEF Batches, Draining
      <4>2. refusing' /\ responses' = Append(responses, "IGNORED") /\ answered' = answered
        BY <1>s, <3>2, <4>1
      <4>3. NoSuccess(responses') BY <1>t, <4>1, <4>2, NoSuccessAppend DEF Answers
      <4>4. N = client.count BY <4>1, <4>2
      <4>5. Batches'
        BY <1>s, <2>0, <2>1, <2>2, <2>5, <2>6, <3>2, <3>3, <4>2, <4>3, <4>4 DEF Batches, Draining
      <4> QED BY <1>5, <1>6, <1>8, <1>s, <2>3, <2>4, <4>5 DEF ImportInv
    <3>4. CASE ~client.inFailed
      <4>1. client.at \in {"run", "pull"} /\ IsPending(responses, refusing, Odd, client.count, n)
        BY <2>0, <2>6, <3>4 DEF Batches
      <4>2. Odd \in {0, 1} /\ Odd' = Odd BY <1>s DEF Odd
      <4>3. (Len(responses) + Odd) % 2 = Len(requests) % 2
        <5>1. Len(requests) + Len(responses) = 2 * client.depth - Odd
          BY <1>t, <2>0, <4>1 DEF Batches, Odd
        <5>2. /\ Len(requests) \in Nat /\ Len(responses) \in Nat /\ client.depth \in Nat
              /\ Odd \in {0, 1}
          BY <1>t, <4>2
        <5> HIDE DEF n, N
        <5> QED BY <5>1, <5>2, RequestParity
      <4> HIDE DEF N
      <4>4. IsPending(responses', refusing', Odd, client.count, N)
        <5>1. CASE refusing
          <6>1. refusing' = TRUE /\ responses' = Append(responses, "IGNORED") /\ N = n
            BY <1>s, <3>2, <5>1 DEF N
          <6>2. IsPending(Append(responses, "IGNORED"), TRUE, Odd, client.count, n)
            <7>1. "IGNORED" \in Answers /\ "IGNORED" # "SUCCESS" BY DEF Answers
            <7> QED BY <1>t, <4>1, <4>2, <5>1, <7>1, PendingAppendOther
          <6> QED BY <6>1, <6>2
        <5>2. CASE ~refusing /\ responses' = Append(responses, "FAILURE")
          <6>1. refusing' = TRUE /\ N = n
            <7>1. responses' # Append(responses, "SUCCESS") BY <1>t, <5>2, AppendIs DEF Answers
            <7> QED BY <1>s, <3>2, <5>2, <7>1 DEF N
          <6>2. IsPending(Append(responses, "FAILURE"), TRUE, Odd, client.count, n)
            <7>1. "FAILURE" \in Answers /\ "FAILURE" # "SUCCESS" BY DEF Answers
            <7> QED BY <1>t, <4>1, <4>2, <7>1, PendingAppendOther
          <6> QED BY <5>2, <6>1, <6>2
        <5>3. CASE ~refusing /\ r.kind = "RUN" /\ responses' = Append(responses, "SUCCESS")
          <6>1. refusing' = FALSE /\ answered' = answered
            <7>1. responses' # Append(responses, "FAILURE") BY <1>t, <5>3, AppendIs DEF Answers
            <7> QED BY <1>s, <5>3, <7>1
          <6>2. N = n BY <6>1 DEF N
          <6>3. (Len(responses) + Odd) % 2 = 0 BY <3>2, <4>3, <5>3
          <6>4. IsPending(responses, FALSE, Odd, client.count, n) BY <1>t, <4>1, <5>3
          <6>5. IsPending(Append(responses, "SUCCESS"), FALSE, Odd, client.count, n)
            BY <1>t, <4>2, <6>3, <6>4, PendingAppendSuccess
          <6> QED BY <5>3, <6>1, <6>2, <6>5
        <5>4. CASE ~refusing /\ r.kind = "PULL" /\ responses' = Append(responses, "SUCCESS")
          <6>1. refusing' = FALSE /\ answered' = answered \cup {r.stmt}
            <7>1. responses' # Append(responses, "FAILURE") BY <1>t, <5>4, AppendIs DEF Answers
            <7> QED BY <1>s, <5>4, <7>1
          <6>2. r.stmt \notin answered
            <7>1. 1 \in 1..Len(requests) BY <1>1
            <7>2. \A e \in answered : e < r.stmt BY <1>1, <2>0, <5>4, <7>1 DEF StatementsInOrder, PullsAbove
            <7>3. ~(r.stmt < r.stmt) BY <1>1
            <7> QED BY <7>2, <7>3
          <6>3. N = n + 1 BY <1>4, <6>1, <6>2 DEF N
          <6>4. (Len(responses) + Odd) % 2 = 1 BY <3>2, <4>3, <5>4
          <6>5. IsPending(responses, FALSE, Odd, client.count, n) BY <1>t, <4>1, <5>4
          <6>6. IsPending(Append(responses, "SUCCESS"), FALSE, Odd, client.count, n + 1)
            BY <1>t, <4>2, <6>4, <6>5, PendingAppendSuccess
          <6> QED BY <5>4, <6>1, <6>3, <6>6
        <5> QED BY <1>s, <3>2, <5>1, <5>2, <5>3, <5>4
      <4>5. Batches'
        BY <1>s, <2>0, <2>2, <2>5, <3>2, <3>4, <4>1, <4>2, <4>4 DEF Batches, Draining, N
      <4> QED BY <1>5, <1>6, <1>8, <1>s, <2>3, <2>4, <4>5 DEF ImportInv
    <3> QED BY <3>3, <3>4
  <2>7. CASE client.at = "reset"
    <3>1. /\ requests[Len(requests)].kind = "RESET" /\ refusing /\ NoSuccess(responses)
          /\ \A i \in 1..(Len(requests) - 1) : requests[i].kind # "RESET"
      BY <1>s, <2>0, <2>7 DEF Batches, ResetPending
    <3>2. client.inFailed /\ n = client.count BY <2>0, <2>7 DEF Batches, Draining
    <3>3. answered' = answered BY <1>s, <3>1
    <3>4. ResetPending'
      <4>1. CASE Len(requests) = 1
        <5>1. requests' = <<>> /\ r.kind = "RESET" BY <1>1, <3>1, <4>1
        <5>2. responses' # <<>> BY <1>3, <1>t
        <5>3. \A i \in 1..(Len(responses') - 1) : responses'[i] # "SUCCESS"
          BY <1>3, <1>t, <3>1 DEF NoSuccess
        <5> QED BY <5>1, <5>2, <5>3 DEF ResetPending
      <4>2. CASE Len(requests) # 1
        <5>1. 1 \in 1..(Len(requests) - 1) /\ Len(requests') \in Nat \ {0} BY <1>1, <4>2
        <5>2. r.kind # "RESET" BY <1>1, <3>1, <5>1
        <5>3. refusing' /\ responses' = Append(responses, "IGNORED") BY <1>s, <3>1, <5>2
        <5>4. NoSuccess(responses') BY <1>t, <3>1, <5>3, NoSuccessAppend DEF Answers
        <5>5. requests' # <<>> /\ requests'[Len(requests')] = requests[Len(requests)]
          <6>1. Len(requests') \in 1..Len(requests') /\ Len(requests') + 1 = Len(requests) BY <1>1, <5>1
          <6> QED BY <1>1, <6>1
        <5>6. \A i \in 1..(Len(requests') - 1) : requests'[i].kind # "RESET"
          <6>1. \A i \in 1..(Len(requests') - 1) : i \in 1..Len(requests') /\ i + 1 \in 1..(Len(requests) - 1)
            BY <1>1
          <6> QED BY <1>1, <3>1, <6>1
        <5> QED BY <3>1, <5>3, <5>4, <5>5, <5>6 DEF ResetPending
      <4> QED BY <4>1, <4>2
    <3>5. Batches'
      BY <1>s, <2>0, <2>2, <2>5, <2>7, <3>2, <3>3, <3>4 DEF Batches, Draining
    <3> QED BY <1>5, <1>6, <1>8, <1>s, <2>3, <2>4, <3>5 DEF ImportInv
  <2> QED BY <2>1, <2>6, <2>7
<1> QED BY <1>7, <1>8

\* Every step keeps the invariant.
LEMMA ImportInvKept == ImportInv /\ [NextImport]_importVars => ImportInv'
<1> SUFFICES ASSUME ImportInv, [NextImport]_importVars PROVE ImportInv' OBVIOUS
<1>1. CASE SendStatement BY <1>1, SendKeeps
<1>2. CASE StopProducing BY <1>2, StopKeeps
<1>3. CASE Queue BY <1>3, QueueKeeps
<1>4. CASE Flush BY <1>4, FlushKeeps
<1>5. CASE NothingLeft BY <1>5, NothingLeftKeeps
<1>6. CASE Receive BY <1>6, ReceiveKeeps
<1>7. CASE CloseChannel \/ JoinProducer BY <1>7, CloseKeeps
<1>8. CASE DrainFails
  <2>1. requests' \in Seq(Request) /\ responses' \in Seq(Answers)
    BY <1>8 DEF DrainFails, ImportInv, ImportType
  <2> QED BY <1>8, <2>1, GiveUpKeeps DEF DrainFails
<1>9. CASE Serve BY <1>9, ServeKeeps
<1>10. CASE UNCHANGED importVars
  BY <1>10 DEF importVars, ImportInv, ImportType, StatementsInOrder, Batches, Totals, Draining, Odd,
               ResetPending, NoSuccess
<1> QED BY <1>1, <1>2, <1>3, <1>4, <1>5, <1>6, <1>7, <1>8, <1>9, <1>10 DEF NextImport, ClientStep, Ended

\* A PULL follows the RUN of its statement, so that the statement has been
\* executed when the PULL is answered.
Follows(s) ==
  \A i, j \in 1..Len(s) : (j = i + 1 /\ s[j].kind = "PULL") => s[i].kind = "RUN" /\ s[i].stmt = s[j].stmt
RanFirst ==
  /\ Follows(requests) /\ Follows(client.out)
  /\ client.out # <<>> => client.out[1].kind = "RUN"
  /\ (requests # <<>> /\ ~refusing /\ requests[1].kind = "PULL") => requests[1].stmt \in executed
  /\ answered \subseteq executed

\* Neither a pair nor a RESET comes between a RUN and its PULL.
LEMMA FollowsPair ==
  ASSUME NEW s \in Seq(Request), NEW x \in Nat, NEW t, Len(t) = Len(s) + 2,
         \A i \in 1..Len(s) : t[i] = s[i],
         t[Len(s) + 1] = [kind |-> "RUN", stmt |-> x], t[Len(s) + 2] = [kind |-> "PULL", stmt |-> x],
         Follows(s), s # <<>> => s[1].kind = "RUN"
  PROVE  Follows(t) /\ t[1].kind = "RUN"
<1>1. Len(s) \in Nat OBVIOUS
<1>2. \A i \in 1..Len(t) : i \in 1..Len(s) \/ i = Len(s) + 1 \/ i = Len(s) + 2 BY <1>1
<1>3. t[1].kind = "RUN"
  <2>1. CASE s = <<>> BY <2>1
  <2>2. CASE s # <<>>
    <3>1. 1 \in 1..Len(s) BY <2>2
    <3> QED BY <2>2, <3>1
  <2> QED BY <2>1, <2>2
<1>4. ASSUME NEW i \in 1..Len(t), NEW j \in 1..Len(t), j = i + 1, t[j].kind = "PULL"
      PROVE  t[i].kind = "RUN" /\ t[i].stmt = t[j].stmt
  <2>1. CASE j \in 1..Len(s)
    <3>1. i \in 1..Len(s) BY <1>1, <1>4, <2>1
    <3> QED BY <1>4, <2>1, <3>1 DEF Follows
  <2>2. CASE j = Len(s) + 1 BY <1>4, <2>2
  <2>3. CASE j = Len(s) + 2
    <3>1. i = Len(s) + 1 BY <1>1, <1>4, <2>3
    <3> QED BY <2>3, <3>1
  <2> QED BY <1>2, <2>1, <2>2, <2>3
<1> QED BY <1>3, <1>4 DEF Follows

LEMMA FollowsReset ==
  ASSUME NEW s \in Seq(Request), Follows(s), NEW r \in Request, r.kind = "RESET"
  PROVE  Follows(Append(s, r)) /\ (s # <<>> => Append(s, r)[1] = s[1]) /\ (s = <<>> => Append(s, r)[1] = r)
<1> DEFINE t == Append(s, r)
<1>1. Len(s) \in Nat /\ Len(t) = Len(s) + 1 /\ (\A i \in 1..Len(s) : t[i] = s[i]) /\ t[Len(s) + 1] = r
  BY AppendIs
<1> HIDE DEF t
<1>2. \A i \in 1..Len(t) : i \in 1..Len(s) \/ i = Len(s) + 1 BY <1>1
<1>3. ASSUME NEW i \in 1..Len(t), NEW j \in 1..Len(t), j = i + 1, t[j].kind = "PULL"
      PROVE  t[i].kind = "RUN" /\ t[i].stmt = t[j].stmt
  <2>1. j \in 1..Len(s) BY <1>1, <1>2, <1>3
  <2>2. i \in 1..Len(s) BY <1>1, <1>3, <2>1
  <2> QED BY <1>1, <1>3, <2>1, <2>2 DEF Follows
<1>4. s # <<>> => 1 \in 1..Len(s) BY <1>1
<1>5. s = <<>> => Len(s) = 0 OBVIOUS
<1> QED BY <1>1, <1>3, <1>4, <1>5 DEF Follows, t

LEMMA FollowsTail ==
  ASSUME NEW s \in Seq(Request), s # <<>>, Follows(s)
  PROVE  /\ Follows(Tail(s))
         /\ (Tail(s) # <<>> /\ Tail(s)[1].kind = "PULL") => s[1].kind = "RUN" /\ s[1].stmt = Tail(s)[1].stmt
<1> DEFINE t == Tail(s)
<1>1. t \in Seq(Request) /\ Len(s) \in Nat \ {0} /\ Len(t) = Len(s) - 1 /\ \A i \in 1..Len(t) : t[i] = s[i + 1]
  BY TailIs
<1> HIDE DEF t
<1>2. ASSUME NEW i \in 1..Len(t), NEW j \in 1..Len(t), j = i + 1, t[j].kind = "PULL"
      PROVE  t[i].kind = "RUN" /\ t[i].stmt = t[j].stmt
  <2>1. i + 1 \in 1..Len(s) /\ j + 1 \in 1..Len(s) /\ j + 1 = (i + 1) + 1 BY <1>1, <1>2
  <2> QED BY <1>1, <1>2, <2>1 DEF Follows
<1>3. ASSUME t # <<>>, t[1].kind = "PULL" PROVE s[1].kind = "RUN" /\ s[1].stmt = t[1].stmt
  <2>1. 1 \in 1..Len(t) /\ 1 \in 1..Len(s) /\ 2 \in 1..Len(s) /\ 2 = 1 + 1 BY <1>1, <1>3
  <2>2. t[1] = s[2] BY <1>1, <2>1
  <2> QED BY <1>3, <2>1, <2>2 DEF Follows
<1> QED BY <1>2, <1>3 DEF Follows, t

\* Reading an answer leaves the write buffer alone.
LEMMA DrainOut ==
  ASSUME NEW c \in ClientType, c.at \in {"run", "pull", "skip", "reset"}, NEW answer, NEW d, d = DrainStep(c, answer)
  PROVE  d.out = c.out
<1>1. ASSUME NEW e \in ClientType, d = PairDone(e), e.out = c.out PROVE d.out = c.out
  <2>1. d = [e EXCEPT !.depth = e.depth - 1, !.at = "run"]
        \/ d = [e EXCEPT !.depth = 0, !.at = IF e.last THEN "close" ELSE "fill"]
    BY <1>1 DEF PairDone
  <2> QED BY <1>1, <2>1 DEF ClientType
<1>2. c.count \in Nat /\ c.errors \in Nat /\ c.inFailed \in BOOLEAN BY DEF ClientType
<1>3. CASE c.at = "run"
  <2>1. d = [c EXCEPT !.at = "skip"] \/ d = [c EXCEPT !.at = "pull", !.inFailed = answer # "SUCCESS"]
    BY <1>2, <1>3, DrainIs
  <2> QED BY <2>1 DEF ClientType
<1>4. CASE c.at = "pull"
  <2> DEFINE e == [c EXCEPT !.count = c.count + 1]
             f == [c EXCEPT !.inFailed = TRUE, !.errors = c.errors + 1]
  <2>1. d = PairDone(e) \/ d = PairDone(f) BY <1>2, <1>4, DrainIs
  <2>2. c.count + 1 \in Nat /\ c.errors + 1 \in Nat BY <1>2
  <2>3. e \in ClientType /\ e.out = c.out BY <2>2 DEF ClientType
  <2>4. f \in ClientType /\ f.out = c.out BY <2>2 DEF ClientType
  <2> QED BY <2>1, <2>3, <2>4, <1>1
<1>5. CASE c.at = "skip"
  <2>1. d = [c EXCEPT !.at = "reset"] BY <1>5, DrainIs
  <2> QED BY <2>1 DEF ClientType
<1>6. CASE c.at = "reset"
  <2> DEFINE e == [c EXCEPT !.inFailed = FALSE, !.errors = c.errors + 1]
  <2>1. d = PairDone(e) \/ d = GiveUp(c, "reset")
    <3>1. CASE answer = "SUCCESS" BY <1>6, <3>1, DrainIs
    <3>2. CASE answer # "SUCCESS" BY <1>6, <3>2, DrainIs
    <3> QED BY <3>1, <3>2
  <2>2. c.errors + 1 \in Nat BY <1>2
  <2>3. e \in ClientType /\ e.out = c.out BY <2>2 DEF ClientType
  <2>4. CASE d = GiveUp(c, "reset") BY <2>4 DEF GiveUp, ClientType
  <2> QED BY <2>1, <2>3, <2>4, <1>1
<1> QED BY <1>3, <1>4, <1>5, <1>6

\* Every step keeps it.
LEMMA RanFirstKept == ImportInv /\ RanFirst /\ [NextImport]_importVars => RanFirst'
<1> SUFFICES ASSUME ImportInv, RanFirst, [NextImport]_importVars PROVE RanFirst' OBVIOUS
<1>0. ImportType /\ client \in ClientType /\ requests \in Seq(Request) /\ client.out \in Seq(Request)
  BY ImportTypes DEF ImportInv, ImportType
<1>k. ASSUME client'.out = client.out, UNCHANGED <<requests, refusing, executed, answered>> PROVE RanFirst'
  BY <1>k DEF RanFirst
<1>1. CASE SendStatement \/ StopProducing \/ UNCHANGED importVars
  BY <1>1, <1>k DEF SendStatement, StopProducing, importVars
<1>2. CASE NothingLeft \/ CloseChannel \/ JoinProducer \/ DrainFails
  <2>1. /\ UNCHANGED <<requests, refusing, executed, answered>>
        /\ \/ client' = [client EXCEPT !.at = "close"] \/ client' = [client EXCEPT !.open = FALSE]
           \/ client' = [client EXCEPT !.at = "ended"]
           \/ client' = [client EXCEPT !.at = "close", !.error = "io", !.depth = 0]
    BY <1>2 DEF NothingLeft, CloseChannel, JoinProducer, DrainFails, GiveUp
  <2>2. client'.out = client.out BY <2>1, <1>0 DEF ClientType
  <2> QED BY <2>1, <2>2, <1>k
<1>3. CASE Queue
  <2> DEFINE x == Head(queue)
             t == client.out \o Pair(x)
  <2>1. /\ client.at = "fill" /\ queue # <<>> /\ UNCHANGED <<requests, refusing, executed, answered>>
        /\ client' = [client EXCEPT !.depth = client.depth + 1, !.out = t]
    BY <1>3 DEF Queue, Pair
  <2>2. x \in Nat BY <1>0, <2>1, TailIs DEF ImportType
  <2>3. Alternates(client.out) BY <1>0, <2>1 DEF ImportInv, Batches
  <2>4. AddsPair(client.out, x, t) BY DEF AddsPair
  <2>5. client'.out = t BY <2>1, <1>0 DEF ClientType
  <2> HIDE DEF x, t
  <2>6. /\ Len(t) = Len(client.out) + 2 /\ \A i \in 1..Len(client.out) : t[i] = client.out[i]
        /\ t[Len(client.out) + 1] = [kind |-> "RUN", stmt |-> x]
        /\ t[Len(client.out) + 2] = [kind |-> "PULL", stmt |-> x]
    BY ONLY <1>0, <2>2, <2>3, <2>4, AlternatesPair
  <2>7. Follows(client.out) /\ (client.out # <<>> => client.out[1].kind = "RUN") BY DEF RanFirst
  <2>8. Follows(t) /\ t[1].kind = "RUN" BY ONLY <1>0, <2>2, <2>6, <2>7, FollowsPair
  <2> QED BY <2>1, <2>5, <2>8 DEF RanFirst
<1>4. CASE Flush
  <2>1. /\ client.at = "fill" /\ requests' = requests \o client.out /\ UNCHANGED <<refusing, executed, answered>>
        /\ \E b : client' = [client EXCEPT !.at = "run", !.out = <<>>, !.inFailed = FALSE, !.last = b]
    BY <1>4 DEF Flush
  <2>2. requests = <<>> BY <2>1 DEF ImportInv, Batches
  <2>3. requests' = client.out BY <1>0, <2>1, <2>2
  <2>4. client'.out = <<>> BY <1>0, <2>1 DEF ClientType
  <2>5. Follows(<<>>) BY DEF Follows
  <2> QED BY <2>1, <2>3, <2>4, <2>5 DEF RanFirst
<1>5. CASE Receive
  <2>1. /\ client.at \in {"run", "pull", "skip", "reset"} /\ client' = DrainStep(client, Head(responses))
        /\ UNCHANGED <<refusing, executed, answered>>
        /\ requests' = requests \/ requests' = Append(requests, [kind |-> "RESET", stmt |-> 0])
    BY <1>5 DEF Receive
  <2>2. client'.out = client.out BY <1>0, <2>1, DrainOut
  <2>3. CASE requests' = requests BY <2>1, <2>2, <2>3, <1>k
  <2>4. CASE requests' = Append(requests, [kind |-> "RESET", stmt |-> 0])
    <3> DEFINE r == [kind |-> "RESET", stmt |-> 0]
    <3>1. r \in Request /\ r.kind = "RESET" /\ requests' = Append(requests, r) BY <2>4 DEF Request
    <3> HIDE DEF r
    <3>2. Follows(requests) BY DEF RanFirst
    <3>3. Follows(requests') /\ (requests # <<>> => requests'[1] = requests[1]) /\ (requests = <<>> => requests'[1] = r)
      BY ONLY <1>0, <3>1, <3>2, FollowsReset
    <3> QED BY <2>1, <2>2, <3>1, <3>3 DEF RanFirst
  <2> QED BY <2>1, <2>3, <2>4
<1>6. CASE Serve
  <2> DEFINE r == Head(requests)
  <2>1. /\ requests # <<>> /\ requests' = Tail(requests) /\ client' = client
        /\ \/ r.kind # "RUN" /\ UNCHANGED <<executed, answered>>
           \/ refusing' /\ UNCHANGED <<executed, answered>>
           \/ r.kind = "RUN" /\ UNCHANGED answered /\ executed' = executed \cup {r.stmt}
           \/ /\ r.kind = "PULL" /\ ~refusing /\ UNCHANGED executed
              /\ answered' = answered \cup {r.stmt}
    BY <1>0, <1>6, ServeIs
  <2>2. r = requests[1] BY <1>0, <2>1, TailIs
  <2> HIDE DEF r
  <2>3. Follows(requests) BY DEF RanFirst
  <2>4. /\ Follows(requests')
        /\ (requests' # <<>> /\ requests'[1].kind = "PULL") => requests[1].kind = "RUN" /\ requests[1].stmt = requests'[1].stmt
    BY ONLY <1>0, <2>1, <2>3, FollowsTail
  <2>5. answered' \subseteq executed' BY <2>1, <2>2 DEF RanFirst
  <2>6. (requests' # <<>> /\ ~refusing' /\ requests'[1].kind = "PULL") => requests'[1].stmt \in executed'
    BY <2>1, <2>2, <2>4
  <2> QED BY <2>1, <2>4, <2>5, <2>6 DEF RanFirst
<1> QED BY <1>1, <1>2, <1>3, <1>4, <1>5, <1>6 DEF NextImport, ClientStep, Ended

\* What the import reports is what the server did, and it never takes one
\* statement's answer for another's, for any number of statements, any batch size
\* and channel, any RUN that fails, any PULL that is refused, a file that does
\* not parse and a connection that breaks (drain_pipeline, run_pipelined_import).
THEOREM ImportsAreTrue == SpecImport => []ImportIsTrue
<1>1. InitImport => ImportInv /\ RanFirst
  <2>1. InitImport => RanFirst BY DEF InitImport, RanFirst, Follows
  <2> QED BY <2>1, ImportStarts
<1>2. ImportInv /\ RanFirst /\ [NextImport]_importVars => (ImportInv /\ RanFirst)'
  BY ImportInvKept, RanFirstKept
<1>3. ImportInv /\ RanFirst => ImportIsTrue
  <2> SUFFICES ASSUME ImportInv, RanFirst PROVE ImportIsTrue OBVIOUS
  <2>0. ImportType BY DEF ImportInv
  <2>1. StreamsInStep
    <3>1. client.at = "fill" => client.error = "none" BY <2>0, ImportTypes DEF ImportInv
    <3> QED BY <3>1 DEF StreamsInStep, ImportInv, Batches
  <2>2. ASSUME client.at = "ended", client.error = "none"
        PROVE  client.count = Cardinality(answered) /\ client.count + client.errors = producer.next - 1
    <3>1. /\ client.count + client.errors + client.depth + Len(queue) = producer.next - 1
          /\ queue = <<>> /\ client.depth = 0 /\ Cardinality(answered) = client.count
      BY <2>2 DEF ImportInv, Totals
    <3>2. client.count \in Nat /\ client.errors \in Nat BY <2>0, ImportTypes
    <3>3. Len(queue) = 0 BY <3>1
    <3>4. client.count + client.errors + 0 + 0 = producer.next - 1 BY <3>1, <3>3
    <3> QED BY <3>1, <3>2, <3>4
  <2> QED BY <2>1, <2>2 DEF ImportIsTrue, CountsAreTrue, ImportInv, RanFirst
<1> QED BY <1>1, <1>2, <1>3, PTL DEF SpecImport

-----------------------------------------------------------------------------
(* The audit log.                                                          *)

Line == [no : Nat, id : Nat, count : Nat, whole : BOOLEAN]
Event == [id : Nat \ {0}, len : Nat, count : {0}]

WriterState == [file : [0..KeepFiles -> Seq(Line)], handle : Nat, size : Nat, torn : BOOLEAN,
                since : Nat, unsynced : Nat, lines : Seq(Line), reported : Nat, unreported : Nat,
                lost : SUBSET Nat, behind : Nat]

\* The file being written is the newest that has any lines.
BelowIsEmpty(files, h) == \A i \in 0..KeepFiles : i < h => files[i] = <<>>

\* A torn text and a damaged line come from a write that failed.
DamagePaid(w) ==
  (w.lost = {} /\ w.unreported = 0) => ~w.torn /\ \A n \in DOMAIN w.lines : w.lines[n].whole

\* What holds between two events of the writer.
GoodWriter(w) ==
  /\ w \in WriterState
  /\ w.unsynced <= w.behind + w.since /\ (FsyncEvery > 0 => w.since < FsyncEvery)
  /\ BelowIsEmpty(w.file, w.handle)
  /\ HoldNewest(w.file, w.lines)
  /\ DamagePaid(w)

\* Events are numbered as they are sent, and those in the channel come after
\* those in the lines.
SentInOrder(ch, written, s) ==
  /\ \A i \in DOMAIN ch : ch[i].id \in 1..s
  /\ \A i, j \in DOMAIN ch : i < j => ch[i].id < ch[j].id
  /\ \A n \in DOMAIN written : written[n].id <= s /\ \A i \in DOMAIN ch : written[n].id < ch[i].id
  /\ EventsInOrder(written)

\* Those that were lost came before those in the channel as well, and every
\* accepted one is in one place.
Placed(ch, written, lst, lt, acc, s) ==
  /\ SentInOrder(ch, written, s)
  /\ lst \subseteq 1..s /\ lt \subseteq 1..s /\ acc \subseteq 1..s
  /\ \A x \in lst : \A i \in DOMAIN ch : x < ch[i].id
  /\ acc = IdsOf(ch) \cup (IdsOf(written) \ {0}) \cup lst \cup lt
  /\ (IdsOf(written) \ {0}) \cap (lst \cup lt) = {} /\ lst \cap lt = {}

AuditInv ==
  /\ channel \in Seq(Event) /\ dropped \in Nat /\ refused \in Nat /\ sent \in Nat
  /\ GoodWriter(Writer)
  /\ Placed(channel, lines, lost, late, accepted, sent)
  /\ writer # "ended" => late = {}
  /\ writer = "ended" => channel = <<>>
  /\ LossesAreCounted

\* The numbers of a sequence with one entry more, or less.
LEMMA IdsMore ==
  ASSUME NEW S, NEW q \in Seq(S), NEW x \in S
  PROVE  IdsOf(Append(q, x)) = IdsOf(q) \cup {x.id}
<1> DEFINE n == Len(q)
           u == Append(q, x)
<1>1. n \in Nat /\ DOMAIN q = 1..n /\ DOMAIN u = 1..(n + 1) /\ u[n + 1] = x /\ \A i \in 1..n : u[i] = q[i]
  OBVIOUS
<1>2. \A i \in 1..(n + 1) : i = n + 1 \/ i \in 1..n BY <1>1
<1>3. 1..n \subseteq 1..(n + 1) /\ n + 1 \in 1..(n + 1) BY <1>1
<1> HIDE DEF u, n
<1> QED BY <1>1, <1>2, <1>3 DEF IdsOf, u

LEMMA IdsLess ==
  ASSUME NEW S, NEW q \in Seq(S), q # <<>>
  PROVE  IdsOf(q) = {Head(q).id} \cup IdsOf(Tail(q))
<1> DEFINE n == Len(q)
           c == Tail(q)
<1>1. /\ n \in Nat \ {0} /\ DOMAIN q = 1..n /\ DOMAIN c = 1..(n - 1) /\ Head(q) = q[1]
      /\ \A i \in 1..(n - 1) : c[i] = q[i + 1]
  OBVIOUS
<1>2. \A i \in 1..n : i = 1 \/ (i - 1 \in 1..(n - 1) /\ (i - 1) + 1 = i) BY <1>1
<1>3. 1 \in 1..n /\ \A i \in 1..(n - 1) : i + 1 \in 1..n BY <1>1
<1> HIDE DEF c, n
<1>4. \A i \in 1..n : i = 1 \/ \E j \in 1..(n - 1) : c[j] = q[i] BY <1>1, <1>2
<1>5. \A y : y \in IdsOf(q) <=> y = Head(q).id \/ y \in IdsOf(c)
  <2>1. ASSUME NEW y, y \in IdsOf(q) PROVE y = Head(q).id \/ y \in IdsOf(c)
    <3>1. PICK i \in 1..n : y = q[i].id BY <2>1, <1>1 DEF IdsOf
    <3>2. CASE i = 1 BY <3>1, <3>2, <1>1
    <3>3. ASSUME NEW j \in 1..(n - 1), c[j] = q[i] PROVE y \in IdsOf(c) BY <3>1, <3>3, <1>1 DEF IdsOf
    <3> QED BY <3>2, <3>3, <1>4
  <2>2. ASSUME NEW y, y \in IdsOf(c) PROVE y \in IdsOf(q)
    <3>1. PICK i \in 1..(n - 1) : y = c[i].id BY <2>2, <1>1 DEF IdsOf
    <3>2. i + 1 \in 1..n /\ y = q[i + 1].id BY <3>1, <1>1, <1>3
    <3> QED BY <3>2, <1>1 DEF IdsOf
  <2>3. Head(q).id \in IdsOf(q) BY <1>1, <1>3 DEF IdsOf
  <2> QED BY <2>1, <2>2, <2>3
<1> QED BY <1>5 DEF c

\* Files that move without changing their order, none of them but the oldest
\* lost, still hold the newest lines.
LEMMA RelocateKeeps ==
  ASSUME NEW files \in [0..KeepFiles -> Seq(Line)], NEW g \in [0..KeepFiles -> Seq(Line)],
         NEW written \in Seq(Line), HoldNewest(files, written),
         NEW src \in [0..KeepFiles -> 0..KeepFiles],
         \A i \in 0..KeepFiles : g[i] # <<>> => g[i] = files[src[i]],
         \A i, j \in 0..KeepFiles : i < j /\ g[i] # <<>> /\ g[j] # <<>> => src[i] < src[j],
         \A q \in 0..(KeepFiles - 1) : files[q] # <<>> => \E i \in 0..KeepFiles : g[i] = files[q]
  PROVE  HoldNewest(g, written)
<1>0. KeepFiles \in Nat \ {0} BY AuditAssumption
<1>1. ASSUME NEW i \in 0..KeepFiles, NEW k \in DOMAIN g[i]
      PROVE  g[i] # <<>> /\ src[i] \in 0..KeepFiles /\ g[i] = files[src[i]] /\ k \in DOMAIN files[src[i]]
  <2>1. DOMAIN <<>> = {} OBVIOUS
  <2> QED BY <2>1, <1>1
<1>2. SUFFICES ASSUME NEW i \in 0..KeepFiles, NEW k \in DOMAIN g[i]
      PROVE  /\ g[i][k].no \in DOMAIN written /\ g[i][k] = written[g[i][k].no]
             /\ \A j \in 0..KeepFiles : \A m \in DOMAIN g[j] :
                  i > j \/ (i = j /\ k < m) => g[i][k].no < g[j][m].no
             /\ \A n \in g[i][k].no..Len(written) :
                  \E j \in 0..KeepFiles : \E m \in DOMAIN g[j] : g[j][m].no = n
  BY DEF HoldNewest
<1>3. g[i] # <<>> /\ src[i] \in 0..KeepFiles /\ g[i] = files[src[i]] /\ k \in DOMAIN files[src[i]] BY <1>1
<1>4. g[i][k].no \in DOMAIN written /\ g[i][k] = written[g[i][k].no] BY <1>3 DEF HoldNewest
<1>5. ASSUME NEW j \in 0..KeepFiles, NEW m \in DOMAIN g[j], i > j \/ (i = j /\ k < m)
      PROVE  g[i][k].no < g[j][m].no
  <2>1. g[j] # <<>> /\ src[j] \in 0..KeepFiles /\ g[j] = files[src[j]] /\ m \in DOMAIN files[src[j]] BY <1>1
  <2>2. src[i] > src[j] \/ (src[i] = src[j] /\ k < m) BY <2>1, <1>3, <1>5
  <2> QED BY <2>1, <2>2, <1>3 DEF HoldNewest
<1>6. ASSUME NEW n \in g[i][k].no..Len(written)
      PROVE  \E j \in 0..KeepFiles : \E m \in DOMAIN g[j] : g[j][m].no = n
  <2>0. PICK q \in 0..KeepFiles : \E m \in DOMAIN files[q] : files[q][m].no = n
    <3>1. n \in files[src[i]][k].no..Len(written) BY <1>3
    <3>2. \A a \in 0..KeepFiles : \A b \in DOMAIN files[a] :
            \A c \in files[a][b].no..Len(written) :
              \E j \in 0..KeepFiles : \E m \in DOMAIN files[j] : files[j][m].no = c
      BY DEF HoldNewest
    <3> QED BY <3>1, <3>2, <1>3
  <2>1. PICK m \in DOMAIN files[q] : files[q][m].no = n BY <2>0
  <2>2. CASE q = src[i]
    BY <2>1, <2>2, <1>3
  <2>3. CASE q # src[i]
    <3>1. q # KeepFiles
      <4>1. SUFFICES ASSUME q = KeepFiles PROVE FALSE OBVIOUS
      <4>2. q > src[i] BY <4>1, <2>3, <1>0, <1>3
      <4>3. files[q][m].no < files[src[i]][k].no BY <4>2, <2>1, <1>3 DEF HoldNewest
      <4>4. files[src[i]][k].no \in Nat
        <5>1. files[src[i]] \in Seq(Line) BY <1>3
        <5>2. files[src[i]][k] \in Line BY <5>1, <1>3
        <5> QED BY <5>2 DEF Line
      <4> QED BY <4>3, <4>4, <2>1, <1>3
    <3>2. q \in 0..(KeepFiles - 1) BY <3>1, <1>0
    <3>3. files[q] # <<>>
      <4>1. DOMAIN <<>> = {} OBVIOUS
      <4> QED BY <4>1, <2>1
    <3>4. PICK j \in 0..KeepFiles : g[j] = files[q] BY <3>2, <3>3
    <3> QED BY <3>4, <2>1
  <2> QED BY <2>2, <2>3
<1> QED BY <1>4, <1>5, <1>6

\* The renames of rotate, stopped anywhere.
LEMMA ShiftKeeps ==
  ASSUME NEW w \in WriterState, NEW o \in Outcomes, BelowIsEmpty(w.file, w.handle),
         HoldNewest(w.file, w.lines)
  PROVE  /\ Shift(w, o) \in [0..KeepFiles -> Seq(Line)]
         /\ HoldNewest(Shift(w, o), w.lines)
         /\ BelowIsEmpty(Shift(w, o), IF w.handle \in Moved(o.steps) \/ (w.handle = KeepFiles /\ o.remove)
                                      THEN w.handle + 1 ELSE w.handle)
<1> DEFINE g == Shift(w, o)
           moved == Moved(o.steps)
           up(i) == i - 1 \in moved /\ Exists(w, i - 1)
           src == [i \in 0..KeepFiles |-> IF up(i) THEN i - 1 ELSE i]
<1>0. KeepFiles \in Nat \ {0} /\ w.file \in [0..KeepFiles -> Seq(Line)] /\ w.handle \in Nat
      /\ o.steps \in Nat /\ w.lines \in Seq(Line)
  BY AuditAssumption DEF WriterState, Outcomes
<1>1. ASSUME NEW i \in 0..KeepFiles
      PROVE  /\ i \in moved => i < KeepFiles
             /\ i - 1 \in moved => i - 1 \in 0..KeepFiles /\ (i \in moved \/ i = KeepFiles)
  BY <1>0 DEF Moved
<1>1a. \A i \in 0..(KeepFiles - 1) : i + 1 \in 0..KeepFiles /\ (i + 1) - 1 = i BY <1>0
<1>2. \A i \in 0..KeepFiles :
        g[i] = IF up(i) THEN w.file[i - 1]
               ELSE IF i \in moved \/ (i = KeepFiles /\ o.remove) THEN <<>> ELSE w.file[i]
  BY DEF Shift
<1> HIDE DEF g, moved
<1>3. ASSUME NEW i \in 0..KeepFiles PROVE g[i] \in Seq(Line)
  <2>1. w.file[i] \in Seq(Line) BY <1>0
  <2>1a. <<>> \in Seq(Line) OBVIOUS
  <2>2. i - 1 \in moved => w.file[i - 1] \in Seq(Line) BY <1>0, <1>1
  <2> QED BY <2>1, <2>1a, <2>2, <1>2
<1>4. g \in [0..KeepFiles -> Seq(Line)]
  <2>1. g = [i \in 0..KeepFiles |-> g[i]] BY DEF g, Shift
  <2> QED BY <2>1, <1>3
<1>5. src \in [0..KeepFiles -> 0..KeepFiles]
  <2>1. \A i \in 0..KeepFiles : (IF up(i) THEN i - 1 ELSE i) \in 0..KeepFiles BY <1>1
  <2> QED BY <2>1
<1>6. ASSUME NEW i \in 0..KeepFiles, g[i] # <<>> PROVE g[i] = w.file[src[i]]
  <2>1. src[i] = IF up(i) THEN i - 1 ELSE i OBVIOUS
  <2> HIDE DEF src
  <2> QED BY <2>1, <1>2, <1>6
<1>7. ASSUME NEW i \in 0..KeepFiles, NEW j \in 0..KeepFiles, i < j, g[i] # <<>>, g[j] # <<>>
      PROVE  src[i] < src[j]
  <2>00. i \in Nat /\ j \in Nat /\ i < j BY <1>7, <1>0
  <2>0. src[i] = (IF up(i) THEN i - 1 ELSE i) /\ src[j] = (IF up(j) THEN j - 1 ELSE j) OBVIOUS
  <2> HIDE DEF src
  <2>1. CASE up(i)
    <3>1. src[i] = i - 1 BY <2>0, <2>1
    <3>2. src[j] = j \/ src[j] = j - 1 BY <2>0
    <3> QED BY ONLY <3>1, <3>2, <2>00
  <2>2. CASE ~up(i)
    <3>1. i \notin moved BY <2>2, <1>2, <1>7
    <3>2. j - 1 = i => ~up(j) BY <3>1
    <3>3. src[i] = i BY <2>0, <2>2
    <3>4. src[j] = j \/ (src[j] = j - 1 /\ j - 1 # i) BY <2>0, <3>2
    <3> QED BY ONLY <3>3, <3>4, <2>00
  <2> QED BY <2>1, <2>2
<1>8. ASSUME NEW q \in 0..(KeepFiles - 1), w.file[q] # <<>>
      PROVE  \E i \in 0..KeepFiles : g[i] = w.file[q]
  <2>0. q \in 0..KeepFiles /\ q # KeepFiles BY <1>0
  <2>1. CASE q \in moved
    <3>1. up(q + 1) BY <2>1, <1>1a, <1>8 DEF Exists
    <3>2. g[q + 1] = w.file[q] BY <3>1, <1>1a, <1>2
    <3> QED BY <3>2, <1>1a
  <2>2. CASE q \notin moved
    <3>1. ~up(q) BY <2>0, <2>2, <1>1
    <3> QED BY <3>1, <2>0, <2>2, <1>2
  <2> QED BY <2>1, <2>2
<1>9. HoldNewest(g, w.lines)
  <2> HIDE DEF src
  <2> QED BY <1>0, <1>4, <1>5, <1>6, <1>7, <1>8, RelocateKeeps
<1>10. ASSUME NEW i \in 0..KeepFiles,
              i < IF w.handle \in moved \/ (w.handle = KeepFiles /\ o.remove) THEN w.handle + 1 ELSE w.handle
       PROVE  g[i] = <<>>
  <2>1. i < w.handle \/ (i = w.handle /\ (w.handle \in moved \/ (w.handle = KeepFiles /\ o.remove)))
    BY <1>0, <1>10
  <2>2. ~up(i)
    <3>1. SUFFICES ASSUME i - 1 \in moved PROVE ~Exists(w, i - 1) OBVIOUS
    <3>2. i - 1 \in 0..KeepFiles BY <3>1, <1>1
    <3>3. i <= w.handle BY <2>1, <1>0
    <3>4. i - 1 < w.handle BY <3>2, <3>3, <1>0
    <3> QED BY <3>2, <3>4 DEF BelowIsEmpty, Exists
  <2> QED BY <2>1, <2>2, <1>2 DEF BelowIsEmpty
<1> QED BY <1>4, <1>9, <1>10 DEF BelowIsEmpty, g, moved

\* rotate keeps what the writer relies on, however far it gets.
LEMMA RotateKeeps ==
  ASSUME NEW w, GoodWriter(w), NEW o \in Outcomes
  PROVE  /\ GoodWriter(Rotate(w, o))
         /\ Rotate(w, o).lines = w.lines /\ Rotate(w, o).reported = w.reported
         /\ Rotate(w, o).unreported = w.unreported /\ Rotate(w, o).lost = w.lost
<1>0. w \in WriterState /\ KeepFiles \in Nat BY AuditAssumption DEF GoodWriter
<1>1. CASE ~o.flush
  <2>1. Rotate(w, o) = w BY <1>1 DEF Rotate
  <2> QED BY <2>1
<1>2. CASE o.flush
  <2> DEFINE reopened == o.steps > KeepFiles
             shifted == IF w.handle \in Moved(o.steps) \/ (w.handle = KeepFiles /\ o.remove)
                        THEN w.handle + 1 ELSE w.handle
             h == IF reopened THEN 0 ELSE shifted
             z == IF reopened THEN 0 ELSE w.size
             t == ~reopened /\ w.torn
             f == Shift(w, o)
             r == Rotate(w, o)
  <2>1. r = [w EXCEPT !.file = f, !.handle = h, !.size = z, !.torn = t, !.unsynced = 0, !.behind = 0]
    BY <1>2 DEF Rotate
  <2>2. f \in [0..KeepFiles -> Seq(Line)] /\ HoldNewest(f, w.lines) /\ BelowIsEmpty(f, shifted)
    BY <1>0, ShiftKeeps DEF GoodWriter
  <2>3. w.handle \in Nat /\ w.size \in Nat /\ w.torn \in BOOLEAN BY <1>0 DEF WriterState
  <2>4. h \in Nat /\ z \in Nat /\ t \in BOOLEAN BY <2>3
  <2>5. BelowIsEmpty(f, h)
    <3>1. CASE reopened
      <4>1. \A i \in 0..KeepFiles : ~(i < 0) BY <1>0
      <4> QED BY <4>1, <3>1 DEF BelowIsEmpty
    <3>2. CASE ~reopened BY <3>2, <2>2
    <3> QED BY <3>1, <3>2
  <2>6. t => w.torn OBVIOUS
  <2> HIDE DEF f, h, z, t, r, shifted, reopened
  <2>7. r = [file |-> f, handle |-> h, size |-> z, torn |-> t, since |-> w.since, unsynced |-> 0,
             lines |-> w.lines, reported |-> w.reported, unreported |-> w.unreported, lost |-> w.lost,
             behind |-> 0]
    BY <2>1, <1>0 DEF WriterState
  <2>8. r \in WriterState /\ r.file = f /\ r.handle = h /\ r.torn = t /\ r.since = w.since
        /\ r.unsynced = 0 /\ r.behind = 0 /\ r.lines = w.lines /\ r.reported = w.reported
        /\ r.unreported = w.unreported /\ r.lost = w.lost
    BY <2>7, <2>2, <2>4, <1>0 DEF WriterState
  <2>9. w.since \in Nat BY <1>0 DEF WriterState
  <2>10. r.unsynced <= r.behind + r.since /\ (FsyncEvery > 0 => r.since < FsyncEvery)
    BY <2>8, <2>9 DEF GoodWriter
  <2>11. DamagePaid(r) BY <2>6, <2>8 DEF GoodWriter, DamagePaid
  <2> QED BY <2>2, <2>5, <2>8, <2>10, <2>11 DEF GoodWriter, r
<1> QED BY <1>1, <1>2

AppendsAt(files, h, line, g) ==
  g = [i \in 0..KeepFiles |-> IF i = h THEN Append(files[i], line) ELSE files[i]]

\* A line appended to the newest file that has lines, or to none if that file
\* was removed, and to the history.
LEMMA AppendKeeps ==
  ASSUME NEW files \in [0..KeepFiles -> Seq(Line)], NEW written \in Seq(Line), NEW h \in Nat,
         HoldNewest(files, written), BelowIsEmpty(files, h),
         NEW line \in Line, line.no = Len(written) + 1,
         NEW g, AppendsAt(files, h, line, g)
  PROVE  /\ g \in [0..KeepFiles -> Seq(Line)] /\ BelowIsEmpty(g, h)
         /\ HoldNewest(g, Append(written, line))
<1> DEFINE u == Append(written, line)
           N == Len(written)
           L == Len(files[h])
<1>0. KeepFiles \in Nat \ {0} BY AuditAssumption
<1>1. \A i \in 0..KeepFiles : files[i] \in Seq(Line) OBVIOUS
<1>2. g \in [0..KeepFiles -> Seq(Line)]
  <2>1. \A i \in 0..KeepFiles : (IF i = h THEN Append(files[i], line) ELSE files[i]) \in Seq(Line) BY <1>1
  <2> QED BY <2>1 DEF AppendsAt
<1>3. \A i \in 0..KeepFiles : g[i] = IF i = h THEN Append(files[i], line) ELSE files[i] BY DEF AppendsAt
<1>4. BelowIsEmpty(g, h) BY <1>0, <1>3 DEF BelowIsEmpty
<1>5. N \in Nat /\ u \in Seq(Line) /\ Len(u) = N + 1 /\ DOMAIN u = 1..(N + 1) /\ u[N + 1] = line
      /\ DOMAIN written = 1..N /\ \A n \in 1..N : u[n] = written[n]
  OBVIOUS
<1>6. CASE h > KeepFiles
  <2>1. \A i \in 0..KeepFiles : i # h /\ i < h BY <1>0, <1>6
  <2>2. \A i \in 0..KeepFiles : g[i] = <<>> BY <2>1, <1>3 DEF BelowIsEmpty
  <2>3. DOMAIN <<>> = {} OBVIOUS
  <2>4. HoldNewest(g, u) BY <2>2, <2>3 DEF HoldNewest
  <2> QED BY <2>4, <1>2, <1>4
<1>7. CASE h \in 0..KeepFiles
  <2>1. files[h] \in Seq(Line) BY <1>7
  <2>2. L \in Nat /\ g[h] = Append(files[h], line) /\ DOMAIN g[h] = 1..(L + 1) /\ DOMAIN files[h] = 1..L
        /\ g[h][L + 1] = line /\ \A k \in 1..L : g[h][k] = files[h][k]
    <3>1. g[h] = Append(files[h], line) BY <1>3, <1>7
    <3> QED BY <3>1, <2>1
  <2>3. \A i \in 0..KeepFiles : i # h => g[i] = files[i] BY <1>3
  <2>4. \A j \in 0..KeepFiles : \A m \in DOMAIN g[j] : j >= h
    <3>1. DOMAIN <<>> = {} OBVIOUS
    <3>2. ASSUME NEW j \in 0..KeepFiles, NEW m \in DOMAIN g[j], j < h PROVE FALSE
      BY <3>1, <3>2, <1>4 DEF BelowIsEmpty
    <3> QED BY <3>2, <1>0
  <2> HIDE DEF u, L
  <2>5. ASSUME NEW i \in 0..KeepFiles, NEW k \in DOMAIN g[i]
        PROVE  \/ k \in DOMAIN files[i] /\ g[i][k] = files[i][k] /\ files[i][k].no \in 1..N
               \/ i = h /\ k = L + 1 /\ g[i][k] = line
    <3>1. k \in DOMAIN files[i] => files[i][k].no \in 1..N BY <1>5 DEF HoldNewest
    <3>2. CASE i # h BY <3>1, <3>2, <2>3, <2>5
    <3>3. CASE i = h
      <4>1. k \in 1..L \/ k = L + 1 BY <3>3, <2>2, <2>5
      <4> QED BY <4>1, <3>1, <3>3, <2>2
    <3> QED BY <3>2, <3>3
  <2>6. ASSUME NEW i \in 0..KeepFiles, NEW k \in DOMAIN files[i]
        PROVE  k \in DOMAIN g[i] /\ g[i][k] = files[i][k]
    <3>1. CASE i # h BY <3>1, <2>3, <2>6
    <3>2. CASE i = h
      <4>1. k \in 1..L /\ k \in 1..(L + 1) BY <3>2, <2>2, <2>6
      <4> QED BY <4>1, <3>2, <2>2
    <3> QED BY <3>1, <3>2
  <2>7. SUFFICES ASSUME NEW i \in 0..KeepFiles, NEW k \in DOMAIN g[i]
        PROVE  /\ g[i][k].no \in DOMAIN u /\ g[i][k] = u[g[i][k].no]
               /\ \A j \in 0..KeepFiles : \A m \in DOMAIN g[j] :
                    i > j \/ (i = j /\ k < m) => g[i][k].no < g[j][m].no
               /\ \A n \in g[i][k].no..Len(u) :
                    \E j \in 0..KeepFiles : \E m \in DOMAIN g[j] : g[j][m].no = n
    BY <1>2, <1>4 DEF HoldNewest, u
  <2>8. g[i][k].no \in DOMAIN u /\ g[i][k] = u[g[i][k].no]
    <3>1. CASE k \in DOMAIN files[i] /\ g[i][k] = files[i][k] /\ files[i][k].no \in 1..N
      BY <3>1, <1>5 DEF HoldNewest
    <3>2. CASE g[i][k] = line BY <3>2, <1>5
    <3> QED BY <3>1, <3>2, <2>5
  <2>9. ASSUME NEW j \in 0..KeepFiles, NEW m \in DOMAIN g[j], i > j \/ (i = j /\ k < m)
        PROVE  g[i][k].no < g[j][m].no
    <3>1. CASE k \in DOMAIN files[i] /\ g[i][k] = files[i][k] /\ files[i][k].no \in 1..N
      <4>1. CASE m \in DOMAIN files[j] /\ g[j][m] = files[j][m] BY <3>1, <4>1, <2>9 DEF HoldNewest
      <4>2. CASE g[j][m] = line
        <5>1. g[j][m].no = N + 1 /\ g[i][k].no \in 1..N /\ N \in Nat BY <3>1, <4>2, <1>5
        <5> QED BY ONLY <5>1
      <4> QED BY <4>1, <4>2, <2>5
    <3>2. CASE i = h /\ k = L + 1
      <4>1. j >= h BY <2>4
      <4>2. j = h /\ m > L + 1 BY <4>1, <3>2, <2>9, <1>7
      <4>3. m \in 1..(L + 1) BY <4>2, <2>2
      <4> QED BY <4>2, <4>3, <2>2
    <3> QED BY <3>1, <3>2, <2>5
  <2>10. ASSUME NEW n \in g[i][k].no..Len(u)
         PROVE  \E j \in 0..KeepFiles : \E m \in DOMAIN g[j] : g[j][m].no = n
    <3>1. CASE n = N + 1
      <4>1. L + 1 \in DOMAIN g[h] /\ g[h][L + 1].no = n BY <3>1, <2>2
      <4> QED BY <4>1, <1>7
    <3>2. CASE n # N + 1
      <4>1. g[i][k] # line BY <3>2, <1>5
      <4>2. k \in DOMAIN files[i] /\ g[i][k] = files[i][k] /\ files[i][k].no \in 1..N BY <4>1, <2>5
      <4>3. n \in files[i][k].no..N BY <3>2, <4>2, <1>5
      <4>3a. \A a \in 0..KeepFiles : \A b \in DOMAIN files[a] :
               \A c \in files[a][b].no..N :
                 \E j \in 0..KeepFiles : \E m \in DOMAIN files[j] : files[j][m].no = c
        BY DEF HoldNewest
      <4>4. PICK j \in 0..KeepFiles : \E m \in DOMAIN files[j] : files[j][m].no = n
        BY <4>2, <4>3, <4>3a
      <4> QED BY <4>4, <2>6
    <3> QED BY <3>1, <3>2
  <2> QED BY <2>8, <2>9, <2>10
<1> QED BY <1>0, <1>6, <1>7

\* What handle_one does to the histories: a line, or a loss that they record.
Handled(w, e, v) ==
  \/ /\ \E line \in Line : line.id = e.id /\ v.lines = Append(w.lines, line)
     /\ v.reported = w.reported + e.count /\ v.unreported = w.unreported /\ v.lost = w.lost
  \/ /\ v.lines = w.lines /\ v.reported = w.reported /\ v.unreported = w.unreported + e.count
     /\ v.lost = IF e.id = 0 THEN w.lost ELSE w.lost \cup {e.id}

\* handle_one writes one line, in its place, and syncs when it is due.
LEMMA HandleKeeps ==
  ASSUME NEW w, GoodWriter(w), NEW e \in [id : Nat, len : Nat, count : Nat], e.id # 0 \/ e.count > 0,
         NEW o \in Outcomes
  PROVE  GoodWriter(HandleOne(w, e, o)) /\ Handled(w, e, HandleOne(w, e, o))
<1> DEFINE r == IF w.size + e.len > MaxBytes THEN Rotate(w, o) ELSE w
<1>0. FsyncEvery \in Nat /\ KeepFiles \in Nat \ {0} BY AuditAssumption
<1>1. GoodWriter(r) /\ r.lines = w.lines /\ r.reported = w.reported /\ r.unreported = w.unreported
      /\ r.lost = w.lost
  <2>1. CASE w.size + e.len > MaxBytes
    <3>1. r = Rotate(w, o) BY <2>1
    <3> HIDE DEF r
    <3> QED BY <3>1, RotateKeeps
  <2>2. CASE ~(w.size + e.len > MaxBytes) BY <2>2
  <2> QED BY <2>1, <2>2
<1>2. HandleOne(w, e, o) = IF o.write = "ok" THEN SyncDue(Written(r, e), o) ELSE NotWritten(r, e, o)
  BY DEF HandleOne
<1> HIDE DEF r
<1>3. r \in WriterState /\ e.id \in Nat /\ e.len \in Nat /\ e.count \in Nat BY <1>1 DEF GoodWriter
<1>4. /\ r.file \in [0..KeepFiles -> Seq(Line)] /\ r.handle \in Nat /\ r.size \in Nat /\ r.torn \in BOOLEAN
      /\ r.since \in Nat /\ r.unsynced \in Nat /\ r.lines \in Seq(Line) /\ r.reported \in Nat
      /\ r.unreported \in Nat /\ r.lost \in SUBSET Nat /\ r.behind \in Nat
  BY <1>3 DEF WriterState
<1>5. CASE o.write # "ok"
  <2> DEFINE v == NotWritten(r, e, o)
             t == r.torn \/ o.write = "torn"
             k == r.unreported + e.count
             l == IF e.id = 0 THEN r.lost ELSE r.lost \cup {e.id}
  <2>1. v = [r EXCEPT !.torn = t, !.unreported = k, !.lost = l] BY DEF NotWritten
  <2>2. t \in BOOLEAN /\ k \in Nat /\ l \in SUBSET Nat /\ (l # {} \/ k > 0)
    <3>1. t \in BOOLEAN BY <1>4
    <3>2. k \in Nat /\ (e.count > 0 => k > 0)
      <4>1. r.unreported \in Nat /\ e.count \in Nat BY <1>3, <1>4
      <4> QED BY ONLY <4>1
    <3>3. l \in SUBSET Nat /\ (e.id # 0 => l # {}) BY <1>3, <1>4
    <3> QED BY <3>1, <3>2, <3>3
  <2>2a. k = r.unreported + e.count /\ l = IF e.id = 0 THEN r.lost ELSE r.lost \cup {e.id} OBVIOUS
  <2> HIDE DEF v, t, k, l
  <2>3. v = [file |-> r.file, handle |-> r.handle, size |-> r.size, torn |-> t, since |-> r.since,
             unsynced |-> r.unsynced, lines |-> r.lines, reported |-> r.reported, unreported |-> k,
             lost |-> l, behind |-> r.behind]
    BY <2>1, <1>3 DEF WriterState
  <2>4. v \in WriterState BY <2>2, <2>3, <1>4 DEF WriterState
  <2>5. /\ v.file = r.file /\ v.handle = r.handle /\ v.lines = r.lines /\ v.since = r.since
        /\ v.unsynced = r.unsynced /\ v.behind = r.behind /\ v.lost = l /\ v.unreported = k
        /\ v.reported = r.reported
    BY <2>3
  <2>6. DamagePaid(v) BY <2>2, <2>5 DEF DamagePaid
  <2>7. GoodWriter(v) BY <2>4, <2>5, <2>6, <1>1 DEF GoodWriter
  <2>8. Handled(w, e, v) BY <2>2a, <2>5, <1>1 DEF Handled
  <2> QED BY <2>7, <2>8, <1>2, <1>5 DEF v
<1>6. CASE o.write = "ok"
  <2> DEFINE p == Written(r, e)
             line == [no |-> Len(r.lines) + 1, id |-> e.id, count |-> e.count, whole |-> ~r.torn]
             g == [i \in 0..KeepFiles |-> IF i = r.handle THEN Append(r.file[i], line) ELSE r.file[i]]
             us == Append(r.lines, line)
             done == SyncDue(p, o)
  <2>1. line \in Line /\ line.no = Len(r.lines) + 1 /\ line.id = e.id /\ line.whole = ~r.torn
    <3>1. Len(r.lines) + 1 \in Nat /\ (~r.torn) \in BOOLEAN BY <1>4
    <3> QED BY <3>1, <1>3 DEF Line
  <2>2. p = [r EXCEPT !.file = g, !.size = r.size + e.len, !.torn = FALSE, !.since = r.since + 1,
                      !.unsynced = r.unsynced + 1, !.lines = us, !.reported = r.reported + e.count]
    BY DEF Written
  <2> HIDE DEF p, line
  <2>3. g \in [0..KeepFiles -> Seq(Line)] /\ BelowIsEmpty(g, r.handle) /\ HoldNewest(g, us)
    <3>1. HoldNewest(r.file, r.lines) /\ BelowIsEmpty(r.file, r.handle) BY <1>1 DEF GoodWriter
    <3>2. g = [i \in 0..KeepFiles |-> IF i = r.handle THEN Append(r.file[i], line) ELSE r.file[i]] OBVIOUS
    <3>3. line.no = Len(r.lines) + 1 /\ line \in Line BY <2>1
    <3>4. r.file \in [0..KeepFiles -> Seq(Line)] /\ r.lines \in Seq(Line) /\ r.handle \in Nat BY <1>4
    <3> HIDE DEF g
    <3>5. /\ g \in [0..KeepFiles -> Seq(Line)] /\ BelowIsEmpty(g, r.handle)
          /\ HoldNewest(g, Append(r.lines, line))
      <4> DEFINE fs == r.file
                 ls == r.lines
                 hh == r.handle
      <4>1. /\ HoldNewest(fs, ls) /\ BelowIsEmpty(fs, hh) /\ line.no = Len(ls) + 1 /\ line \in Line
            /\ fs \in [0..KeepFiles -> Seq(Line)] /\ ls \in Seq(Line) /\ hh \in Nat
            /\ AppendsAt(fs, hh, line, g)
        BY <3>1, <3>2, <3>3, <3>4 DEF AppendsAt
      <4> HIDE DEF fs, ls, hh
      <4>2. g \in [0..KeepFiles -> Seq(Line)] /\ BelowIsEmpty(g, hh) /\ HoldNewest(g, Append(ls, line))
        BY ONLY <4>1, AppendKeeps
      <4> QED BY <4>2 DEF fs, ls, hh
    <3> QED BY <3>5
  <2>4. us \in Seq(Line) /\ DOMAIN us = 1..(Len(r.lines) + 1) /\ us[Len(r.lines) + 1] = line
        /\ (\A n \in 1..Len(r.lines) : us[n] = r.lines[n]) /\ DOMAIN r.lines = 1..Len(r.lines)
        /\ Len(r.lines) \in Nat
    <3>1. line \in Line /\ r.lines \in Seq(Line) BY <2>1, <1>4
    <3> HIDE DEF line
    <3> QED BY ONLY <3>1
  <2>4a. us = Append(r.lines, line) OBVIOUS
  <2> HIDE DEF g, us
  <2>5. p = [file |-> g, handle |-> r.handle, size |-> r.size + e.len, torn |-> FALSE,
             since |-> r.since + 1, unsynced |-> r.unsynced + 1, lines |-> us,
             reported |-> r.reported + e.count, unreported |-> r.unreported, lost |-> r.lost,
             behind |-> r.behind]
    BY <2>2, <1>3 DEF WriterState
  <2>6. r.size + e.len \in Nat /\ r.since + 1 \in Nat /\ r.unsynced + 1 \in Nat /\ r.reported + e.count \in Nat
    <3>1. r.size \in Nat /\ r.since \in Nat /\ r.unsynced \in Nat /\ r.reported \in Nat BY <1>4
    <3>2. e.len \in Nat /\ e.count \in Nat BY <1>3
    <3> QED BY ONLY <3>1, <3>2
  <2>7. p \in WriterState BY <2>3, <2>4, <2>5, <2>6, <1>4 DEF WriterState
  <2>8. /\ p.file = g /\ p.handle = r.handle /\ p.torn = FALSE /\ p.since = r.since + 1
        /\ p.unsynced = r.unsynced + 1 /\ p.lines = us /\ p.reported = r.reported + e.count
        /\ p.unreported = r.unreported /\ p.lost = r.lost /\ p.behind = r.behind
    BY <2>5
  <2>9. ASSUME r.lost = {}, r.unreported = 0 PROVE \A n \in DOMAIN us : us[n].whole
    <3>1. ~r.torn /\ \A n \in DOMAIN r.lines : r.lines[n].whole BY <2>9, <1>1 DEF GoodWriter, DamagePaid
    <3>2. line.whole BY <3>1, <2>1
    <3>3. \A n \in DOMAIN us : n = Len(r.lines) + 1 \/ n \in 1..Len(r.lines) BY <2>4
    <3> QED BY <3>1, <3>2, <3>3, <2>4
  <2>10. done = IF FsyncEvery = 0 \/ p.since < FsyncEvery THEN p
                ELSE IF o.sync THEN [p EXCEPT !.since = 0, !.unsynced = 0, !.behind = 0]
                ELSE [p EXCEPT !.since = 0, !.behind = p.unsynced]
    BY DEF SyncDue
  <2> HIDE DEF done
  <2>11. /\ done \in WriterState /\ done.file = g /\ done.handle = r.handle /\ done.torn = FALSE
         /\ done.lines = us /\ done.reported = r.reported + e.count /\ done.unreported = r.unreported
         /\ done.lost = r.lost
    <3>1. CASE done = p BY <3>1, <2>7, <2>8
    <3>2. CASE done = [p EXCEPT !.since = 0, !.unsynced = 0, !.behind = 0]
      BY <3>2, <2>7, <2>8 DEF WriterState
    <3>3. CASE done = [p EXCEPT !.since = 0, !.behind = p.unsynced]
      <4>1. p.unsynced \in Nat BY <2>7 DEF WriterState
      <4> QED BY <3>3, <4>1, <2>7, <2>8 DEF WriterState
    <3> QED BY <3>1, <3>2, <3>3, <2>10
  <2>12. done.unsynced <= done.behind + done.since /\ (FsyncEvery > 0 => done.since < FsyncEvery)
    <3>1. r.unsynced <= r.behind + r.since BY <1>1 DEF GoodWriter
    <3>2. CASE FsyncEvery = 0 \/ p.since < FsyncEvery
      <4>1. done.unsynced = r.unsynced + 1 /\ done.behind = r.behind /\ done.since = r.since + 1
            /\ (FsyncEvery = 0 \/ r.since + 1 < FsyncEvery)
        BY <3>2, <2>8, <2>10
      <4>2. r.unsynced \in Nat /\ r.behind \in Nat /\ r.since \in Nat BY <1>4
      <4>3. r.unsynced + 1 <= r.behind + (r.since + 1) BY ONLY <4>2, <3>1
      <4> QED BY <4>1, <4>3, <1>0
    <3>3. CASE ~(FsyncEvery = 0 \/ p.since < FsyncEvery) /\ o.sync
      <4>1. done = [p EXCEPT !.since = 0, !.unsynced = 0, !.behind = 0] BY <3>3, <2>10
      <4>2. done.since = 0 /\ done.unsynced = 0 /\ done.behind = 0 BY <4>1, <2>7 DEF WriterState
      <4> QED BY <4>2, <1>0
    <3>4. CASE ~(FsyncEvery = 0 \/ p.since < FsyncEvery) /\ ~o.sync
      <4>1. done = [p EXCEPT !.since = 0, !.behind = p.unsynced] BY <3>4, <2>10
      <4>2. done.since = 0 /\ done.unsynced = p.unsynced /\ done.behind = p.unsynced BY <4>1, <2>7 DEF WriterState
      <4>3. p.unsynced \in Nat BY <2>7 DEF WriterState
      <4> QED BY <4>2, <4>3, <1>0
    <3> QED BY <3>2, <3>3, <3>4
  <2>13. DamagePaid(done) BY <2>9, <2>11 DEF DamagePaid
  <2>14. GoodWriter(done) BY <2>3, <2>11, <2>12, <2>13 DEF GoodWriter
  <2>15. Handled(w, e, done) BY <2>1, <2>4a, <2>11, <1>1 DEF Handled
  <2> QED BY <2>14, <2>15, <1>2, <1>6 DEF done, p
<1> QED BY <1>5, <1>6

\* The first event of the channel comes after all that were handled.
LEMMA HeadIsNext ==
  ASSUME NEW ch \in Seq(Event), ch # <<>>, NEW written \in Seq(Line), NEW s \in Nat,
         SentInOrder(ch, written, s)
  PROVE  /\ Tail(ch) \in Seq(Event) /\ SentInOrder(Tail(ch), written, s)
         /\ Head(ch) \in Event /\ Head(ch).id \in 1..s /\ 1 \in DOMAIN ch /\ Head(ch) = ch[1]
         /\ \A n \in DOMAIN written : written[n].id < Head(ch).id
         /\ \A i \in DOMAIN Tail(ch) : Head(ch).id < Tail(ch)[i].id /\ i + 1 \in DOMAIN ch /\ Tail(ch)[i] = ch[i + 1]
<1> DEFINE c == Tail(ch)
           L == Len(ch)
<1>1. /\ L \in Nat \ {0} /\ DOMAIN ch = 1..L /\ c \in Seq(Event) /\ DOMAIN c = 1..(L - 1)
      /\ \A i \in 1..(L - 1) : c[i] = ch[i + 1]
      /\ Head(ch) = ch[1] /\ Head(ch) \in Event
  OBVIOUS
<1> HIDE DEF c, L
<1>2. 1 \in DOMAIN ch BY <1>1
<1>3. \A i \in DOMAIN c : i + 1 \in DOMAIN ch /\ 1 < i + 1 /\ c[i] = ch[i + 1] BY <1>1
<1>4. Head(ch).id \in 1..s /\ \A n \in DOMAIN written : written[n].id < Head(ch).id
  BY <1>1, <1>2 DEF SentInOrder
<1>5. \A i \in DOMAIN c : c[i].id \in 1..s /\ Head(ch).id < c[i].id BY <1>1, <1>2, <1>3 DEF SentInOrder
<1>6. \A i, j \in DOMAIN c : i < j => c[i].id < c[j].id
  <2>1. \A i, j \in DOMAIN c : i < j => i + 1 < j + 1 BY <1>1
  <2> QED BY <2>1, <1>3 DEF SentInOrder
<1>7. \A n \in DOMAIN written : written[n].id <= s /\ \A i \in DOMAIN c : written[n].id < c[i].id
  BY <1>3 DEF SentInOrder
<1>8. SentInOrder(c, written, s) BY <1>5, <1>6, <1>7 DEF SentInOrder
<1> QED BY <1>1, <1>2, <1>3, <1>4, <1>5, <1>8 DEF c

\* A line of an event that comes next, or of a report.
LEMMA LineKeepsOrder ==
  ASSUME NEW ch \in Seq(Event), NEW written \in Seq(Line), NEW s \in Nat, SentInOrder(ch, written, s),
         NEW line \in Line, line.id <= s,
         \A i \in DOMAIN ch : line.id < ch[i].id,
         line.id = 0 \/ \A n \in DOMAIN written : written[n].id < line.id
  PROVE  SentInOrder(ch, Append(written, line), s)
<1> DEFINE N == Len(written)
           u == Append(written, line)
<1>1. /\ N \in Nat /\ DOMAIN written = 1..N /\ DOMAIN u = 1..(N + 1) /\ u[N + 1] = line
      /\ \A n \in 1..N : u[n] = written[n]
  OBVIOUS
<1> HIDE DEF u, N
<1>2. ASSUME NEW n \in DOMAIN u PROVE u[n].id <= s /\ \A i \in DOMAIN ch : u[n].id < ch[i].id
  <2>1. CASE n = N + 1 BY <2>1, <1>1
  <2>2. CASE n # N + 1
    <3>1. n \in 1..N /\ u[n] = written[n] BY <2>2, <1>1
    <3> QED BY <3>1, <1>1 DEF SentInOrder
  <2> QED BY <2>1, <2>2
<1>3. EventsInOrder(u)
  <2> SUFFICES ASSUME NEW i \in DOMAIN u, NEW j \in DOMAIN u, i < j, u[i].id > 0, u[j].id > 0
               PROVE  u[i].id < u[j].id
    BY DEF EventsInOrder
  <2>1. i \in 1..N /\ u[i] = written[i] BY <1>1
  <2>2. CASE j = N + 1
    <3>1. u[j] = line BY <2>2, <1>1
    <3>2. line.id # 0 BY <3>1
    <3> QED BY <2>1, <3>1, <3>2, <1>1
  <2>3. CASE j # N + 1
    <3>1. j \in 1..N /\ u[j] = written[j] BY <2>3, <1>1
    <3> QED BY <2>1, <3>1, <1>1 DEF SentInOrder, EventsInOrder
  <2> QED BY <2>2, <2>3
<1> QED BY <1>2, <1>3 DEF SentInOrder, u

\* Numbers of the channel are none of those that were handled.
LEMMA QueuedIsNew ==
  ASSUME NEW ch \in Seq(Event), ch # <<>>, NEW written \in Seq(Line), NEW s \in Nat,
         NEW lst, NEW lt, NEW acc, Placed(ch, written, lst, lt, acc, s)
  PROVE  Head(ch).id \notin IdsOf(written) \cup lst
<1>1. \A n \in DOMAIN written : written[n].id < Head(ch).id BY HeadIsNext DEF Placed
<1>2. 1 \in DOMAIN ch /\ Head(ch) = ch[1] /\ Head(ch).id \in 1..s BY HeadIsNext DEF Placed
<1>3. \A x \in lst : x < Head(ch).id BY <1>2 DEF Placed
<1>4. Head(ch).id \in Nat /\ ~(Head(ch).id < Head(ch).id) BY <1>2
<1> QED BY <1>1, <1>3, <1>4 DEF IdsOf

\* The writer takes the next event, and writes it or loses it.
LEMMA TakeKeeps ==
  ASSUME NEW ch \in Seq(Event), ch # <<>>, NEW written \in Seq(Line), NEW s \in Nat,
         NEW lst, NEW acc, Placed(ch, written, lst, {}, acc, s),
         NEW us, NEW l2,
         \/ /\ \E line \in Line : line.id = Head(ch).id /\ us = Append(written, line)
            /\ l2 = lst
         \/ us = written /\ l2 = lst \cup {Head(ch).id}
  PROVE  Tail(ch) \in Seq(Event) /\ Placed(Tail(ch), us, l2, {}, acc, s)
<1> DEFINE c == Tail(ch)
           h == Head(ch).id
<1>1. /\ c \in Seq(Event) /\ SentInOrder(c, written, s) /\ h \in 1..s
      /\ \A n \in DOMAIN written : written[n].id < h
      /\ \A i \in DOMAIN c : h < c[i].id /\ i + 1 \in DOMAIN ch /\ c[i] = ch[i + 1]
  BY HeadIsNext DEF Placed
<1>2. IdsOf(ch) = {h} \cup IdsOf(c) BY IdsLess
<1>3. h \notin IdsOf(written) \cup lst BY QueuedIsNew
<1>4. h # 0 BY <1>1
<1> HIDE DEF c, h
<1>5. /\ lst \subseteq 1..s /\ acc \subseteq 1..s
      /\ \A x \in lst : \A i \in DOMAIN c : x < c[i].id
      /\ acc = IdsOf(ch) \cup (IdsOf(written) \ {0}) \cup lst
      /\ (IdsOf(written) \ {0}) \cap lst = {}
  <2>1. \A x \in lst : \A i \in DOMAIN ch : x < ch[i].id BY DEF Placed
  <2>2. \A x \in lst : \A i \in DOMAIN c : x < c[i].id BY <2>1, <1>1
  <2>3. /\ lst \subseteq 1..s /\ acc \subseteq 1..s
        /\ acc = IdsOf(ch) \cup (IdsOf(written) \ {0}) \cup lst
        /\ (IdsOf(written) \ {0}) \cap lst = {}
    BY DEF Placed
  <2> QED BY <2>2, <2>3
<1>6. ASSUME NEW line \in Line, line.id = h, us = Append(written, line), l2 = lst
      PROVE  Placed(c, us, l2, {}, acc, s)
  <2>1. line.id <= s /\ (\A i \in DOMAIN c : line.id < c[i].id) /\ \A n \in DOMAIN written : written[n].id < line.id
    BY <1>1, <1>6
  <2>2. SentInOrder(c, us, s) BY <2>1, <1>1, <1>6, LineKeepsOrder
  <2>3. IdsOf(us) = IdsOf(written) \cup {h} BY <1>6, IdsMore
  <2>4. acc = IdsOf(c) \cup (IdsOf(us) \ {0}) \cup l2 \cup {}
    BY <2>3, <1>2, <1>4, <1>5, <1>6
  <2>5. (IdsOf(us) \ {0}) \cap (l2 \cup {}) = {} BY <2>3, <1>3, <1>5, <1>6
  <2> QED BY <2>2, <2>4, <2>5, <1>5, <1>6 DEF Placed
<1>7. ASSUME us = written, l2 = lst \cup {h}
      PROVE  Placed(c, us, l2, {}, acc, s)
  <2>1. l2 \subseteq 1..s /\ \A x \in l2 : \A i \in DOMAIN c : x < c[i].id BY <1>1, <1>5, <1>7
  <2>2. acc = IdsOf(c) \cup (IdsOf(us) \ {0}) \cup l2 \cup {} BY <1>2, <1>4, <1>5, <1>7
  <2>3. (IdsOf(us) \ {0}) \cap (l2 \cup {}) = {} BY <1>3, <1>5, <1>7
  <2>4. SentInOrder(c, us, s) BY <1>1, <1>7
  <2> QED BY <2>1, <2>2, <2>3, <2>4, <1>5 DEF Placed
<1> QED BY <1>1, <1>6, <1>7 DEF c, h

\* A report takes no event's place.
LEMMA ReportIsAside ==
  ASSUME NEW ch \in Seq(Event), NEW written \in Seq(Line), NEW s \in Nat,
         NEW lst, NEW acc, Placed(ch, written, lst, {}, acc, s),
         NEW line \in Line, line.id = 0
  PROVE  Placed(ch, Append(written, line), lst, {}, acc, s)
<1> DEFINE us == Append(written, line)
<1>1. \A i \in DOMAIN ch : 0 < ch[i].id
  <2>1. \A i \in DOMAIN ch : ch[i] \in Event OBVIOUS
  <2> QED BY <2>1 DEF Event
<1>2. SentInOrder(ch, us, s) BY <1>1, LineKeepsOrder DEF Placed
<1>3. IdsOf(us) = IdsOf(written) \cup {0} BY IdsMore
<1> HIDE DEF us
<1>4. IdsOf(us) \ {0} = IdsOf(written) \ {0} BY <1>3
<1> QED BY <1>2, <1>4 DEF Placed, us

\* An event enters the channel behind all that were sent before.
LEMMA LogSendKeeps == ASSUME AuditInv, NEW len \in EventLens, Send(len) PROVE AuditInv'
<1> DEFINE e == [id |-> sent + 1, len |-> len, count |-> 0]
           L == Len(channel)
<1>0. channel \in Seq(Event) /\ dropped \in Nat /\ refused \in Nat /\ sent \in Nat /\ GoodWriter(Writer)
      /\ Placed(channel, lines, lost, late, accepted, sent) /\ LossesAreCounted
      /\ (writer # "ended" => late = {}) /\ (writer = "ended" => channel = <<>>)
  BY DEF AuditInv
<1>1. sent' = sent + 1 /\ UNCHANGED <<writerVars, writer, late, faults>> BY DEF Send
<1>1a. Writer' = Writer /\ lines' = lines /\ lost' = lost /\ late' = late /\ reported' = reported
       /\ unreported' = unreported /\ writer' = writer
  BY <1>1 DEF Writer, writerVars
<1>2. reported \in Nat /\ unreported \in Nat /\ lines \in Seq(Line)
  BY <1>0 DEF GoodWriter, Writer, WriterState
<1>3. GoodWriter(Writer)'
  <2>1. GoodWriter(Writer') BY <1>0, <1>1a
  <2> QED BY ONLY <2>1 DEF GoodWriter, HoldNewest, BelowIsEmpty, DamagePaid
<1>4. \A n \in DOMAIN lines : lines[n].id \in Nat
  <2>1. \A n \in DOMAIN lines : lines[n] \in Line BY <1>2
  <2> QED BY <2>1 DEF Line
<1>4a. 1..sent \subseteq 1..(sent + 1) /\ sent + 1 \in 1..(sent + 1) /\ sent + 1 \notin 1..sent
  BY <1>0
<1>5. CASE /\ Len(channel) < ChannelCap /\ writer # "ended"
           /\ channel' = Append(channel, e) /\ accepted' = accepted \cup {sent + 1}
           /\ UNCHANGED <<dropped, refused>>
  <2>1. e \in Event BY <1>0, AuditAssumption DEF Event
  <2>1a. e.id = sent + 1 OBVIOUS
  <2> HIDE DEF e
  <2>2. /\ L \in Nat /\ DOMAIN channel = 1..L /\ channel' \in Seq(Event) /\ DOMAIN channel' = 1..(L + 1)
        /\ channel'[L + 1] = e /\ \A i \in 1..L : channel'[i] = channel[i]
    BY <2>1, <1>0, <1>5
  <2>3. SentInOrder(channel, lines, sent) /\ lost \subseteq 1..sent /\ accepted \subseteq 1..sent
        /\ \A x \in lost : \A i \in DOMAIN channel : x < channel[i].id
    BY <1>0 DEF Placed
  <2> HIDE DEF L
  <2>4. ASSUME NEW i \in DOMAIN channel'
        PROVE  \/ i \in DOMAIN channel /\ channel'[i] = channel[i] /\ channel[i].id \in 1..sent
               \/ i = L + 1 /\ channel'[i].id = sent + 1
    <3>1. i \in 1..L \/ i = L + 1 BY <2>2, <2>4
    <3> QED BY <3>1, <2>1a, <2>2, <2>3 DEF SentInOrder
  <2>5. \A i \in DOMAIN channel' : channel'[i].id \in 1..(sent + 1) BY <2>4, <1>4a
  <2>6. ASSUME NEW i \in DOMAIN channel', NEW j \in DOMAIN channel', i < j
        PROVE  channel'[i].id < channel'[j].id
    <3>1. i # L + 1 BY <2>2, <2>6
    <3>2. i \in DOMAIN channel /\ channel'[i] = channel[i] /\ channel[i].id \in 1..sent BY <3>1, <2>4
    <3>3. CASE j = L + 1 /\ channel'[j].id = sent + 1 BY <3>2, <3>3, <1>0
    <3>4. CASE j \in DOMAIN channel /\ channel'[j] = channel[j] BY <3>2, <3>4, <2>3, <2>6 DEF SentInOrder
    <3> QED BY <3>3, <3>4, <2>4
  <2>7. ASSUME NEW n \in DOMAIN lines
        PROVE  lines[n].id <= sent + 1 /\ \A i \in DOMAIN channel' : lines[n].id < channel'[i].id
    <3>1. lines[n].id <= sent /\ \A i \in DOMAIN channel : lines[n].id < channel[i].id
      BY <2>3 DEF SentInOrder
    <3> QED BY <3>1, <2>4, <1>0, <1>4
  <2>8. SentInOrder(channel', lines, sent + 1) BY <2>3, <2>5, <2>6, <2>7 DEF SentInOrder
  <2>9. ASSUME NEW x \in lost, NEW i \in DOMAIN channel' PROVE x < channel'[i].id
    <3>1. x \in 1..sent BY <2>3
    <3> QED BY <3>1, <2>3, <2>4, <1>0
  <2>10. IdsOf(channel') = IdsOf(channel) \cup {sent + 1}
    BY <2>1, <2>1a, <1>0, <1>5, IdsMore
  <2>11. late = {} BY <1>0, <1>5
  <2>12. /\ accepted' = IdsOf(channel') \cup (IdsOf(lines) \ {0}) \cup lost \cup late
         /\ (IdsOf(lines) \ {0}) \cap (lost \cup late) = {} /\ lost \cap late = {}
         /\ lost \subseteq 1..(sent + 1) /\ late \subseteq 1..(sent + 1) /\ accepted' \subseteq 1..(sent + 1)
    <3>1. /\ accepted = IdsOf(channel) \cup (IdsOf(lines) \ {0}) \cup lost \cup late
          /\ (IdsOf(lines) \ {0}) \cap (lost \cup late) = {} /\ lost \cap late = {}
      BY <1>0 DEF Placed
    <3> QED BY <3>1, <2>3, <2>10, <2>11, <1>4a, <1>5
  <2>13. Placed(channel', lines, lost, late, accepted', sent + 1) BY <2>8, <2>9, <2>12 DEF Placed
  <2>14. Placed(channel, lines, lost, late, accepted, sent)' BY <2>13, <1>1, <1>1a
  <2>15. LossesAreCounted' BY <1>0, <1>1a, <1>5 DEF LossesAreCounted
  <2> QED BY <2>2, <2>14, <2>15, <1>0, <1>1, <1>1a, <1>3, <1>5 DEF AuditInv
<1>6. CASE dropped' = dropped + 1 /\ refused' = refused + 1 /\ UNCHANGED <<channel, accepted>>
  <2>1. LossesAreCounted' BY <1>0, <1>1a, <1>2, <1>6 DEF LossesAreCounted
  <2>2. SentInOrder(channel, lines, sent) /\ lost \subseteq 1..sent /\ late \subseteq 1..sent
        /\ accepted \subseteq 1..sent
    BY <1>0 DEF Placed
  <2>3. \A n \in DOMAIN lines : lines[n].id <= sent + 1 BY <2>2, <1>0, <1>4 DEF SentInOrder
  <2>4. \A i \in DOMAIN channel : channel[i].id \in 1..(sent + 1) BY <2>2, <1>4a DEF SentInOrder
  <2>5. SentInOrder(channel, lines, sent + 1) BY <2>2, <2>3, <2>4 DEF SentInOrder
  <2>6. lost \subseteq 1..(sent + 1) /\ late \subseteq 1..(sent + 1) /\ accepted \subseteq 1..(sent + 1)
    BY <2>2, <1>4a
  <2>7. Placed(channel, lines, lost, late, accepted, sent + 1) BY <2>5, <2>6, <1>0 DEF Placed
  <2>8. Placed(channel, lines, lost, late, accepted, sent)' BY <2>7, <1>1, <1>1a, <1>6
  <2>9. dropped' \in Nat /\ refused' \in Nat /\ sent' \in Nat BY <1>0, <1>1, <1>6
  <2> QED BY <2>1, <2>8, <2>9, <1>0, <1>1a, <1>3, <1>6 DEF AuditInv
<1> QED BY <1>5, <1>6 DEF Send

\* The writer handles the next event, and the report of what was refused if it
\* makes one.
LEMMA WriterKeeps ==
  ASSUME AuditInv, writer # "ended", writer' # "ended", channel # <<>>, channel' = Tail(channel),
         UNCHANGED <<refused, accepted, late, sent>>,
         NEW o \in Outcomes, NEW r \in Outcomes,
         LET one == HandleOne(Writer, Head(channel), o) IN
         \/ dropped' = dropped /\ SetWriter(one)
         \/ dropped' = 0 /\ SetWriter(IF dropped = 0 THEN one ELSE HandleOne(one, Report(dropped), r))
  PROVE  AuditInv'
<1> DEFINE h == Head(channel)
           one == HandleOne(Writer, h, o)
           rep == Report(dropped)
           two == HandleOne(one, rep, r)
<1>0. channel \in Seq(Event) /\ dropped \in Nat /\ refused \in Nat /\ sent \in Nat /\ GoodWriter(Writer)
      /\ Placed(channel, lines, lost, late, accepted, sent) /\ LossesAreCounted /\ late = {}
  BY DEF AuditInv
<1>1. /\ reported \in Nat /\ unreported \in Nat /\ lines \in Seq(Line) /\ Writer.lines = lines
      /\ Writer.reported = reported /\ Writer.unreported = unreported /\ Writer.lost = lost
  BY <1>0 DEF GoodWriter, Writer, WriterState
<1>2. h \in Event BY <1>0
<1>3. h \in [id : Nat, len : Nat, count : Nat] /\ h.count = 0 /\ h.id # 0 BY <1>2 DEF Event
<1>4. GoodWriter(one) /\ Handled(Writer, h, one)
  <2> HIDE DEF h
  <2> QED BY <1>0, <1>3, HandleKeeps
<1>5. /\ one.reported = reported /\ one.unreported = unreported
      /\ \/ /\ \E line \in Line : line.id = h.id /\ one.lines = Append(lines, line)
            /\ one.lost = lost
         \/ one.lines = lines /\ one.lost = lost \cup {h.id}
  <2> HIDE DEF h, one
  <2> QED BY <1>1, <1>3, <1>4 DEF Handled
<1>6. Tail(channel) \in Seq(Event) /\ Placed(Tail(channel), one.lines, one.lost, {}, accepted, sent)
  <2> HIDE DEF one
  <2>1. Placed(channel, lines, lost, {}, accepted, sent) BY <1>0
  <2> QED BY <2>1, <1>0, <1>1, <1>5, TakeKeeps
<1>7. one.lines \in Seq(Line) BY <1>4 DEF GoodWriter, WriterState
<1> HIDE DEF one, h
<1>8. ASSUME dropped # 0
      PROVE  /\ GoodWriter(two) /\ two.reported + two.unreported = reported + unreported + dropped
             /\ Placed(Tail(channel), two.lines, two.lost, {}, accepted, sent)
  <2>1. rep \in [id : Nat, len : Nat, count : Nat] /\ rep.id = 0 /\ rep.count = dropped /\ rep.count > 0
    <3>1. dropped \in Nat /\ dropped > 0 /\ ReportLen \in Nat BY <1>0, <1>8, AuditAssumption
    <3> QED BY ONLY <3>1 DEF Report
  <2> HIDE DEF rep
  <2>2. GoodWriter(two) /\ Handled(one, rep, two) BY <2>1, <1>4, HandleKeeps
  <2> HIDE DEF two
  <2>3. CASE /\ \E line \in Line : line.id = rep.id /\ two.lines = Append(one.lines, line)
             /\ two.reported = one.reported + rep.count /\ two.unreported = one.unreported
             /\ two.lost = one.lost
    <3>1. PICK line \in Line : line.id = 0 /\ two.lines = Append(one.lines, line) BY <2>1, <2>3
    <3>2. Placed(Tail(channel), two.lines, two.lost, {}, accepted, sent)
      BY <3>1, <2>3, <1>0, <1>6, <1>7, ReportIsAside
    <3>3. two.reported + two.unreported = reported + unreported + dropped
      BY <2>1, <2>3, <1>0, <1>1, <1>5
    <3> QED BY <3>2, <3>3, <2>2
  <2>4. CASE /\ two.lines = one.lines /\ two.reported = one.reported
             /\ two.unreported = one.unreported + rep.count /\ two.lost = one.lost
    <3>1. two.reported + two.unreported = reported + unreported + dropped
      BY <2>1, <2>4, <1>0, <1>1, <1>5
    <3> QED BY <3>1, <2>2, <2>4, <1>6
  <2> QED BY <2>1, <2>2, <2>3, <2>4 DEF Handled
<1> HIDE DEF two, rep
<1>9. ASSUME NEW w, SetWriter(w), GoodWriter(w), Placed(Tail(channel), w.lines, w.lost, {}, accepted, sent)
      PROVE  /\ GoodWriter(Writer)' /\ reported' = w.reported /\ unreported' = w.unreported
             /\ Placed(channel, lines, lost, late, accepted, sent)'
  <2>1. w = [file |-> w.file, handle |-> w.handle, size |-> w.size, torn |-> w.torn, since |-> w.since,
             unsynced |-> w.unsynced, lines |-> w.lines, reported |-> w.reported,
             unreported |-> w.unreported, lost |-> w.lost, behind |-> w.behind]
    BY <1>9 DEF GoodWriter, WriterState
  <2>2. Writer' = [file |-> file', handle |-> handle', size |-> size', torn |-> torn',
                   since |-> sinceSync', unsynced |-> unsynced', lines |-> lines', reported |-> reported',
                   unreported |-> unreported', lost |-> lost', behind |-> behind']
    BY DEF Writer
  <2>3. Writer' = w BY <2>1, <2>2, <1>9 DEF SetWriter
  <2>4. GoodWriter(Writer)'
    <3>1. GoodWriter(Writer') BY <2>3, <1>9
    <3> QED BY ONLY <3>1 DEF GoodWriter, HoldNewest, BelowIsEmpty, DamagePaid
  <2>5. lines' = w.lines /\ lost' = w.lost /\ late' = {} /\ accepted' = accepted /\ sent' = sent
        /\ channel' = Tail(channel) /\ reported' = w.reported /\ unreported' = w.unreported
    BY <1>0, <1>9 DEF SetWriter
  <2>6. Placed(channel', lines', lost', late', accepted', sent') BY <2>5, <1>9
  <2> QED BY <2>4, <2>5, <2>6
<1>10. refused = dropped + reported + unreported BY <1>0 DEF LossesAreCounted
<1>11. CASE dropped' = dropped /\ SetWriter(one)
  <2>1. GoodWriter(Writer)' /\ reported' = reported /\ unreported' = unreported
        /\ Placed(channel, lines, lost, late, accepted, sent)'
    BY <1>4, <1>5, <1>6, <1>9, <1>11
  <2>2. LossesAreCounted' BY <2>1, <1>10, <1>11 DEF LossesAreCounted
  <2> QED BY <2>1, <2>2, <1>0, <1>6, <1>11 DEF AuditInv
<1>12. CASE dropped' = 0 /\ dropped = 0 /\ SetWriter(one)
  <2>1. GoodWriter(Writer)' /\ reported' = reported /\ unreported' = unreported
        /\ Placed(channel, lines, lost, late, accepted, sent)'
    BY <1>4, <1>5, <1>6, <1>9, <1>12
  <2>2. LossesAreCounted' BY <2>1, <1>10, <1>12 DEF LossesAreCounted
  <2> QED BY <2>1, <2>2, <1>0, <1>6, <1>12 DEF AuditInv
<1>13. CASE dropped' = 0 /\ dropped # 0 /\ SetWriter(two)
  <2>1. GoodWriter(Writer)' /\ reported' = two.reported /\ unreported' = two.unreported
        /\ Placed(channel, lines, lost, late, accepted, sent)'
    BY <1>8, <1>9, <1>13
  <2>2. two.reported \in Nat /\ two.unreported \in Nat BY <1>8, <1>13 DEF GoodWriter, WriterState
  <2>3. refused' = refused /\ two.reported + two.unreported = reported + unreported + dropped BY <1>8, <1>13
  <2>4. refused = 0 + two.reported + two.unreported BY ONLY <2>2, <2>3, <1>0, <1>1, <1>10
  <2>5. LossesAreCounted' BY <2>1, <2>3, <2>4, <1>13 DEF LossesAreCounted
  <2> QED BY <2>1, <2>5, <1>0, <1>6, <1>13 DEF AuditInv
<1> QED BY <1>11, <1>12, <1>13 DEF one, two, rep, h

LEMMA AuditSteps == ASSUME AuditInv, NextAudit PROVE AuditInv'
<1>0. Smooth \in Outcomes
  <2>1. KeepFiles + 1 \in 0..(KeepFiles + 1) BY AuditAssumption
  <2> QED BY <2>1 DEF Smooth, Outcomes
<1>1. CASE \E len \in EventLens : Send(len) BY <1>1, LogSendKeeps
<1>2. ASSUME NEW o \in Outcomes, NEW r \in Outcomes, WriteNext(o, r) PROVE AuditInv'
  BY <1>2, WriterKeeps DEF WriteNext
<1>3. ASSUME NEW o \in Outcomes, DrainNext(o) PROVE AuditInv'
  BY <1>3, WriterKeeps DEF DrainNext
<1>4. CASE StopWriter
  BY <1>4 DEF StopWriter, AuditInv, Writer, writerVars, GoodWriter, HoldNewest, BelowIsEmpty, DamagePaid,
     Placed, SentInOrder, EventsInOrder, IdsOf, LossesAreCounted
<1>5. ASSUME NEW ok \in BOOLEAN, SyncLast(ok) PROVE AuditInv'
  <2>1. /\ UNCHANGED <<channel, dropped, file, handle, size, torn, sinceSync, lines, reported, unreported,
                       refused, accepted, lost, late, sent>>
        /\ writer = "draining" /\ writer' = "closing"
        /\ (unsynced' = 0 /\ behind' = 0) \/ (unsynced' = unsynced /\ behind' = behind)
    BY <1>5 DEF SyncLast
  <2>2. Writer \in WriterState /\ GoodWriter(Writer) BY DEF AuditInv, GoodWriter
  <2>3. /\ file \in [0..KeepFiles -> Seq(Line)] /\ handle \in Nat /\ size \in Nat /\ torn \in BOOLEAN
        /\ sinceSync \in Nat /\ unsynced \in Nat /\ lines \in Seq(Line) /\ reported \in Nat
        /\ unreported \in Nat /\ lost \in SUBSET Nat /\ behind \in Nat
    BY <2>2 DEF Writer, WriterState
  <2>4. Writer' = [file |-> file, handle |-> handle, size |-> size, torn |-> torn, since |-> sinceSync,
                   unsynced |-> unsynced', lines |-> lines, reported |-> reported,
                   unreported |-> unreported, lost |-> lost, behind |-> behind']
    BY <2>1 DEF Writer
  <2>5. unsynced' \in Nat /\ behind' \in Nat BY <2>1, <2>3
  <2>6. Writer' \in WriterState BY <2>3, <2>4, <2>5 DEF WriterState
  <2>7. unsynced <= behind + sinceSync /\ (FsyncEvery > 0 => sinceSync < FsyncEvery)
        /\ BelowIsEmpty(file, handle) /\ HoldNewest(file, lines)
        /\ ((lost = {} /\ unreported = 0) => ~torn /\ \A n \in DOMAIN lines : lines[n].whole)
    BY <2>2 DEF GoodWriter, Writer, DamagePaid
  <2>8. unsynced' <= behind' + sinceSync BY <2>1, <2>3, <2>7
  <2>9. /\ Writer'.unsynced = unsynced' /\ Writer'.behind = behind' /\ Writer'.since = sinceSync
        /\ Writer'.file = file /\ Writer'.handle = handle /\ Writer'.lines = lines /\ Writer'.torn = torn
        /\ Writer'.lost = lost /\ Writer'.unreported = unreported
    BY <2>4
  <2>10. GoodWriter(Writer')
    <3>1. DamagePaid(Writer') BY <2>7, <2>9 DEF DamagePaid
    <3>2. BelowIsEmpty(Writer'.file, Writer'.handle) /\ HoldNewest(Writer'.file, Writer'.lines) BY <2>7, <2>9
    <3> QED BY <3>1, <3>2, <2>6, <2>7, <2>8, <2>9 DEF GoodWriter
  <2>11. GoodWriter(Writer)' BY ONLY <2>10 DEF GoodWriter, HoldNewest, BelowIsEmpty, DamagePaid
  <2>12. Placed(channel, lines, lost, late, accepted, sent)'
    <3>1. Placed(channel', lines', lost', late', accepted', sent') BY <2>1 DEF AuditInv
    <3> QED BY <3>1
  <2> QED BY <2>1, <2>11, <2>12 DEF AuditInv, LossesAreCounted
<1>6. CASE EndWriter
  <2>1. /\ UNCHANGED <<writerVars, dropped, refused, accepted, sent, faults>>
        /\ writer = "closing" /\ writer' = "ended" /\ late' = IdsOf(channel) /\ channel' = <<>>
    BY <1>6 DEF EndWriter
  <2>2. late = {} /\ Placed(channel, lines, lost, {}, accepted, sent) /\ channel \in Seq(Event) BY <2>1 DEF AuditInv
  <2>3. lines' = lines /\ lost' = lost /\ accepted' = accepted /\ sent' = sent /\ Writer' = Writer
        /\ reported' = reported /\ unreported' = unreported
    BY <2>1 DEF writerVars, Writer
  <2>4. GoodWriter(Writer)'
    <3>1. GoodWriter(Writer') BY <2>3 DEF AuditInv
    <3> QED BY ONLY <3>1 DEF GoodWriter, HoldNewest, BelowIsEmpty, DamagePaid
  <2>5. DOMAIN <<>> = {} /\ <<>> \in Seq(Event) /\ IdsOf(<<>>) = {} BY DEF IdsOf
  <2>6. SentInOrder(<<>>, lines, sent) BY <2>2, <2>5 DEF Placed, SentInOrder
  <2>7. (IdsOf(lines) \cup lost) \cap IdsOf(channel) = {}
    <3>1. ASSUME NEW i \in DOMAIN channel, channel[i].id \in IdsOf(lines) \cup lost PROVE FALSE
      <4>1. channel[i].id \in 1..sent BY <2>2 DEF Placed, SentInOrder
      <4>2. channel[i].id \in Nat /\ ~(channel[i].id < channel[i].id)
        <5>1. sent \in Nat BY DEF AuditInv
        <5> QED BY <4>1, <5>1
      <4>3. CASE channel[i].id \in lost BY <4>2, <4>3, <2>2 DEF Placed
      <4>4. CASE channel[i].id \in IdsOf(lines) BY <4>2, <4>4, <2>2 DEF Placed, SentInOrder, IdsOf
      <4> QED BY <3>1, <4>3, <4>4
    <3> QED BY <3>1 DEF IdsOf
  <2>8. IdsOf(channel) \subseteq 1..sent BY <2>2 DEF Placed, SentInOrder, IdsOf
  <2>9. Placed(<<>>, lines, lost, IdsOf(channel), accepted, sent)
    <3>1. /\ lost \subseteq 1..sent /\ accepted \subseteq 1..sent
          /\ accepted = IdsOf(channel) \cup (IdsOf(lines) \ {0}) \cup lost
          /\ (IdsOf(lines) \ {0}) \cap lost = {}
      BY <2>2 DEF Placed
    <3>2. accepted = IdsOf(<<>>) \cup (IdsOf(lines) \ {0}) \cup lost \cup IdsOf(channel) BY <3>1, <2>5
    <3>3. (IdsOf(lines) \ {0}) \cap (lost \cup IdsOf(channel)) = {} /\ lost \cap IdsOf(channel) = {}
      BY <3>1, <2>7
    <3>4. \A x \in lost : \A i \in DOMAIN <<>> : x < <<>>[i].id BY <2>5
    <3> QED BY <3>1, <3>2, <3>3, <3>4, <2>6, <2>8 DEF Placed
  <2>10. Placed(channel, lines, lost, late, accepted, sent)'
    <3>1. Placed(channel', lines', lost', late', accepted', sent') BY <2>1, <2>3, <2>9
    <3> QED BY <3>1
  <2> QED BY <2>1, <2>3, <2>4, <2>5, <2>10 DEF AuditInv, LossesAreCounted
<1>7. ASSUME NEW o \in Outcomes, NEW r \in (IF dropped = 0 THEN {Smooth} ELSE Outcomes), WriteNext(o, r)
      PROVE  AuditInv'
  <2>1. r \in Outcomes BY <1>0
  <2> QED BY <2>1, <1>2, <1>7
<1> QED BY <1>1, <1>3, <1>4, <1>5, <1>6, <1>7 DEF NextAudit

\* The gate has dropped nothing before its first window.
GateInv ==
  /\ gate \in [start : Nat, open : BOOLEAN, count : Nat, drops : Nat]
  /\ {slowTime, slowDrops, warned} \subseteq Nat
  /\ ~gate.open => gate.drops = 0
  /\ SlowDropsAreWarned

LEMMA GateParts ==
  ASSUME NEW p \in [start : Nat, open : BOOLEAN, count : Nat, drops : Nat]
  PROVE  /\ [p EXCEPT !.count = @ + 1] \in [start : Nat, open : BOOLEAN, count : Nat, drops : Nat]
         /\ [p EXCEPT !.count = @ + 1].drops = p.drops /\ [p EXCEPT !.count = @ + 1].open = p.open
         /\ [p EXCEPT !.drops = @ + 1] \in [start : Nat, open : BOOLEAN, count : Nat, drops : Nat]
         /\ [p EXCEPT !.drops = @ + 1].drops = p.drops + 1 /\ [p EXCEPT !.drops = @ + 1].open = p.open
         /\ p.drops \in Nat
  OBVIOUS

LEMMA GateSteps == ASSUME GateInv, NextGate PROVE GateInv'
<1>0. /\ gate \in [start : Nat, open : BOOLEAN, count : Nat, drops : Nat]
      /\ slowTime \in Nat /\ slowDrops \in Nat /\ warned \in Nat
      /\ ~gate.open => gate.drops = 0
      /\ slowDrops = warned + gate.drops
      /\ SlowCap \in Nat /\ SlowWindow \in Nat
  BY AuditAssumption DEF GateInv, SlowDropsAreWarned
<1>1. CASE SlowTick BY <1>0, <1>1 DEF SlowTick, GateInv, SlowDropsAreWarned
<1>2. CASE SlowQuery
  <2> DEFINE p == IF Closed(gate) THEN [gate EXCEPT !.drops = 0] ELSE gate
  <2>1. /\ gate' = IF SlowCap = 0 THEN p ELSE Allow(p)
        /\ warned' = IF Closed(gate) THEN warned + gate.drops ELSE warned
        /\ slowDrops' = IF gate'.drops > p.drops THEN slowDrops + 1 ELSE slowDrops
        /\ slowTime' = slowTime
    BY <1>2 DEF SlowQuery
  <2>2. /\ p \in [start : Nat, open : BOOLEAN, count : Nat, drops : Nat] /\ (~p.open => p.drops = 0)
        /\ slowDrops = warned' + p.drops /\ warned' \in Nat
        /\ p.open = gate.open /\ p.start = gate.start
    BY <1>0, <2>1
  <2>3. ~(p.open /\ slowTime - p.start < SlowWindow) => p.drops = 0
    <3>1. CASE ~p.open BY <3>1, <2>2
    <3>2. CASE p.open /\ ~(slowTime - p.start < SlowWindow)
      <4>1. slowTime - p.start >= SlowWindow BY <3>2, <1>0, <2>2
      <4>2. CASE Closed(gate)
        <5>1. p = [gate EXCEPT !.drops = 0] BY <4>2
        <5> HIDE DEF p
        <5> QED BY <5>1, <1>0
      <4>3. CASE ~Closed(gate) BY <4>1, <4>3, <3>2, <1>0, <2>2 DEF Closed
      <4> QED BY <4>2, <4>3
    <3> QED BY <3>1, <3>2
  <2> HIDE DEF p
  <2>4. CASE gate' = p BY <2>1, <2>2, <2>4, <1>0 DEF GateInv, SlowDropsAreWarned
  <2>5. CASE p.open /\ gate' = [p EXCEPT !.count = @ + 1]
    <3>1. gate' \in [start : Nat, open : BOOLEAN, count : Nat, drops : Nat]
          /\ gate'.drops = p.drops /\ gate'.open = p.open
      BY <2>2, <2>5, GateParts
    <3> QED BY <3>1, <2>1, <2>2, <2>5, <1>0 DEF GateInv, SlowDropsAreWarned
  <2>6. CASE p.open /\ gate' = [p EXCEPT !.drops = @ + 1]
    <3>1. gate' \in [start : Nat, open : BOOLEAN, count : Nat, drops : Nat]
          /\ gate'.drops = p.drops + 1 /\ gate'.open = p.open /\ p.drops \in Nat
      BY <2>2, <2>6, GateParts
    <3> QED BY <3>1, <2>1, <2>2, <2>6, <1>0 DEF GateInv, SlowDropsAreWarned
  <2>7. CASE gate' = [start |-> slowTime, open |-> TRUE, count |-> 1, drops |-> 0] /\ p.drops = 0
    <3>1. gate' \in [start : Nat, open : BOOLEAN, count : Nat, drops : Nat]
          /\ gate'.drops = 0 /\ gate'.open
      BY <2>7, <1>0
    <3> QED BY <3>1, <2>1, <2>2, <2>7, <1>0 DEF GateInv, SlowDropsAreWarned
  <2> QED BY <2>1, <2>3, <2>4, <2>5, <2>6, <2>7 DEF Allow
<1> QED BY <1>1, <1>2 DEF NextGate

\* For any lengths, limits, failing file operations and interleaving of senders,
\* writer and shutdown: every refused event is counted, or in one report that
\* was written or failed; every accepted one is queued, in a line, lost by its
\* own failed write, or left in the closed channel (handle_one, the end of
\* file_writer_task), and no other is lost or damaged with it; the files keep
\* the newest lines in order through rotations that stop anywhere (rotate),
\* accepted events are written in order, syncs come in time but for those that
\* failed, and what the slow-query gate drops is warned about once.
THEOREM EventsAreKept == SpecAudit => []EventsAreAccounted
<1> DEFINE Inv == AuditInv /\ GateInv
<1>1. InitAudit /\ InitGate => Inv
  <2> SUFFICES ASSUME InitAudit, InitGate PROVE Inv OBVIOUS
  <2>1. DOMAIN <<>> = {} /\ <<>> \in Seq(Line) /\ <<>> \in Seq(Event) /\ IdsOf(<<>>) = {}
    BY DEF IdsOf
  <2>2. GoodWriter(Writer)
    <3>1. Writer \in WriterState BY <2>1 DEF InitAudit, Writer, WriterState
    <3>2. HoldNewest(file, lines) /\ BelowIsEmpty(file, handle)
      BY <2>1 DEF InitAudit, HoldNewest, BelowIsEmpty
    <3>3. DamagePaid(Writer) BY <2>1 DEF InitAudit, Writer, DamagePaid
    <3> QED BY <3>1, <3>2, <3>3 DEF GoodWriter, Writer, InitAudit
  <2>3. Placed(channel, lines, lost, late, accepted, sent)
    <3>1. SentInOrder(channel, lines, sent) BY <2>1 DEF InitAudit, SentInOrder, EventsInOrder
    <3> QED BY <3>1, <2>1 DEF InitAudit, Placed
  <2>4. AuditInv BY <2>1, <2>2, <2>3 DEF InitAudit, AuditInv, LossesAreCounted
  <2>5. GateInv BY DEF InitGate, GateInv, SlowDropsAreWarned
  <2> QED BY <2>4, <2>5
<1>2. Inv /\ [NextLog]_<<auditVars, gateVars>> => Inv'
  <2>1. ASSUME AuditInv, UNCHANGED auditVars PROVE AuditInv'
    BY <2>1 DEF auditVars, AuditInv, Writer, GoodWriter, HoldNewest, BelowIsEmpty, DamagePaid, Placed,
       SentInOrder, EventsInOrder, IdsOf, LossesAreCounted
  <2>2. ASSUME GateInv, UNCHANGED gateVars PROVE GateInv'
    BY <2>2 DEF gateVars, GateInv, SlowDropsAreWarned
  <2> QED BY <2>1, <2>2, AuditSteps, GateSteps DEF NextLog
<1>3. Inv => EventsAreAccounted
  <2> SUFFICES ASSUME Inv PROVE EventsAreAccounted OBVIOUS
  <2>1. LossesAreCounted /\ SlowDropsAreWarned BY DEF AuditInv, GateInv
  <2>2. RotationKeepsNewest
    BY DEF AuditInv, GoodWriter, Writer, RotationKeepsNewest, Placed, SentInOrder
  <2>3. SyncIsTimely
    <3>1. unsynced <= behind + sinceSync /\ unsynced \in Nat /\ behind \in Nat /\ sinceSync \in Nat
          /\ (FsyncEvery > 0 => sinceSync < FsyncEvery) /\ FsyncEvery \in Nat
      BY AuditAssumption DEF AuditInv, GoodWriter, Writer, WriterState
    <3> QED BY <3>1 DEF SyncIsTimely
  <2>4. DamageIsLoss BY DEF AuditInv, GoodWriter, Writer, DamagePaid, DamageIsLoss
  <2>5. AcceptedAreKept
    <3>1. Placed(channel, lines, lost, late, accepted, sent) /\ sent \in Nat
          /\ (writer # "ended" => late = {}) /\ (writer = "ended" => channel = <<>>)
      BY DEF AuditInv
    <3>2. IdsOf(channel) \cap (IdsOf(lines) \cup lost) = {}
      <4>1. ASSUME NEW i \in DOMAIN channel, channel[i].id \in IdsOf(lines) \cup lost PROVE FALSE
        <5>1. channel[i].id \in 1..sent BY <3>1 DEF Placed, SentInOrder
        <5>2. channel[i].id \in Nat /\ ~(channel[i].id < channel[i].id) BY <5>1, <3>1
        <5>3. CASE channel[i].id \in lost BY <5>2, <5>3, <3>1 DEF Placed
        <5>4. CASE channel[i].id \in IdsOf(lines) BY <5>2, <5>4, <3>1 DEF Placed, SentInOrder, IdsOf
        <5> QED BY <4>1, <5>3, <5>4
      <4> QED BY <4>1 DEF IdsOf
    <3>3. IdsOf(channel) \cap late = {}
      <4>1. IdsOf(<<>>) = {} BY DEF IdsOf
      <4> QED BY <4>1, <3>1
    <3> QED BY <3>1, <3>2, <3>3 DEF Placed, AcceptedAreKept
  <2> QED BY <2>1, <2>2, <2>3, <2>4, <2>5 DEF EventsAreAccounted
<1> QED BY <1>1, <1>2, <1>3, PTL DEF SpecAudit

============================================================================
