---------------------------- MODULE UserStore ----------------------------
(***************************************************************************)
(* The identity store of the server (auth/system_graph.rs).  Users are     *)
(* :User nodes of the system graph, and a map by normalised name mirrors   *)
(* them so that authentication never touches the graph.  Every change has  *)
(* three steps under three separate locks: a check of the map under its    *)
(* read lock, the write of the graph under the graph's write lock, and the *)
(* write of the map under its write lock.  Sessions are the administrators *)
(* that run these statements at the same time; names stand for normalised, *)
(* valid user names, hashes for password hashes.                           *)
(***************************************************************************)
EXTENDS Naturals, Functions

CONSTANTS Names, Sessions, Hashes, RootName, MaxStatements

VARIABLES active,     \* the sessions that take part in this behaviour
          nodes,      \* the :User nodes, by node id
          nextNode,   \* the next node id of the system graph
          mirror,     \* users: the map from names to user records
          call,       \* what each session is doing
          started,    \* statements started so far, a bound of the model
          gone,       \* history: names whose node a drop has removed, until
                      \* the next add_node of that name
          twice       \* history: names that two nodes have had at once

userVars == <<active, nodes, nextNode, mirror, call, started, gone, twice>>

NoCall == [at |-> "idle"]
NodeOf(u) == [name |-> u.name, hash |-> u.hash, enabled |-> u.enabled, admin |-> u.admin]

\* User: what the map holds of a node.
UserOf(node, id) ==
  [name |-> node.name, hash |-> node.hash, enabled |-> node.enabled, admin |-> node.admin, node |-> id]

Insert(f, key, value) == [k \in DOMAIN f \cup {key} |-> IF k = key THEN value ELSE f[k]]

\* A fresh directory after bootstrap_admin_if_empty: one enabled administrator.
InitUsers(group) ==
  LET root == [name |-> RootName, hash |-> CHOOSE h \in Hashes : TRUE,
               enabled |-> TRUE, admin |-> TRUE]
  IN /\ active = group
     /\ nodes = [n \in {1} |-> root]
     /\ nextNode = 2
     /\ mirror = [u \in {RootName} |-> UserOf(root, 1)]
     /\ call = [s \in Sessions |-> NoCall]
     /\ started = 0 /\ gone = {} /\ twice = {}

\* other_admins_enabled: somebody else could still administer.
OtherAdmin(name) ==
  \E u \in DOMAIN mirror : u # name /\ mirror[u].admin /\ mirror[u].enabled

LastAdmin(name) ==
  mirror[name].admin /\ mirror[name].enabled /\ ~OtherAdmin(name)

\* The first step of create_user: the name is free; the password is hashed
\* after the lock is released.
CheckCreate(s, name, hash) ==
  /\ name \notin DOMAIN mirror
  /\ call' = [call EXCEPT ![s] = [at |-> "graph", op |-> "create", name |-> name,
                                  user |-> [name |-> name, hash |-> hash,
                                            enabled |-> TRUE, admin |-> FALSE]]]
  /\ UNCHANGED <<active, nodes, nextNode, mirror>>

\* Mutant: drop_user without the refusal of the last administrator.
CheckDrop_AnyAdmin(s, name) ==
  /\ name \in DOMAIN mirror
  /\ call' = [call EXCEPT ![s] = [at |-> "graph", op |-> "drop", name |-> name,
                                  node |-> mirror[name].node]]
  /\ UNCHANGED <<active, nodes, nextNode, mirror>>

\* The first step of drop_user.
CheckDrop(s, name) ==
  /\ name \in DOMAIN mirror
  /\ ~LastAdmin(name)
  /\ call' = [call EXCEPT ![s] = [at |-> "graph", op |-> "drop", name |-> name,
                                  node |-> mirror[name].node]]
  /\ UNCHANGED <<active, nodes, nextNode, mirror>>

\* What apply_property_updates will write once the check has passed.
Update(s, name, field, value) ==
  /\ call' = [call EXCEPT ![s] = [at |-> "graph", op |-> "set", name |-> name,
                                  node |-> mirror[name].node,
                                  field |-> field, value |-> value]]
  /\ UNCHANGED <<active, nodes, nextNode, mirror>>

\* The first step of set_password.
CheckSetPassword(s, name, hash) ==
  name \in DOMAIN mirror /\ Update(s, name, "hash", hash)

\* The first step of set_enabled.
CheckSetEnabled(s, name, enabled) ==
  /\ name \in DOMAIN mirror
  /\ ~enabled => ~LastAdmin(name)
  /\ Update(s, name, "enabled", enabled)

\* The first step of set_admin.
CheckSetAdmin(s, name, isAdmin) ==
  /\ name \in DOMAIN mirror
  /\ ~isAdmin => ~LastAdmin(name)
  /\ Update(s, name, "admin", isAdmin)

NodesNamed(name) == {n \in DOMAIN nodes : nodes[n].name = name}

\* add_node under the graph lock: the check of the name was made under the
\* map's, so a node of that name may have come in between.
GraphCreate(s) ==
  /\ call[s].at = "graph" /\ call[s].op = "create"
  /\ nodes' = Insert(nodes, nextNode, call[s].user)
  /\ nextNode' = nextNode + 1
  /\ call' = [call EXCEPT ![s] = [at |-> "mirror", op |-> "create", name |-> @.name,
                                  user |-> UserOf(@.user, nextNode)]]
  /\ gone' = gone \ {call[s].name}
  /\ twice' = IF NodesNamed(call[s].name) # {} THEN twice \cup {call[s].name} ELSE twice
  /\ UNCHANGED <<active, mirror, started>>

\* remove_node or apply_property_updates under the graph lock.  A node that
\* is gone makes the statement fail before it touches the map.
GraphChange(s) ==
  /\ call[s].at = "graph" /\ call[s].op \in {"drop", "set"}
  /\ IF call[s].node \notin DOMAIN nodes
     THEN call' = [call EXCEPT ![s] = NoCall] /\ UNCHANGED <<nodes, gone>>
     ELSE /\ call' = [call EXCEPT ![s].at = "mirror"]
          /\ nodes' = IF call[s].op = "drop"
                      THEN Restrict(nodes, DOMAIN nodes \ {call[s].node})
                      ELSE [nodes EXCEPT ![call[s].node][call[s].field] = call[s].value]
          /\ gone' = IF call[s].op = "drop" THEN gone \cup {call[s].name} ELSE gone
  /\ UNCHANGED <<active, nextNode, mirror, started, twice>>

\* What the last step of a statement makes of the map, by name.
MirrorAfter(c) ==
  CASE c.op = "create" -> Insert(mirror, c.name, c.user)
    [] c.op = "drop"   -> Restrict(mirror, DOMAIN mirror \ {c.name})
    [] c.op = "set"    -> IF c.name \in DOMAIN mirror
                          THEN [mirror EXCEPT ![c.name][c.field] = c.value]
                          ELSE mirror

\* The last step of every statement: the map under its write lock.
MirrorChange(s) ==
  /\ call[s].at = "mirror"
  /\ mirror' = MirrorAfter(call[s])
  /\ call' = [call EXCEPT ![s] = NoCall]
  /\ UNCHANGED <<active, nodes, nextNode, started, gone, twice>>

\* load_users after a restart: one record per name; when two nodes carry one
\* name, the one that is enumerated last stays.
Restart ==
  /\ \A s \in active : call[s] = NoCall
  /\ mirror' \in {m \in [{nodes[n].name : n \in DOMAIN nodes} ->
                         {UserOf(nodes[n], n) : n \in DOMAIN nodes}] :
                  \A u \in DOMAIN m : m[u].name = u}
  /\ UNCHANGED <<active, nodes, nextNode, call, started, gone, twice>>

\* dispatch_users_only runs each statement in its session's task.
StartStatement(s) ==
  /\ call[s] = NoCall
  /\ started < MaxStatements /\ started' = started + 1
  /\ \/ \E name \in Names, hash \in Hashes : CheckCreate(s, name, hash)
     \/ \E name \in Names : CheckDrop(s, name)
     \/ \E name \in Names, hash \in Hashes : CheckSetPassword(s, name, hash)
     \/ \E name \in Names, v \in BOOLEAN : CheckSetEnabled(s, name, v) \/ CheckSetAdmin(s, name, v)
  /\ UNCHANGED <<gone, twice>>

NextUsers ==
  \/ \E s \in active : \/ StartStatement(s)
                       \/ GraphCreate(s) \/ GraphChange(s) \/ MirrorChange(s)
  \/ Restart

SpecUsers == (\E group \in SUBSET Sessions : InitUsers(group)) /\ [][NextUsers]_userVars

\* LocalAuthProvider::authenticate with the right password: decided by the map.
MayLogIn(name) == name \in DOMAIN mirror /\ mirror[name].enabled

--------------------------------------------------------------------------
BeingDropped(u) ==
  \E s \in active : call[s].at = "mirror" /\ call[s].op = "drop" /\ call[s].name = u

\* Nobody logs in without a node in the graph, and a dropped user does not log
\* in once drop_user has returned, now or after a restart, until somebody
\* creates that name again.  A name that two creates at once gave to two nodes
\* is excepted: a drop removes the node of the map only.
DroppedStaysOut ==
  /\ \A u \in Names :
       MayLogIn(u) => mirror[u].node \in DOMAIN nodes \/ BeingDropped(u)
  /\ \A u \in gone \ twice : MayLogIn(u) => BeingDropped(u)

\* Does not hold: the same of every name.  create_user checks the name under the
\* map's lock and adds the node under the graph's, so two of them leave two
\* nodes; after a drop the other one is loaded by the next start.
DroppedStaysOutAlways == \A u \in gone : MayLogIn(u) => BeingDropped(u)

Quiet == \A s \in active : call[s] = NoCall
OneAdministrator == \E s \in Sessions : active = {s}

Exact ==
  /\ \A u \in DOMAIN mirror : NodeOf(mirror[u]) = nodes[mirror[u].node]
  /\ \A n \in DOMAIN nodes : \E u \in DOMAIN mirror : mirror[u].node = n

\* "Write-through semantics: every mutation hits the graph first and the map
\* second": with one administrator at a time, the map between statements is
\* exactly what a restart would load.
SerialWriteThrough == OneAdministrator /\ Quiet => Exact

\* The LastAdmin refusals of drop_user, set_enabled and set_admin: with one
\* administrator at a time somebody can always administer, in the map and in
\* the nodes a restart loads.
SerialAdminRemains ==
  OneAdministrator =>
    /\ \E u \in DOMAIN mirror : mirror[u].admin /\ mirror[u].enabled
    /\ \E n \in DOMAIN nodes : nodes[n].admin /\ nodes[n].enabled

\* The same with several administrators at once, which the store does not
\* keep: each check reads the map before the other's change has reached it.
AdminRemains == \E u \in DOMAIN mirror : mirror[u].admin /\ mirror[u].enabled

\* A dropped user stays out whatever administrators do at once; with one at a
\* time the map is what a restart loads and somebody can administer.
IdentitiesAreSound ==
  DroppedStaysOut /\ SerialWriteThrough /\ SerialAdminRemains

==========================================================================
