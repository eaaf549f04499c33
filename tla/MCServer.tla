------------------------------ MODULE MCServer ------------------------------
(***************************************************************************)
(* The parts of the server that share no state, each explored by itself:   *)
(* an initial state chooses the part whose steps are taken.                *)
(***************************************************************************)
EXTENDS ConnectionFront, Throttle, AuditLog, UserStore, StartUp, ImportPipeline, BoltWire

VARIABLE part

Parts == {"front", "queries", "bytes", "audit", "slow", "users", "start", "import", "wire", "codec"}

----------------------------------------------------------------------------
(* Values at every boundary of the codec, odd byte strings, and what        *)
(* clients do on a connection.                                             *)

MCWidths == <<1, 2, 3, 4>>
Ab(n) == [k \in 1..n |-> 65 + (k % 26)]
Fl(b1, b2) == PFloat(<<b1, b2, 0, 0, 0, 0, 0, 1>>)
PackInts == {0, 1, -1, 127, 128, 129, -16, -17, -18, -127, -128, -129, 255, 256, 32767, 32768, -32768, -32769,
             8388607, 8388608, -8388608, -8388609, 2147483647, -2147483647}
PackPlain == {PNull, PBool(TRUE), PBool(FALSE), Fl(127, 239), Fl(255, 240), Fl(127, 248)}
  \cup {PInt(i) : i \in PackInts} \cup {PStr(Ab(k)) : k \in {0, 1, 15, 16, 17, 255, 256}}
Wraps(S) == {PList(<<x>>) : x \in S} \cup {[map |-> <<65>> :> x] : x \in S}
Some3 == {PInt(5), Fl(127, 240), PStr(<<>>), PList(<<>>)}
PackNode(i) == [id |-> i, labels |-> <<<<65>>, <<66, 67>>>>, props |-> <<65, 66>> :> PInt(i) @@ <<65>> :> PNull @@ <<66>> :> PList(<<>>)]
PackRel(i, a, b) == [id |-> i, start |-> a, end |-> b, type |-> <<82>>, props |-> <<65>> :> PInt(i)]
PackPath(ns) == [path |-> [nodes |-> [k \in DOMAIN ns |-> PackNode(ns[k])],
                           rels |-> [k \in 1..Len(ns) - 1 |-> PackRel(10 + k, ns[k], ns[k + 1])]]]
MCPackValues ==
  PackPlain \cup Wraps(Some3) \cup Wraps(Wraps(Some3)) \cup Wraps(Wraps(Wraps(Wraps(Some3))))
  \cup Wraps(Wraps(Wraps(Wraps(Wraps(Some3)))))
  \cup {PList([k \in 1..j |-> PInt(k)]) : j \in {15, 16}}
  \cup {[map |-> [s \in {<<64 + k>> : k \in 1..j} |-> PBool(TRUE)]] : j \in {2, 15, 16}}
  \cup {[map |-> <<65>> :> PInt(1) @@ <<66>> :> PInt(2)]}
  \cup {[node |-> PackNode(1)], [rel |-> PackRel(7, 1, 2)], PackPath(<<1>>), PackPath(<<1, 2>>), PackPath(<<1, 2, 1>>)}
OddBytes == {1, 65, 128, 129, 145, 161, 177, 200, 201, 204, 208, 209, 212, 216, 223, 240, 255}
MCPackBuffers == UNION {[1..k -> OddBytes] : k \in 0..3} \cup {<<216, 1, 129, 65>> \o <<a, b>> : a \in OddBytes, b \in OddBytes}
  \cup {<<162, 129, 65, 1, 129, 65, 2>>, <<210, 0, 0, 0, 2, 65, 66>>, <<206, 0, 0, 0, 1, 9>>, <<193, 127, 248, 0, 0, 0, 0, 0, 0>>}

Call(c) == [call |-> c]
RunQ(k) == [call |-> "run", query |-> <<k>>]
ExecQ(k) == [call |-> "execute", query |-> <<k>>]
Pull(n) == [call |-> "pull", n |-> n]
Discard(n) == [call |-> "discard", n |-> n]
Raw(b) == [call |-> "raw", bytes |-> b]
MCResults == <<1>> :> [cols |-> <<PStr(<<65>>)>>, rows |-> <<<<PInt(1)>>, <<PInt(200)>>, <<PNull>>>>, stats |-> FALSE]
          @@ <<2>> :> [cols |-> <<>>, rows |-> <<>>, stats |-> TRUE]
          @@ <<3>> :> [cols |-> <<PStr(<<65>>)>>, rows |-> <<<<PInt(1)>>, <<PFloat(<<127, 240, 0, 0, 0, 0, 0, 0>>)>>>>, stats |-> FALSE]
Offer44 == <<<<0, 4, 4, 4>>, <<0, 0, 0, 0>>, <<0, 0, 0, 0>>, <<0, 0, 0, 0>>>>
Offer5 == <<<<0, 0, 4, 5>>, <<0, 1, 3, 4>>, <<0, 2, 6, 4>>, <<0, 0, 0, 0>>>>
OfferNone == <<<<0, 0, 4, 5>>, <<0, 1, 3, 4>>, <<0, 1, 6, 4>>, <<0, 0, 0, 0>>>>
Sc(calls) == [offer |-> Offer44, calls |-> calls]
MCScripts ==
  {Sc(<<Call("hello"), RunQ(1), RunQ(2)>>), Sc(<<ExecQ(1), Pull(2), Pull(-1), Pull(1)>>),
   Sc(<<ExecQ(1), Discard(1), Pull(1), ExecQ(2), Pull(-1)>>), Sc(<<RunQ(2), Call("reset"), RunQ(1)>>),
   Sc(<<ExecQ(1), Pull(1), Call("reset"), Pull(-1)>>), Sc(<<ExecQ(2), Discard(0), Discard(-1)>>),
   Sc(<<RunQ(3), RunQ(2)>>), Sc(<<Raw(<<>>), RunQ(2), Call("reset"), Raw(<<177, 5, 1>>), Raw(<<192>>), Call("goodbye")>>),
   Sc(<<Raw(<<177, 1, 1>>), Call("reset"), Raw([k \in 1..30 |-> 1])>>), Sc(<<Call("commit"), Call("goodbye"), Call("commit")>>)}
  \cup {[offer |-> o, calls |-> <<RunQ(2)>>] : o \in {Offer5, OfferNone}}

IdleWire ==
  /\ pipe = [d \in Ways |-> NewPipe]
  /\ caller = [at |-> "over", asked |-> <<>>, done |-> <<>>]
  /\ peer = [at |-> "gone", heard |-> <<>>]
IdlePack == packing = [at |-> "idle"]

----------------------------------------------------------------------------
Init ==
  /\ part \in Parts
  /\ InitFront /\ InitThrottle /\ InitAudit /\ InitGate /\ InitImport
  /\ \E group \in (IF part = "users" THEN (SUBSET Sessions) \ {{}} ELSE {Sessions}) :
       InitUsers(group)
  /\ \E dir \in (IF part = "start" THEN Directories
                 ELSE {d \in Directories : ~d.system}) : InitStart(dir)
  /\ IF part = "wire" THEN InitWire ELSE IdleWire
  /\ IF part = "codec" THEN InitPack ELSE IdlePack

\* The state of every part but the named one.
Rest(p) ==
  /\ (p # "front") => UNCHANGED frontVars
  /\ (p \notin {"queries", "bytes"}) => UNCHANGED throttleVars
  /\ (p # "audit") => UNCHANGED auditVars
  /\ (p # "slow") => UNCHANGED gateVars
  /\ (p # "users") => UNCHANGED userVars
  /\ (p # "start") => UNCHANGED startVars
  /\ (p # "import") => UNCHANGED importVars
  /\ (p # "wire") => UNCHANGED wireVars
  /\ (p # "codec") => UNCHANGED packVars
  /\ UNCHANGED part

Next ==
  /\ \/ part = "front" /\ NextFront
     \/ part = "queries" /\ NextQueries
     \/ part = "bytes" /\ NextBytes
     \/ part = "audit" /\ NextAudit
     \/ part = "slow" /\ NextGate
     \/ part = "users" /\ NextUsers
     \/ part = "start" /\ NextStart
     \/ part = "import" /\ NextImport
     \/ part = "wire" /\ NextWire
     \/ part = "codec" /\ NextPack
  /\ Rest(part)

vars == <<frontVars, throttleVars, auditVars, gateVars, userVars, startVars,
          importVars, wireVars, packVars, part>>

\* The fairness of FairFront, FairImport and FairWire, each in its own part.
Fairness ==
  /\ WF_frontVars(part = "front" /\ StopAccepting)
  /\ WF_frontVars(part = "front" /\ Drain)
  /\ WF_importVars(part = "import" /\ Produce)
  /\ WF_importVars(part = "import" /\ ClientStep)
  /\ WF_importVars(part = "import" /\ Serve)
  /\ WF_wireVars(part = "wire" /\ ClientMoves)
  /\ WF_wireVars(part = "wire" /\ ServerShake)
  /\ \A d \in Ways : /\ WF_wireVars(part = "wire" /\ Deliver(d))
                     /\ WF_wireVars(part = "wire" /\ ReadStep(d))

Spec == Init /\ [][Next]_vars /\ Fairness

\* ImportEnds of the behaviours that import.
ImportAlwaysEnds == (part = "import") => ImportEnds

\* CallsEnd of the behaviours of a connection.
CallsAlwaysEnd == (part = "wire") => CallsEnd

SpecImportOnly == Init /\ part = "import" /\ [][Next]_vars
SpecUsersOnly == Init /\ part = "users" /\ [][Next]_vars

\* A shutdown completes, an import ends and every call of a client ends, under
\* the fairness above.
NobodyWaitsForever ==
  ShutdownCompletes /\ ImportAlwaysEnds /\ CallsAlwaysEnd

=============================================================================
