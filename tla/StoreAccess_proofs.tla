------------------------- MODULE StoreAccess_proofs -------------------------
(***************************************************************************)
(* Proofs about StoreAccess, for any number of calls, requests,            *)
(* connections and pieces.                                                 *)
(***************************************************************************)
EXTENDS StoreAccess, TLAPS

Places == {"new", "acquire", "request", "stream", "response", "release",
           "return", "returned", "run"}

ConnTypeOK ==
  /\ pc \in [Call -> Places]
  /\ pool \in [Conn -> {"closed", "idle", "used"}]
  /\ midway \in SUBSET Conn
  /\ conn \in [Call -> 0..MaxConns]
  /\ rpcErr \in [Call -> BOOLEAN]

Uses(c) == pc[c] \in {"request", "stream", "response", "release"}

\* A connection in use is marked as such, and has one user.
UsersHold == \A c \in Call : Uses(c) => conn[c] \in Conn /\ pool[conn[c]] = "used"

OneUser ==
  \A c, d \in Call : Uses(c) /\ Uses(d) /\ conn[c] = conn[d] => c = d

\* Call c has left a request on its connection, and will finish it or close
\* the connection.
Minds(c) ==
  \/ pc[c] \in {"stream", "response"}
  \/ pc[c] = "release" /\ rpcErr[c]

MidwayMinded ==
  \A k \in midway : pool[k] = "closed" \/ \E c \in Call : Minds(c) /\ conn[c] = k

\* Before newStore nothing has begun.
NotBegun == impl = "none" => midway = {} /\ \A c \in Call : pc[c] = "new"

ConnInv == ConnTypeOK /\ UsersHold /\ OneUser /\ MidwayMinded /\ NotBegun

LEMMA InitConnInv == Init => ConnInv
  BY StoreAccessAssumption
  DEF Init, ConnInv, ConnTypeOK, Places, UsersHold, OneUser, MidwayMinded,
      NotBegun, Uses, Minds, Conn

LEMMA ConnInvImplies == ConnInv => NoBrokenReuse
<1> SUFFICES ASSUME ConnInv, NEW c \in Call, pc[c] = "request", conn[c] \in midway
             PROVE FALSE
  BY DEF NoBrokenReuse
<1>1. pool[conn[c]] = "used"
  BY DEF ConnInv, UsersHold, Uses
<1>2. PICK d \in Call : Minds(d) /\ conn[d] = conn[c]
  BY <1>1 DEF ConnInv, MidwayMinded
<1>3. d = c
  BY <1>2 DEF ConnInv, OneUser, Uses, Minds
<1> QED
  BY <1>2, <1>3 DEF Minds

connVars == <<impl, pc, pool, midway, conn, rpcErr>>

LEMMA StutterConnInv == ConnInv /\ UNCHANGED connVars => ConnInv'
  BY DEF ConnInv, ConnTypeOK, UsersHold, OneUser, MidwayMinded, NotBegun, Uses,
         Minds, connVars

LEMMA NewStoreConnInv == ConnInv /\ NewStore => ConnInv'
<1> SUFFICES ASSUME ConnInv, NewStore PROVE ConnInv'
  OBVIOUS
<1>1. ConnTypeOK'
  BY StoreAccessAssumption DEF ConnInv, ConnTypeOK, NewStore, Conn
<1>2. \A c \in Call : ~Uses(c)'
  BY DEF ConnInv, NotBegun, NewStore, Uses
<1>3. UsersHold' /\ OneUser'
  BY <1>2 DEF UsersHold, OneUser
<1>4. midway' = {} /\ NotBegun'
  BY DEF ConnInv, NotBegun, NewStore
<1> QED
  BY <1>1, <1>3, <1>4 DEF ConnInv, MidwayMinded

\* A step of a call that holds no connection before or after.
LEMMA UnheldConnInv ==
  ASSUME ConnInv, impl # "none", UNCHANGED <<impl, pool, midway, conn, rpcErr>>,
         NEW c \in Call, NEW p \in Places, ~Uses(c),
         pc' = [pc EXCEPT ![c] = p], p \notin {"request", "stream", "response", "release"}
  PROVE  ConnInv'
<1>1. ConnTypeOK'
  BY DEF ConnInv, ConnTypeOK
<1>2. \A d \in Call : Uses(d)' <=> Uses(d)
  BY DEF ConnInv, ConnTypeOK, Uses
<1>3. \A d \in Call : Minds(d)' <=> Minds(d)
  BY DEF ConnInv, ConnTypeOK, Uses, Minds
<1>4. UsersHold' /\ OneUser'
  BY <1>2 DEF ConnInv, UsersHold, OneUser
<1>5. MidwayMinded' /\ NotBegun'
  BY <1>3 DEF ConnInv, MidwayMinded, NotBegun
<1> QED
  BY <1>1, <1>4, <1>5 DEF ConnInv

\* A step of a call from one place at which it holds its connection to
\* another; it leaves a request unfinished only if it minds that.
LEMMA HeldConnInv ==
  ASSUME ConnInv, UNCHANGED <<impl, pool, conn>>,
         NEW c \in Call, Uses(c),
         NEW p \in {"stream", "response", "release"}, pc' = [pc EXCEPT ![c] = p],
         NEW e \in BOOLEAN, rpcErr' = [rpcErr EXCEPT ![c] = e],
         \/ midway' = midway \ {conn[c]}
         \/ /\ midway' \in {midway, midway \cup {conn[c]}}
            /\ p = "release" => e
  PROVE  ConnInv'
<1>1. ConnTypeOK' /\ conn[c] \in Conn
  BY DEF ConnInv, ConnTypeOK, UsersHold, Places
<1>2. \A d \in Call : Uses(d)' <=> Uses(d)
  BY DEF ConnInv, ConnTypeOK, Uses
<1>3. UsersHold' /\ OneUser'
  BY <1>2 DEF ConnInv, UsersHold, OneUser
<1>4. \A d \in Call \ {c} : Minds(d)' <=> Minds(d)
  BY DEF ConnInv, ConnTypeOK, Minds
<1>5. ASSUME NEW k \in midway', k # conn[c]
      PROVE  pool'[k] = "closed" \/ \E d \in Call : Minds(d)' /\ conn'[d] = k
  <2>1. k \in midway
    BY <1>5
  <2>2. pool[k] = "closed" \/ \E d \in Call : Minds(d) /\ conn[d] = k
    BY <2>1 DEF ConnInv, MidwayMinded
  <2> QED
    BY <2>2, <1>4, <1>5
<1>6. conn[c] \in midway' => Minds(c)'
  BY DEF ConnInv, ConnTypeOK, Minds
<1>7. MidwayMinded'
  BY <1>5, <1>6 DEF MidwayMinded
<1>8. NotBegun'
  BY DEF ConnInv, NotBegun, Uses
<1> QED
  BY <1>1, <1>3, <1>7, <1>8 DEF ConnInv

LEMMA AcquireConnInv == ASSUME ConnInv, NEW c \in Call, Acquire(c) PROVE ConnInv'
<1>1. PICK k \in Conn :
        /\ pool[k] # "used"
        /\ pool' = [pool EXCEPT ![k] = "used"]
        /\ conn' = [conn EXCEPT ![c] = k]
        /\ midway' = IF pool[k] = "closed" THEN midway \ {k} ELSE midway
  BY DEF Acquire
<1>2. pc[c] = "acquire" /\ pc' = [pc EXCEPT ![c] = "request"] /\ UNCHANGED <<impl, rpcErr>>
  BY DEF Acquire, Goto
<1>3. ConnTypeOK'
  BY <1>1, <1>2, StoreAccessAssumption DEF ConnInv, ConnTypeOK, Places, Conn
<1>4. \A d \in Call \ {c} : (Uses(d)' <=> Uses(d)) /\ conn'[d] = conn[d]
  BY <1>1, <1>2 DEF ConnInv, ConnTypeOK, Uses
<1>5. conn'[c] = k /\ pool'[k] = "used"
  BY <1>1 DEF ConnInv, ConnTypeOK
<1>6. \A d \in Call : Uses(d) => conn[d] \in Conn /\ conn[d] # k /\ pool[conn[d]] = "used"
  BY <1>1 DEF ConnInv, UsersHold
<1>7. UsersHold'
  BY <1>1, <1>4, <1>5, <1>6 DEF UsersHold, ConnInv, ConnTypeOK
<1>8. OneUser'
  BY <1>4, <1>5, <1>6 DEF ConnInv, OneUser
<1>9. k \notin midway'
  <2>1. CASE pool[k] = "closed"
    BY <1>1, <2>1
  <2>2. CASE pool[k] # "closed"
    <3>1. \A d \in Call : ~(Minds(d) /\ conn[d] = k)
      BY <1>6 DEF Minds, Uses
    <3> QED
      BY <1>1, <2>2, <3>1 DEF ConnInv, MidwayMinded
  <2> QED
    BY <2>1, <2>2
<1>10. ASSUME NEW i \in midway'
       PROVE  pool'[i] = "closed" \/ \E d \in Call : Minds(d)' /\ conn'[d] = i
  <2>1. i \in midway /\ i # k /\ i \in Conn
    BY <1>1, <1>9 DEF ConnInv, ConnTypeOK
  <2>2. CASE pool[i] = "closed"
    BY <1>1, <2>1, <2>2 DEF ConnInv, ConnTypeOK
  <2>3. CASE pool[i] # "closed"
    <3>1. PICK d \in Call : Minds(d) /\ conn[d] = i
      BY <2>1, <2>3 DEF ConnInv, MidwayMinded
    <3>2. d # c
      BY <1>2, <3>1 DEF Minds
    <3> QED
      BY <1>2, <1>4, <3>1, <3>2 DEF Minds, ConnInv, ConnTypeOK
  <2> QED
    BY <2>2, <2>3
<1>11. MidwayMinded'
  BY <1>10 DEF MidwayMinded
<1>12. NotBegun'
  BY <1>2 DEF ConnInv, NotBegun
<1> QED
  BY <1>3, <1>7, <1>8, <1>11, <1>12 DEF ConnInv

LEMMA ReleaseConnInv == ASSUME ConnInv, NEW c \in Call, Release(c) PROVE ConnInv'
<1> DEFINE k == conn[c]
<1>1. /\ pc[c] = "release" /\ pc' = [pc EXCEPT ![c] = "return"]
      /\ pool' = [pool EXCEPT ![k] = IF rpcErr[c] THEN "closed" ELSE "idle"]
      /\ conn' = [conn EXCEPT ![c] = 0]
      /\ UNCHANGED <<impl, midway, rpcErr>>
  BY DEF Release, Goto
<1>2. Uses(c) /\ k \in Conn /\ pool[k] = "used"
  BY <1>1 DEF ConnInv, UsersHold, Uses
<1>3. ConnTypeOK'
  BY <1>1, <1>2, StoreAccessAssumption DEF ConnInv, ConnTypeOK, Places, Conn
<1>4. ~Uses(c)' /\ ~Minds(c)'
  BY <1>1 DEF ConnInv, ConnTypeOK, Uses, Minds
<1>5. \A d \in Call \ {c} :
        /\ Uses(d)' <=> Uses(d)
        /\ Minds(d)' <=> Minds(d)
        /\ conn'[d] = conn[d]
        /\ Uses(d) => conn[d] # k
  BY <1>1, <1>2 DEF ConnInv, ConnTypeOK, OneUser, Uses, Minds
<1>6. \A i \in Conn \ {k} : pool'[i] = pool[i]
  BY <1>1 DEF ConnInv, ConnTypeOK
<1>7. UsersHold' /\ OneUser'
  BY <1>4, <1>5, <1>6 DEF ConnInv, UsersHold, OneUser
<1>8. ASSUME NEW i \in midway'
      PROVE  pool'[i] = "closed" \/ \E d \in Call : Minds(d)' /\ conn'[d] = i
  <2>1. i \in midway /\ i \in Conn
    BY <1>1 DEF ConnInv, ConnTypeOK
  <2>2. pool[i] = "closed" \/ \E d \in Call : Minds(d) /\ conn[d] = i
    BY <2>1 DEF ConnInv, MidwayMinded
  <2>3. CASE i = k
    <3>1. Minds(c)
      BY <2>2, <2>3, <1>2, <1>5 DEF Minds, Uses
    <3> QED
      BY <1>1, <1>2, <2>3, <3>1 DEF Minds, ConnInv, ConnTypeOK
  <2>4. CASE i # k
    <3>1. \A d \in Call : conn[d] = i => d # c
      BY <2>4
    <3> QED
      BY <2>1, <2>2, <2>4, <3>1, <1>5, <1>6
  <2> QED
    BY <2>3, <2>4
<1>9. MidwayMinded'
  BY <1>8 DEF MidwayMinded
<1>10. NotBegun'
  BY <1>1 DEF ConnInv, NotBegun
<1> QED
  BY <1>3, <1>7, <1>9, <1>10 DEF ConnInv

LEMMA NextConnInv == ConnInv /\ [Next \/ Done]_vars => ConnInv'
<1> SUFFICES ASSUME ConnInv, [Next \/ Done]_vars PROVE ConnInv'
  OBVIOUS
<1>1. CASE NewStore
  BY <1>1, NewStoreConnInv
<1>2. CASE UNCHANGED connVars
  BY <1>2, StutterConnInv
<1>3. ASSUME NEW c \in Call, Dumper(c) PROVE ConnInv'
  BY <1>3, StutterConnInv
  DEF Dumper, DumpWrites, DumpEnds, DumpFails, DumpStops, SetDumper, connVars
<1>4. ASSUME NEW c \in Call, Caller(c) PROVE ConnInv'
  <2>0. pc[c] # "new" => impl # "none"
    BY DEF ConnInv, NotBegun
  <2>1. CASE Begin(c)
    <3>1. PICK p \in {"acquire", "run"} : pc' = [pc EXCEPT ![c] = p]
      BY <2>1 DEF Begin, Goto
    <3>2. /\ pc[c] = "new" /\ impl # "none"
          /\ UNCHANGED <<impl, pool, midway, conn, rpcErr>>
      BY <2>1 DEF Begin, Goto
    <3> QED
      BY <3>1, <3>2, UnheldConnInv DEF Uses, Places
  <2>2. CASE Acquire(c)
    BY <2>2, AcquireConnInv
  <2>3. CASE AcquireFails(c)
    <3>1. /\ pc[c] = "acquire" /\ pc' = [pc EXCEPT ![c] = "return"]
          /\ UNCHANGED <<impl, pool, midway, conn, rpcErr>>
      BY <2>3 DEF AcquireFails, Goto
    <3> QED
      BY <2>0, <3>1, UnheldConnInv DEF Uses, Places
  <2>4. CASE Request(c)
    <3>1. PICK p \in {"stream", "response"} : pc' = [pc EXCEPT ![c] = p]
      BY <2>4 DEF Request, Goto
    <3>2. /\ Uses(c) /\ midway' = midway \cup {conn[c]}
          /\ UNCHANGED <<impl, pool, conn, rpcErr>>
      BY <2>4 DEF Request, Goto, Uses
    <3>3. rpcErr[c] \in BOOLEAN /\ rpcErr' = [rpcErr EXCEPT ![c] = rpcErr[c]]
      BY <3>2 DEF ConnInv, ConnTypeOK
    <3> QED
      BY <3>1, <3>2, <3>3, HeldConnInv
  <2>5. CASE Transfer(c)
    BY <2>5, StutterConnInv DEF Transfer, connVars
  <2>6. CASE StreamEnds(c)
    <3>1. /\ Uses(c) /\ pc' = [pc EXCEPT ![c] = "response"]
          /\ UNCHANGED <<impl, pool, midway, conn, rpcErr>>
      BY <2>6 DEF StreamEnds, Goto, Uses
    <3>2. rpcErr[c] \in BOOLEAN /\ rpcErr' = [rpcErr EXCEPT ![c] = rpcErr[c]]
      BY <3>1 DEF ConnInv, ConnTypeOK
    <3> QED
      BY <3>1, <3>2, HeldConnInv
  <2>7. CASE StreamFails(c) \/ ConnectionFails(c)
    <3>1. /\ Uses(c) /\ pc' = [pc EXCEPT ![c] = "release"]
          /\ rpcErr' = [rpcErr EXCEPT ![c] = TRUE]
          /\ UNCHANGED <<impl, pool, midway, conn>>
      BY <2>7 DEF StreamFails, ConnectionFails, Goto, Uses
    <3> QED
      BY <3>1, HeldConnInv
  <2>8. CASE Respond(c) \/ Refuse(c) \/ BuildFails(c)
    <3>1. PICK e \in BOOLEAN : rpcErr' = [rpcErr EXCEPT ![c] = e]
      <4>1. rpcErr = [rpcErr EXCEPT ![c] = rpcErr[c]] /\ rpcErr[c] \in BOOLEAN
        BY DEF ConnInv, ConnTypeOK
      <4> QED
        BY <2>8, <4>1 DEF Respond, Refuse, BuildFails
    <3>2. /\ Uses(c) /\ pc' = [pc EXCEPT ![c] = "release"]
          /\ midway' = midway \ {conn[c]}
          /\ UNCHANGED <<impl, pool, conn>>
      BY <2>8 DEF Respond, Refuse, BuildFails, Goto, Uses
    <3> QED
      BY <3>1, <3>2, HeldConnInv
  <2>9. CASE Release(c)
    BY <2>9, ReleaseConnInv
  <2>10. CASE Return(c)
    <3>1. /\ pc[c] = "return" /\ pc' = [pc EXCEPT ![c] = "returned"]
          /\ UNCHANGED <<impl, pool, midway, conn, rpcErr>>
      BY <2>10 DEF Return, Goto
    <3> QED
      BY <2>0, <3>1, UnheldConnInv DEF Uses, Places
  <2>11. CASE RunTool(c) \/ ToolFails(c)
    <3>1. /\ pc[c] = "run" /\ pc' = [pc EXCEPT ![c] = "returned"]
          /\ UNCHANGED <<impl, pool, midway, conn, rpcErr>>
      BY <2>11 DEF RunTool, ToolFails, Goto
    <3> QED
      BY <2>0, <3>1, UnheldConnInv DEF Uses, Places
  <2> QED
    BY <1>4, <2>1, <2>2, <2>3, <2>4, <2>5, <2>6, <2>7, <2>8, <2>9, <2>10, <2>11
    DEF Caller
<1>5. CASE Done \/ UNCHANGED vars
  BY <1>5, StutterConnInv DEF Done, vars, connVars
<1> QED
  BY <1>1, <1>3, <1>4, <1>5 DEF Next

\* However many calls share however many connections, and whichever of them
\* break: none makes a request on a connection on which an earlier request was
\* left unfinished.
THEOREM ConnectionsAreClean == Spec => []NoBrokenReuse
<1>1. Init => ConnInv
  BY InitConnInv
<1>2. ConnInv /\ [Next \/ Done]_vars => ConnInv'
  BY NextConnInv
<1>3. ConnInv => NoBrokenReuse
  BY ConnInvImplies
<1> QED
  BY <1>1, <1>2, <1>3, PTL DEF Spec

-----------------------------------------------------------------------------
(***************************************************************************)
(* Both implementations implement the interface.                           *)
(***************************************************************************)
\* Nix writes the outputs of an input in the order in which they were sorted,
\* whatever list of them it was given.
NixSortsAlike ==
  \A r \in Requests : r.op = "derivation" =>
    \A p \in DOMAIN r.drv.inputDrvs :
      SetToSortSeq(Range(r.drv.inputDrvs[p]), LAMBDA x, y : x < y)
        = SortSeq(r.drv.inputDrvs[p], LAMBDA a, b : a < b)

\* The daemon is sent what the interface says.
LEMMA DaemonAlike ==
  \A r : DaemonNeeds(r) = Needs(r) /\ DaemonReturns(r) = Returns(r)
  BY DEF DaemonNeeds, DaemonReturns, Needs, Returns, Refs, DrvPath, ATerm

\* Nix computes the path that was computed without it.
LEMMA PathAlike ==
  ASSUME NixSortsAlike, NEW r \in Requests, r.op = "derivation"
  PROVE  NixAdd(ToJSON(r.drv)) = DrvPath(r.drv)
<1> DEFINE d == r.drv
<1> DEFINE sorted == [p \in DOMAIN d.inputDrvs |->
              SortSeq(d.inputDrvs[p], LAMBDA a, b : a < b)]
<1> DEFINE nix == [p \in DOMAIN d.inputDrvs |->
              SetToSortSeq(Range(d.inputDrvs[p]), LAMBDA x, y : x < y)]
<1>1. nix = sorted
  BY DEF NixSortsAlike
<1> DEFINE outs == [o \in DOMAIN d.outputs |-> ConvertOutput(d.outputs[o])]
<1> DEFINE a == [d EXCEPT !.outputs = outs, !.inputDrvs = sorted]
<1>2. ToGoNixDerivation(d) = a
  BY Zenon DEF ToGoNixDerivation
<1>3. NixAdd(ToJSON(d)) =
        <<"drv", FillFOD([d EXCEPT !.outputs = outs, !.inputDrvs = nix])>>
  BY Zenon DEF NixAdd, ToJSON, FillFOD, IsFOD
<1>4. DrvPath(d) = <<"drv", FillFOD(a)>>
  BY <1>2, Zenon DEF DrvPath
<1> HIDE DEF nix, sorted, outs
<1> QED
  BY <1>1, <1>3, <1>4, Zenon

LEMMA ToolAlike ==
  ASSUME NixSortsAlike, NEW r \in Requests
  PROVE  ToolReturns(r) = Returns(r)
  BY PathAlike DEF ToolReturns, Returns

\* What call c returns, once it is known.
Known(c) ==
  \/ got[c] = Error
  \/ got[c] = Returns(request[c]) /\ Range(got[c]) \subseteq valid

AnswerInv ==
  /\ request \in [Call -> Requests]
  /\ pc \in [Call -> Places]
  /\ DOMAIN got = Call
  /\ \A c \in Call :
       /\ pc[c] # "returned" => answer[c] = Pending
       /\ pc[c] \in {"release", "return"} => Known(c)

LEMMA InitAnswerInv == Init => AnswerInv
  BY DEF Init, StoreInit, AnswerInv, Places

\* A step that neither ends a call nor makes its answer known.
LEMMA QuietAnswerInv ==
  ASSUME AnswerInv, UNCHANGED <<request, answer, valid, got>>,
         pc' \in [Call -> Places],
         \A c \in Call :
           /\ pc'[c] # "returned" => pc[c] # "returned"
           /\ pc'[c] \in {"release", "return"} => pc[c] \in {"release", "return"}
  PROVE  AnswerInv'
  BY DEF AnswerInv, Known

\* A step that makes the answer of call c known.
LEMMA KnownAnswerInv ==
  ASSUME AnswerInv, UNCHANGED <<request, answer>>, valid \subseteq valid',
         NEW c \in Call, pc[c] # "returned",
         NEW p \in {"release", "return"}, pc' = [pc EXCEPT ![c] = p],
         NEW g, got' = [got EXCEPT ![c] = g],
         g = Error \/ (g = Returns(request[c]) /\ Range(g) \subseteq valid')
  PROVE  AnswerInv'
<1>1. /\ request' \in [Call -> Requests]
      /\ pc' \in [Call -> Places]
      /\ DOMAIN got' = Call
  BY DEF AnswerInv, Places
<1>2. \A d \in Call : pc'[d] # "returned" => answer'[d] = Pending
  BY DEF AnswerInv
<1>3. Known(c)'
  BY DEF AnswerInv, Known
<1>4. ASSUME NEW d \in Call \ {c}, pc'[d] \in {"release", "return"} PROVE Known(d)'
  <2>1. pc'[d] = pc[d] /\ got'[d] = got[d]
    BY DEF AnswerInv
  <2>2. Known(d)
    BY <1>4, <2>1 DEF AnswerInv
  <2> QED
    BY <2>1, <2>2 DEF Known
<1> QED
  BY <1>1, <1>2, <1>3, <1>4 DEF AnswerInv

\* A step that answers call c.
LEMMA EndAnswerInv ==
  ASSUME AnswerInv, UNCHANGED <<request, got>>, valid \subseteq valid',
         NEW c \in Call, pc' = [pc EXCEPT ![c] = "returned"],
         NEW g, answer' = [answer EXCEPT ![c] = g]
  PROVE  AnswerInv'
<1>1. request' \in [Call -> Requests] /\ pc' \in [Call -> Places] /\ DOMAIN got' = Call
  BY DEF AnswerInv, Places
<1>2. pc'[c] = "returned"
  BY DEF AnswerInv
<1>3. ASSUME NEW d \in Call \ {c}
      PROVE  /\ pc'[d] # "returned" => answer'[d] = Pending
             /\ pc'[d] \in {"release", "return"} => Known(d)'
  <2>1. pc'[d] = pc[d] /\ answer'[d] = answer[d] /\ got'[d] = got[d]
    BY DEF AnswerInv
  <2> QED
    BY <2>1 DEF AnswerInv, Known
<1> QED
  BY <1>1, <1>2, <1>3 DEF AnswerInv

\* One step of the interface, or none.
Steps == (\E c \in Call : StoreStep(c)) \/ UNCHANGED <<request, valid, answer>>

LEMMA NextImplements ==
  ASSUME NixSortsAlike, AnswerInv, [Next \/ Done]_vars
  PROVE  AnswerInv' /\ Steps
<1>1. CASE NewStore
  <2>1. UNCHANGED <<request, valid, answer, pc, got>>
    BY <1>1 DEF NewStore, store
  <2> QED
    BY <2>1, QuietAnswerInv DEF Steps, AnswerInv
<1>2. CASE Done \/ UNCHANGED vars
  <2>1. UNCHANGED <<request, valid, answer, pc, got>>
    BY <1>2 DEF Done, vars
  <2> QED
    BY <2>1, QuietAnswerInv DEF Steps, AnswerInv
<1>3. ASSUME NEW c \in Call, Dumper(c) PROVE AnswerInv' /\ Steps
  <2>1. UNCHANGED <<request, valid, answer, pc, got>>
    BY <1>3 DEF Dumper, DumpWrites, DumpEnds, DumpFails, DumpStops, SetDumper, store
  <2> QED
    BY <2>1, QuietAnswerInv DEF Steps, AnswerInv
<1>4. ASSUME NEW c \in Call, Caller(c) PROVE AnswerInv' /\ Steps
  <2> DEFINE r == request[c]
  <2>0. r \in Requests /\ DaemonNeeds(r) = Needs(r) /\ DaemonReturns(r) = Returns(r)
        /\ ToolReturns(r) = Returns(r)
    BY DaemonAlike, ToolAlike DEF AnswerInv
  <2> HIDE DEF r
  <2>1. CASE \/ Begin(c) \/ Acquire(c) \/ Request(c) \/ Transfer(c)
             \/ StreamEnds(c) \/ Release(c)
    <3>1. UNCHANGED <<request, valid, answer, got>>
      BY <2>1 DEF Begin, Acquire, Request, Transfer, StreamEnds, Release, store
    <3>2. \E p \in Places \ {"returned"} :
            /\ pc' = [pc EXCEPT ![c] = p]
            /\ pc[c] # "returned"
            /\ p \in {"release", "return"} => pc[c] = "release"
      <4>1. CASE Transfer(c)
        BY <4>1 DEF Transfer, AnswerInv, Places
      <4>2. CASE ~Transfer(c)
        BY <2>1, <4>2 DEF Begin, Acquire, Request, StreamEnds, Release, Goto, Places
      <4> QED
        BY <4>1, <4>2
    <3>3. AnswerInv'
      BY <3>1, <3>2, QuietAnswerInv DEF AnswerInv
    <3> QED
      BY <3>1, <3>3 DEF Steps
  <2>2. CASE \/ AcquireFails(c) \/ StreamFails(c) \/ Refuse(c)
    <3>1. /\ UNCHANGED <<request, valid, answer>>
          /\ got' = [got EXCEPT ![c] = Error]
          /\ pc[c] # "returned"
          /\ \E p \in {"release", "return"} : pc' = [pc EXCEPT ![c] = p]
      BY <2>2 DEF AcquireFails, StreamFails, Refuse, Goto, store
    <3>2. AnswerInv'
      BY <3>1, KnownAnswerInv
    <3> QED
      BY <3>1, <3>2 DEF Steps
  <2>3. CASE Respond(c) \/ BuildFails(c) \/ ConnectionFails(c)
    <3>1. /\ UNCHANGED <<request, answer>>
          /\ pc[c] # "returned"
          /\ pc' = [pc EXCEPT ![c] = "release"]
      BY <2>3 DEF Respond, BuildFails, ConnectionFails, Goto
    <3>2. Adds(c)
      <4>1. \/ valid' = valid
            \/ /\ DaemonNeeds(r) \subseteq valid
               /\ \E paths \in SUBSET Range(DaemonReturns(r)) : valid' = valid \cup paths
        BY <2>3 DEF Respond, BuildFails, ConnectionFails, r
      <4> QED
        BY <2>0, <4>1 DEF Adds, r
    <3>3. \E g : /\ got' = [got EXCEPT ![c] = g]
                 /\ g = Error \/ (g = Returns(r) /\ Range(g) \subseteq valid')
      BY <2>0, <2>3 DEF Respond, BuildFails, ConnectionFails, r
    <3>4. AnswerInv'
      BY <3>1, <3>2, <3>3, KnownAnswerInv DEF Adds, r
    <3>5. StoreStep(c)
      BY <3>1, <3>2 DEF StoreStep, AnswerInv
    <3> QED
      BY <3>4, <3>5 DEF Steps
  <2>4. CASE Return(c)
    <3>1. /\ UNCHANGED <<request, valid, got>>
          /\ pc[c] = "return" /\ pc' = [pc EXCEPT ![c] = "returned"]
          /\ answer' = [answer EXCEPT ![c] = got[c]]
      BY <2>4 DEF Return, Goto
    <3>2. AnswerInv'
      BY <3>1, EndAnswerInv
    <3>3. answer[c] = Pending /\ Known(c)
      BY <3>1 DEF AnswerInv
    <3>4. StoreStep(c)
      BY <3>1, <3>3 DEF StoreStep, Adds, Known
    <3> QED
      BY <3>2, <3>4 DEF Steps
  <2>5. CASE RunTool(c)
    <3>1. /\ UNCHANGED <<request, got>>
          /\ pc[c] = "run" /\ pc' = [pc EXCEPT ![c] = "returned"]
          /\ Needs(r) \subseteq valid
          /\ valid' = valid \cup Range(Returns(r))
          /\ answer' = [answer EXCEPT ![c] = Returns(r)]
      BY <2>0, <2>5 DEF RunTool, Goto, r
    <3>2. AnswerInv'
      BY <3>1, EndAnswerInv
    <3>3. StoreStep(c)
      BY <3>1 DEF StoreStep, Adds, AnswerInv, r
    <3> QED
      BY <3>2, <3>3 DEF Steps
  <2>6. CASE ToolFails(c)
    <3>1. /\ UNCHANGED <<request, got>>
          /\ pc[c] = "run" /\ pc' = [pc EXCEPT ![c] = "returned"]
          /\ answer' = [answer EXCEPT ![c] = Error]
      BY <2>6 DEF ToolFails, Goto
    <3>2. Adds(c)
      BY <2>0, <2>6 DEF ToolFails, Adds, r
    <3>3. AnswerInv'
      BY <3>1, <3>2, EndAnswerInv DEF Adds
    <3>4. StoreStep(c)
      BY <3>1, <3>2 DEF StoreStep, AnswerInv
    <3> QED
      BY <3>3, <3>4 DEF Steps
  <2> QED
    BY <1>4, <2>1, <2>2, <2>3, <2>4, <2>5, <2>6 DEF Caller
<1> QED
  BY <1>1, <1>2, <1>3, <1>4 DEF Next

\* Whichever implementation is chosen, and whatever fails at whatever moment:
\* a call that succeeds returns the path that was asked for, which is valid,
\* and nothing is added that was not asked for or whose needs are not there.
\* For the nix command this supposes that Nix sorts the outputs of an input.
THEOREM StoreImplemented == NixSortsAlike /\ Spec => ImplementsStore
<1> SUFFICES ASSUME NixSortsAlike PROVE Spec => ImplementsStore
  OBVIOUS
<1>1. Init => AnswerInv
  BY InitAnswerInv
<1>2. AnswerInv /\ [Next \/ Done]_vars => AnswerInv'
  BY NextImplements
<1>3. Init => StoreInit
  BY DEF Init
<1>4. AnswerInv /\ [Next \/ Done]_vars
        => [\E c \in Call : StoreStep(c)]_<<request, valid, answer>>
  BY NextImplements DEF Steps
<1> QED
  BY <1>1, <1>2, <1>3, <1>4, PTL DEF Spec, ImplementsStore, StoreSpec
=============================================================================
