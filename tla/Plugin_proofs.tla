--------------------------- MODULE Plugin_proofs ----------------------------
(***************************************************************************)
(* Proofs about the evaluator plugin.                                      *)
(*                                                                         *)
(* First about Evaluator, for any number of evaluators, calls and edits,   *)
(* any trees and modules, and a memo of any size.  Then about Listing, for *)
(* any trees that the go command accepts and any requests:                 *)
(*   - what a run of go list prints, and narrowing it (RestrictFacts);     *)
(*   - what the passes make of it, in terms of the tree                    *)
(*     (ClassifyTestFacts, BuildPassFacts, ClosureFacts);                  *)
(*   - that the single pass is the two passes (SinglePassIs);              *)
(*   - what the graph holds (LinkedIs, TestsAreServed).                    *)
(* The names of the modules differ, so that neither specification          *)
(* constrains the variables of the other.                                  *)
(***************************************************************************)
EXTENDS Evaluator, Listing, ImportGraph_proofs

Calls == [src : Src, setting : Setting]
AnyTree == StoreTree \cup {Live}
Closed == StoreTree \ Open   \* trees that never read differently

PC == {"idle", "key", "look up", "list", "keep", "hash", "answered"}
InCall == {"look up", "list", "keep", "hash"}   \* the path stays as it is

-----------------------------------------------------------------------------
(***************************************************************************)
(* The invariant.                                                          *)
(***************************************************************************)
TypeOK ==
  /\ points \in [Src -> AnyTree]
  /\ modCache \in [Module -> {"absent", "partial", "whole"}]
  /\ call \in [Process -> Calls]
  /\ pc \in [Process -> PC]
  /\ DOMAIN key = Process /\ DOMAIN listing = Process /\ DOMAIN kept = Process
  /\ DOMAIN memo = Process /\ DOMAIN hashes = Process /\ DOMAIN narCache = Module

Available(t) == \A m \in Requires[t] : modCache[m] = "whole"

\* What may be in a memo: listings without errors, of trees that do not
\* change, whose modules are there for good.
Good(c, t) ==
  [key |-> <<c, t>>,
   listing |-> [content |-> [tree |-> t, edit |-> 0], setting |-> c.setting,
                complete |-> TRUE],
   size |-> Size[t]]

GoodEntries == {Good(c, t) : c \in Calls, t \in {t \in Closed : Available(t)}}

MemoRight(p) == memo[p] \in Seq(GoodEntries)

Root(p) == points[call[p].src]

KeyRight(p) ==
  pc[p] \in InCall =>
    key[p] = IF Root(p) \in StoreTree THEN <<call[p], Root(p)>> ELSE NoKey

\* A listing just made, and one the hashes are collected for.
Made(p) ==
  /\ listing[p] = [content |-> [tree |-> Root(p), edit |-> listing[p].content.edit],
                   setting |-> call[p].setting, complete |-> listing[p].complete]
  /\ Root(p) \in Closed => listing[p].content.edit = 0
  /\ listing[p].complete \in BOOLEAN
  /\ listing[p].complete => Available(Root(p))

Whole(p) ==
  /\ listing[p].complete
  /\ listing[p].content.tree \in AnyTree
  /\ Available(listing[p].content.tree)

Served(p) ==
  /\ Root(p) \in Closed
  /\ listing[p].setting = call[p].setting
  /\ listing[p].content = [tree |-> Root(p), edit |-> 0]

ListingRight(p) ==
  /\ pc[p] = "keep" => Made(p) /\ ~kept[p]
  /\ pc[p] = "list" => ~kept[p]
  /\ pc[p] = "hash" => Whole(p) /\ (kept[p] => Served(p))

WholeHash(m) == <<m, "whole">>

HashesMade(p) ==
  /\ pc[p] \in {"key", "look up", "list", "keep"} => hashes[p] = <<>>
  /\ pc[p] = "hash" => /\ DOMAIN hashes[p] \subseteq Wanted(p)
                       /\ hashes[p] = [m \in DOMAIN hashes[p] |-> WholeHash(m)]
  /\ pc[p] = "answered" /\ listing[p].complete =>
       hashes[p] = [m \in Wanted(p) |-> WholeHash(m)]

ProcessInv(p) == MemoRight(p) /\ KeyRight(p) /\ ListingRight(p) /\ HashesMade(p)

NarInv == \A m \in Module : narCache[m] \in {None, WholeHash(m)}

EvaluatorInv == TypeOK /\ NarInv /\ \A p \in Process : ProcessInv(p)

LEMMA InitEvaluatorInv == Init => EvaluatorInv
<1> SUFFICES ASSUME Init PROVE EvaluatorInv
  OBVIOUS
<1>1. TypeOK
  BY DEF Init, TypeOK, AnyTree, Calls, PC
<1>2. NarInv
  BY DEF Init, NarInv
<1>3. ASSUME NEW p \in Process PROVE ProcessInv(p)
  BY DEF Init, ProcessInv, MemoRight, KeyRight, InCall, ListingRight, HashesMade
<1> QED
  BY <1>1, <1>2, <1>3 DEF EvaluatorInv

LEMMA EvaluatorInvImplies == EvaluatorInv => ServedIsCurrent /\ HashesRight
<1> SUFFICES ASSUME EvaluatorInv PROVE ServedIsCurrent /\ HashesRight
  OBVIOUS
<1>1. ASSUME NEW p \in Process, pc[p] = "hash", kept[p]
      PROVE  /\ listing[p].complete
             /\ listing[p].setting = call[p].setting
             /\ listing[p].content = Content(points[call[p].src])
  <2>1. Whole(p) /\ Served(p)
    BY <1>1 DEF EvaluatorInv, ProcessInv, ListingRight
  <2>2. Root(p) \notin Open \cup {Live}
    BY <2>1, EvaluatorAssumption DEF Served, Closed
  <2> QED
    BY <2>1, <2>2 DEF Whole, Served, Content, Root
<1>2. ServedIsCurrent
  BY <1>1 DEF ServedIsCurrent
<1>3. HashesRight
  BY DEF EvaluatorInv, ProcessInv, HashesMade, HashesRight, WholeHash
<1> QED
  BY <1>2, <1>3

-----------------------------------------------------------------------------
(***************************************************************************)
(* The memo.                                                               *)
(***************************************************************************)
\* Taking an entry out, or the first ones away, leaves only what was there.
LEMMA RemoveInSeq ==
  ASSUME NEW S, NEW s \in Seq(S), NEW i \in 1..Len(s)
  PROVE  RemoveAt(s, i) \in Seq(S)
<1>1. SubSeq(s, 1, i - 1) \in Seq(S) /\ SubSeq(s, i + 1, Len(s)) \in Seq(S)
  OBVIOUS
<1> QED
  BY <1>1 DEF RemoveAt

LEMMA FromInSeq ==
  ASSUME NEW S, NEW s \in Seq(S), NEW i \in 1..Len(s) + 1
  PROVE  From(i, s) \in Seq(S)
  BY DEF From

\* Modules stay where they are, so what may be kept, may be kept later on.
LEMMA GoodStaysGood ==
  ASSUME NEW p \in Process, MemoRight(p), memo'[p] = memo[p],
         \A m \in Module : modCache[m] = "whole" => modCache'[m] = "whole"
  PROVE  MemoRight(p)'
<1>1. \A t \in Closed : Available(t) => Available(t)'
  BY EvaluatorAssumption DEF Available, Closed
<1>2. GoodEntries \subseteq GoodEntries'
  BY <1>1 DEF GoodEntries, Good
<1> QED
  BY <1>2, SeqMonotonic DEF MemoRight

LEMMA SameGood == modCache' = modCache => GoodEntries' = GoodEntries
<1> SUFFICES ASSUME modCache' = modCache PROVE GoodEntries' = GoodEntries
  OBVIOUS
<1>1. {t \in Closed : Available(t)}' = {t \in Closed : Available(t)}
  BY DEF Available
<1> QED
  BY <1>1 DEF GoodEntries, Good

\* What a process that makes no step knows.
own(p) == <<call[p], pc[p], key[p], listing[p], kept[p], memo[p], hashes[p]>>

LEMMA Waiting ==
  ASSUME TypeOK, NEW p \in Process, ProcessInv(p), own(p)' = own(p),
         points' = points, modCache' = modCache
  PROVE  ProcessInv(p)'
<1>1. /\ call'[p] = call[p] /\ pc'[p] = pc[p] /\ key'[p] = key[p]
      /\ listing'[p] = listing[p] /\ kept'[p] = kept[p] /\ memo'[p] = memo[p]
      /\ hashes'[p] = hashes[p]
  BY DEF own
<1>2. MemoRight(p)'
  BY <1>1, GoodStaysGood DEF ProcessInv
<1>3. KeyRight(p)'
  BY <1>1 DEF ProcessInv, KeyRight, Root
<1>4. ListingRight(p)'
  BY <1>1 DEF ProcessInv, ListingRight, Made, Whole, Served, Available, Root
<1>5. HashesMade(p)'
  BY <1>1 DEF ProcessInv, HashesMade, Wanted
<1> QED
  BY <1>2, <1>3, <1>4, <1>5 DEF ProcessInv

-----------------------------------------------------------------------------
(***************************************************************************)
(* Every step keeps the invariant.                                         *)
(***************************************************************************)
LEMMA RelinkKeeps == EvaluatorInv /\ Relink => EvaluatorInv'
<1> SUFFICES ASSUME EvaluatorInv, Relink PROVE EvaluatorInv'
  OBVIOUS
<1>1. PICK s \in Src, t \in AnyTree :
        /\ \A p \in Process : call[p].src = s => pc[p] \in {"idle", "key", "answered"}
        /\ points' = [points EXCEPT ![s] = t]
        /\ UNCHANGED <<edits, modCache, call, pc, key, listing, kept, memo, narCache,
                       hashes, calls>>
  BY DEF Relink, AnyTree
<1>2. TypeOK'
  BY <1>1 DEF EvaluatorInv, TypeOK
<1>3. NarInv'
  BY <1>1 DEF EvaluatorInv, NarInv
<1>4. ASSUME NEW p \in Process PROVE ProcessInv(p)'
  <2>1. ProcessInv(p) /\ call[p].src \in Src
    BY DEF EvaluatorInv, TypeOK, Calls
  <2>2. pc[p] \in InCall => Root(p)' = Root(p)
    BY <1>1, <2>1 DEF InCall, Root, EvaluatorInv, TypeOK
  <2>3. MemoRight(p)'
    BY <1>1, <2>1, GoodStaysGood DEF ProcessInv
  <2>4. KeyRight(p)'
    BY <1>1, <2>1, <2>2 DEF ProcessInv, KeyRight
  <2>5. ListingRight(p)'
    BY <1>1, <2>1, <2>2 DEF ProcessInv, ListingRight, Made, Whole, Served, Available, InCall
  <2>6. HashesMade(p)'
    BY <1>1, <2>1 DEF ProcessInv, HashesMade, Wanted
  <2> QED
    BY <2>3, <2>4, <2>5, <2>6 DEF ProcessInv
<1> QED
  BY <1>2, <1>3, <1>4 DEF EvaluatorInv

LEMMA EditKeeps == EvaluatorInv /\ (Edit \/ UNCHANGED vars) => EvaluatorInv'
<1> SUFFICES ASSUME EvaluatorInv, Edit \/ UNCHANGED vars PROVE EvaluatorInv'
  OBVIOUS
<1>1. UNCHANGED <<points, modCache, call, pc, key, listing, kept, memo, narCache, hashes>>
  BY DEF Edit, vars
<1>2. TypeOK'
  BY <1>1 DEF EvaluatorInv, TypeOK
<1>3. NarInv'
  BY <1>1 DEF EvaluatorInv, NarInv
<1>4. ASSUME NEW p \in Process PROVE ProcessInv(p)'
  BY <1>1, Waiting DEF EvaluatorInv, own
<1> QED
  BY <1>2, <1>3, <1>4 DEF EvaluatorInv

LEMMA ExtractKeeps == EvaluatorInv /\ Extract => EvaluatorInv'
<1> SUFFICES ASSUME EvaluatorInv, Extract PROVE EvaluatorInv'
  OBVIOUS
<1>1. PICK m \in Module :
        /\ modCache[m] # "whole"
        /\ modCache' = [modCache EXCEPT ![m] = IF @ = "absent" THEN "partial" ELSE "whole"]
        /\ UNCHANGED <<points, edits, call, pc, key, listing, kept, memo, narCache,
                       hashes, calls>>
  BY DEF Extract
<1>2. TypeOK'
  BY <1>1 DEF EvaluatorInv, TypeOK
<1>3. NarInv'
  BY <1>1 DEF EvaluatorInv, NarInv
<1>4. \A x \in Module : modCache[x] = "whole" => modCache'[x] = "whole"
  BY <1>1 DEF EvaluatorInv, TypeOK
<1>5. \A t \in AnyTree : Available(t) => Available(t)'
  BY <1>4, EvaluatorAssumption DEF Available, AnyTree
<1>6. ASSUME NEW p \in Process PROVE ProcessInv(p)'
  <2>1. ProcessInv(p) /\ Root(p) \in AnyTree /\ Root(p)' = Root(p)
    BY <1>1 DEF EvaluatorInv, TypeOK, Calls, Root
  <2>2. MemoRight(p)'
    BY <1>1, <1>4, <2>1, GoodStaysGood DEF ProcessInv
  <2>3. KeyRight(p)'
    BY <1>1, <2>1 DEF ProcessInv, KeyRight
  <2>4. ListingRight(p)'
    BY <1>1, <1>5, <2>1 DEF ProcessInv, ListingRight, Made, Whole, Served
  <2>5. HashesMade(p)'
    BY <1>1, <2>1 DEF ProcessInv, HashesMade, Wanted
  <2> QED
    BY <2>2, <2>3, <2>4, <2>5 DEF ProcessInv
<1> QED
  BY <1>2, <1>3, <1>6 DEF EvaluatorInv

\* A step of one process leaves the others as they are.
LEMMA OneProcess ==
  ASSUME EvaluatorInv, NEW p \in Process, UNCHANGED world, TypeOK', NarInv',
         ProcessInv(p)', \A q \in Process \ {p} : own(q)' = own(q)
  PROVE  EvaluatorInv'
<1>1. ASSUME NEW q \in Process \ {p} PROVE ProcessInv(q)'
  BY Waiting DEF EvaluatorInv, world
<1> QED
  BY <1>1 DEF EvaluatorInv

\* The steps of a call up to the listing, apart from Keep.
LEMMA BeginKeeps ==
  ASSUME EvaluatorInv, NEW p \in Process, Begin(p) \/ Restart(p)
  PROVE  EvaluatorInv'
<1>1. TypeOK'
  <2>1. CASE Begin(p)
    BY <2>1, ZenonT(30) DEF EvaluatorInv, TypeOK, Begin, Calls, PC, world
  <2>2. CASE Restart(p)
    BY <2>2 DEF EvaluatorInv, TypeOK, Restart, PC, world
  <2> QED
    BY <2>1, <2>2
<1>2. NarInv'
  BY DEF EvaluatorInv, NarInv, Begin, Restart
<1>3. \A q \in Process \ {p} : own(q)' = own(q)
  BY DEF EvaluatorInv, TypeOK, Begin, Restart, own
<1>4. UNCHANGED world
  BY DEF Begin, Restart
<1>5. pc'[p] \in {"idle", "key"} /\ hashes'[p] = <<>> /\ (memo'[p] = memo[p] \/ memo'[p] = <<>>)
  BY DEF EvaluatorInv, TypeOK, Begin, Restart
<1>6. MemoRight(p)'
  <2>1. CASE memo'[p] = memo[p]
    BY <1>4, <2>1, GoodStaysGood DEF EvaluatorInv, ProcessInv, world
  <2>2. CASE memo'[p] = <<>>
    BY <2>2 DEF MemoRight
  <2> QED
    BY <1>5, <2>1, <2>2
<1>7. ProcessInv(p)'
  BY <1>5, <1>6 DEF ProcessInv, KeyRight, InCall, ListingRight, HashesMade
<1> QED
  BY <1>1, <1>2, <1>3, <1>4, <1>7, OneProcess

LEMMA MakeKeyKeeps ==
  ASSUME EvaluatorInv, NEW p \in Process, MakeKey(p)
  PROVE  EvaluatorInv'
<1>1. TypeOK'
  BY DEF EvaluatorInv, TypeOK, MakeKey, Goto, PC, world
<1>2. NarInv'
  BY DEF EvaluatorInv, NarInv, MakeKey
<1>3. \A q \in Process \ {p} : own(q)' = own(q)
  BY DEF EvaluatorInv, TypeOK, MakeKey, Goto, own
<1>4. UNCHANGED world
  BY DEF MakeKey
<1>5. /\ pc[p] = "key" /\ pc'[p] = "look up" /\ hashes' = hashes /\ memo' = memo
      /\ call' = call
      /\ key'[p] = IF Root(p) \in StoreTree THEN <<call[p], Root(p)>> ELSE NoKey
  BY DEF EvaluatorInv, TypeOK, MakeKey, Goto, ListingKey, Root
<1>6. ProcessInv(p)
  BY DEF EvaluatorInv
<1>7. MemoRight(p)'
  BY <1>4, <1>5, <1>6, GoodStaysGood DEF ProcessInv, world
<1>8. ProcessInv(p)'
  BY <1>4, <1>5, <1>6, <1>7
     DEF ProcessInv, KeyRight, InCall, ListingRight, HashesMade, Root, world
<1> QED
  BY <1>1, <1>2, <1>3, <1>4, <1>8, OneProcess

LEMMA LookUpKeeps ==
  ASSUME EvaluatorInv, NEW p \in Process, LookUp(p)
  PROVE  EvaluatorInv'
<1>1. TypeOK'
  <2>1. \E n \in {"hash", "list"} : pc' = [pc EXCEPT ![p] = n]
    BY DEF LookUp
  <2>2. /\ DOMAIN listing' = Process /\ DOMAIN memo' = Process /\ DOMAIN kept' = Process
        /\ UNCHANGED <<world, call, key, narCache, hashes>>
    BY DEF LookUp, EvaluatorInv, TypeOK
  <2> QED
    BY <2>1, <2>2 DEF EvaluatorInv, TypeOK, PC, world
<1>2. NarInv'
  BY DEF EvaluatorInv, NarInv, LookUp
<1>3. \A q \in Process \ {p} : own(q)' = own(q)
  BY DEF EvaluatorInv, TypeOK, LookUp, own
<1>4. UNCHANGED world /\ UNCHANGED <<call, key, hashes>> /\ pc[p] = "look up"
  BY DEF LookUp
<1>5. ProcessInv(p) /\ Root(p)' = Root(p)
  BY <1>4 DEF EvaluatorInv, Root, world
<1>6. GoodEntries' = GoodEntries
  BY <1>4, SameGood DEF world
<1>7. key[p] = IF Root(p) \in StoreTree THEN <<call[p], Root(p)>> ELSE NoKey
  BY <1>4, <1>5 DEF ProcessInv, KeyRight, InCall
<1>8. CASE Hits(p) = {} /\ pc' = [pc EXCEPT ![p] = "list"]
           /\ kept' = [kept EXCEPT ![p] = FALSE] /\ UNCHANGED <<listing, memo>>
  <2>1. pc'[p] = "list" /\ kept'[p] = FALSE /\ memo'[p] = memo[p]
    BY <1>8 DEF EvaluatorInv, TypeOK
  <2>2. ProcessInv(p)'
    BY <1>4, <1>5, <1>6, <1>7, <2>1
       DEF ProcessInv, MemoRight, KeyRight, InCall, ListingRight, HashesMade
  <2> QED
    BY <1>1, <1>2, <1>3, <1>4, <2>2, OneProcess
<1>9. ASSUME NEW i \in Hits(p),
             listing' = [listing EXCEPT ![p] = memo[p][i].listing],
             memo' = [memo EXCEPT ![p] = Append(RemoveAt(memo[p], i), memo[p][i])],
             kept' = [kept EXCEPT ![p] = TRUE],
             pc' = [pc EXCEPT ![p] = "hash"]
      PROVE  EvaluatorInv'
  <2>1. /\ pc'[p] = "hash" /\ kept'[p] /\ listing'[p] = memo[p][i].listing
        /\ memo'[p] = Append(RemoveAt(memo[p], i), memo[p][i])
    BY <1>9 DEF EvaluatorInv, TypeOK
  <2>2. memo[p] \in Seq(GoodEntries) /\ i \in 1..Len(memo[p]) /\ memo[p][i].key = key[p]
    BY <1>5, <1>9 DEF ProcessInv, MemoRight, Hits
  <2>3. memo[p][i] \in GoodEntries
    BY <2>2, ElementOfSeq
  <2>4. PICK c \in Calls, t \in Closed : Available(t) /\ memo[p][i] = Good(c, t)
    BY <2>3 DEF GoodEntries
  <2>5. c = call[p] /\ t = Root(p)
    <3>1. key[p] = <<c, t>>
      BY <2>2, <2>4 DEF Good
    <3>2. key[p] # NoKey
      BY <3>1, EvaluatorAssumption DEF Calls, Closed
    <3> QED
      BY <1>7, <3>1, <3>2
  <2>6. listing'[p] = [content |-> [tree |-> t, edit |-> 0], setting |-> c.setting,
                       complete |-> TRUE]
    BY <2>1, <2>4 DEF Good
  <2>7. MemoRight(p)'
    <3>1. RemoveAt(memo[p], i) \in Seq(GoodEntries)
      BY <2>2, RemoveInSeq
    <3> QED
      BY <1>6, <2>1, <2>3, <3>1, AppendProperties DEF MemoRight
  <2>8. KeyRight(p)'
    BY <1>4, <1>5, <1>7 DEF KeyRight
  <2>9. Whole(p)'
    <3>1. listing'[p].content.tree = t /\ listing'[p].complete /\ t \in AnyTree
      BY <2>6 DEF Closed, AnyTree
    <3>2. \A m \in Requires[t] : modCache'[m] = "whole"
      BY <1>4, <2>4 DEF Available, world
    <3> QED
      BY <3>1, <3>2 DEF Whole, Available
  <2>10. ListingRight(p)'
    <3>1. /\ listing'[p].setting = call'[p].setting
          /\ listing'[p].content = [tree |-> Root(p), edit |-> 0]
      <4>1. listing'[p].setting = c.setting /\ listing'[p].content = [tree |-> t, edit |-> 0]
        BY <2>6
      <4> QED
        BY <1>4, <2>5, <4>1
    <3>2. Root(p) \in Closed
      BY <2>5
    <3>3. Served(p)'
      BY <1>5, <3>1, <3>2 DEF Served, Closed
    <3> QED
      BY <2>1, <2>9, <3>3 DEF ListingRight
  <2>11. HashesMade(p)'
    <3>1. hashes'[p] = <<>>
      BY <1>4, <1>5 DEF ProcessInv, HashesMade
    <3>2. DOMAIN hashes'[p] = {} /\ <<>> = [m \in {} |-> WholeHash(m)]
      BY <3>1
    <3> QED
      BY <2>1, <3>1, <3>2 DEF HashesMade
  <2>12. ProcessInv(p)'
    BY <2>7, <2>8, <2>10, <2>11 DEF ProcessInv
  <2> QED
    BY <1>1, <1>2, <1>3, <1>4, <2>12, OneProcess
<1> QED
  BY <1>8, <1>9 DEF LookUp

LEMMA RunGoListKeeps ==
  ASSUME EvaluatorInv, NEW p \in Process, RunGoList(p)
  PROVE  EvaluatorInv'
<1>1. TypeOK'
  BY DEF EvaluatorInv, TypeOK, RunGoList, Goto, PC, world
<1>2. NarInv'
  BY DEF EvaluatorInv, NarInv, RunGoList
<1>3. \A q \in Process \ {p} : own(q)' = own(q)
  BY DEF EvaluatorInv, TypeOK, RunGoList, Goto, own
<1>4. /\ UNCHANGED world /\ UNCHANGED <<call, key, kept, memo, hashes>>
      /\ pc[p] = "list" /\ pc'[p] = "keep"
      /\ listing'[p] = GoListOutput(call[p].src, call[p].setting)
  BY DEF EvaluatorInv, TypeOK, RunGoList, Goto
<1>5. ProcessInv(p) /\ Root(p)' = Root(p)
  BY <1>4 DEF EvaluatorInv, Root, world
<1>6. MemoRight(p)'
  BY <1>4, <1>5, GoodStaysGood DEF ProcessInv, world
<1>7. KeyRight(p)'
  BY <1>4, <1>5 DEF ProcessInv, KeyRight, InCall
<1>8. listing'[p] = [content |-> Content(Root(p)), setting |-> call[p].setting,
                     complete |-> Available(Root(p))]
  BY <1>4 DEF GoListOutput, Root, Available
<1>9. Made(p)'
  <2>1. Root(p) \in Closed => Root(p) \notin Open \cup {Live}
    BY EvaluatorAssumption DEF Closed
  <2>2. Available(Root(p)) => Available(Root(p))'
    BY <1>4, <1>5 DEF Available, world
  <2>3. /\ listing'[p].content.tree = Root(p)
        /\ Root(p) \in Closed => listing'[p].content.edit = 0
        /\ listing'[p].content = [tree |-> Root(p), edit |-> listing'[p].content.edit]
    BY <1>8, <2>1 DEF Content
  <2>4. listing'[p].complete \in BOOLEAN /\ (listing'[p].complete => Available(Root(p)))
    BY <1>8 DEF Available
  <2>5. listing'[p] = [content |-> [tree |-> Root(p), edit |-> listing'[p].content.edit],
                       setting |-> call'[p].setting, complete |-> listing'[p].complete]
    BY <1>4, <1>8, <2>3
  <2> QED
    BY <1>5, <2>2, <2>3, <2>4, <2>5 DEF Made
<1>10. ProcessInv(p)'
  BY <1>4, <1>5, <1>6, <1>7, <1>9 DEF ProcessInv, ListingRight, HashesMade
<1> QED
  BY <1>1, <1>2, <1>3, <1>4, <1>10, OneProcess

LEMMA KeepKeeps ==
  ASSUME EvaluatorInv, NEW p \in Process, Keep(p)
  PROVE  EvaluatorInv'
<1> DEFINE e == [key |-> key[p], listing |-> listing[p],
                 size |-> Size[listing[p].content.tree]]
           next == IF listing[p].complete THEN "hash" ELSE "answered"
<1>1. /\ UNCHANGED world /\ UNCHANGED <<call, key, listing, kept, narCache, hashes>>
      /\ pc[p] = "keep" /\ pc' = [pc EXCEPT ![p] = next]
  BY DEF Keep, Goto
<1>2. IF CanBeKept(p) /\ e.size <= Limit
      THEN DropTo(p, Append(WithoutKey(p), e)) ELSE UNCHANGED memo
  BY DEF Keep
<1>3. ProcessInv(p) /\ Root(p)' = Root(p)
  BY <1>1 DEF EvaluatorInv, Root, world
<1>4. Made(p) /\ ~kept[p] /\ hashes[p] = <<>>
  BY <1>1, <1>3 DEF ProcessInv, ListingRight, HashesMade
<1>5. GoodEntries' = GoodEntries
  BY <1>1, SameGood DEF world
<1>6. CanBeKept(p) => e \in GoodEntries
  <2> SUFFICES ASSUME CanBeKept(p) PROVE e \in GoodEntries
    OBVIOUS
  <2>1. Root(p) \in Closed /\ listing[p].complete
    BY DEF CanBeKept, Closed, Root
  <2>2. Available(Root(p)) /\ listing[p].content.edit = 0
    BY <1>4, <2>1 DEF Made
  <2>3. key[p] = <<call[p], Root(p)>>
    BY <1>1, <1>3, <2>1 DEF ProcessInv, KeyRight, InCall, Closed
  <2>4. listing[p] = [content |-> [tree |-> Root(p), edit |-> 0],
                      setting |-> call[p].setting, complete |-> TRUE]
    BY <1>4, <2>1, <2>2 DEF Made
  <2>5. e = Good(call[p], Root(p))
    <3>1. listing[p].content.tree = Root(p)
      BY <2>4
    <3> QED
      BY <2>3, <2>4, <3>1 DEF Good
  <2>6. call[p] \in Calls
    BY DEF EvaluatorInv, TypeOK
  <2> QED
    BY <2>1, <2>2, <2>5, <2>6 DEF GoodEntries
<1> DEFINE Added == /\ MemoRight(p)' /\ DOMAIN memo' = Process
                    /\ \A q \in Process \ {p} : memo'[q] = memo[q]
<1>7. ASSUME UNCHANGED memo PROVE Added
  BY <1>3, <1>5, <1>7 DEF ProcessInv, MemoRight, EvaluatorInv, TypeOK
<1>8. ASSUME CanBeKept(p), DropTo(p, Append(WithoutKey(p), e)) PROVE Added
  <2>1. WithoutKey(p) \in Seq(GoodEntries)
    <3>1. memo[p] \in Seq(GoodEntries)
      BY <1>3 DEF ProcessInv, MemoRight
    <3>2. CASE Hits(p) = {}
      BY <3>1, <3>2 DEF WithoutKey
    <3>3. CASE Hits(p) # {}
      <4>1. (CHOOSE i \in Hits(p) : TRUE) \in 1..Len(memo[p])
        BY <3>3 DEF Hits
      <4> QED
        BY <3>1, <3>3, <4>1, RemoveInSeq DEF WithoutKey
    <3> QED
      BY <3>2, <3>3
  <2> DEFINE entries == Append(WithoutKey(p), e)
  <2>2. entries \in Seq(GoodEntries)
    BY <1>6, <1>8, <2>1, AppendProperties
  <2>3. PICK i \in 1..Len(entries) + 1 : memo' = [memo EXCEPT ![p] = From(i, entries)]
    BY <1>8 DEF DropTo
  <2> HIDE DEF entries
  <2>4. From(i, entries) \in Seq(GoodEntries)
    BY <2>2, <2>3, FromInSeq
  <2> QED
    BY <1>5, <2>3, <2>4 DEF MemoRight, EvaluatorInv, TypeOK
<1>9. Added
  BY <1>2, <1>7, <1>8
<1> HIDE DEF e
<1>10. TypeOK'
  BY <1>1, <1>9 DEF EvaluatorInv, TypeOK, PC, world
<1>11. NarInv'
  BY <1>1 DEF EvaluatorInv, NarInv
<1>12. \A q \in Process \ {p} : own(q)' = own(q)
  BY <1>1, <1>9 DEF EvaluatorInv, TypeOK, own
<1>13. pc'[p] = next
  BY <1>1 DEF EvaluatorInv, TypeOK
<1>14. KeyRight(p)'
  BY <1>1, <1>3, <1>13 DEF ProcessInv, KeyRight, InCall
<1>15. ListingRight(p)'
  <2>1. listing[p].content.tree = Root(p) /\ listing'[p] = listing[p]
    BY <1>1, <1>4 DEF Made
  <2>2. Root(p) \in AnyTree
    BY DEF EvaluatorInv, TypeOK, Root, Calls
  <2>3. ASSUME listing[p].complete PROVE Whole(p)'
    <3>1. \A m \in Requires[Root(p)] : modCache'[m] = "whole"
      BY <1>1, <1>4, <2>3 DEF Made, Available, world
    <3> QED
      BY <2>1, <2>2, <2>3, <3>1 DEF Whole, Available
  <2>4. ~kept'[p]
    BY <1>1, <1>4
  <2>5. CASE listing[p].complete
    BY <1>13, <2>3, <2>4, <2>5 DEF ListingRight
  <2>6. CASE ~listing[p].complete
    BY <1>13, <2>6 DEF ListingRight
  <2> QED
    BY <2>5, <2>6
<1>16. HashesMade(p)'
  <2>1. DOMAIN hashes'[p] = {} /\ <<>> = [m \in {} |-> WholeHash(m)]
    BY <1>1, <1>4
  <2> QED
    BY <1>1, <1>4, <1>13, <2>1 DEF HashesMade
<1>17. ProcessInv(p)'
  BY <1>9, <1>14, <1>15, <1>16 DEF ProcessInv
<1> QED
  BY <1>1, <1>10, <1>11, <1>12, <1>17, OneProcess

\* Every hash that is added is that of a whole module.
LEMMA HashKeeps ==
  ASSUME EvaluatorInv, NEW p \in Process, NEW m \in Module, Cached(p, m) \/ Computed(p, m)
  PROVE  EvaluatorInv'
<1>1. /\ pc[p] = "hash" /\ m \in Wanted(p) \ DOMAIN hashes[p]
      /\ UNCHANGED <<world, call, pc, key, listing, kept, memo>>
  BY DEF Cached, Computed
<1>2. ProcessInv(p)
  BY DEF EvaluatorInv
<1>3. Whole(p)
  BY <1>1, <1>2 DEF ProcessInv, ListingRight
<1>4. modCache[m] = "whole"
  BY <1>1, <1>3 DEF Whole, Available, Wanted
<1>5. HashOf(m) = WholeHash(m)
  BY <1>4 DEF HashOf, WholeHash
<1>6. PICK h : AddHash(p, m, h) /\ h = WholeHash(m)
  <2>1. CASE Cached(p, m)
    BY <2>1 DEF Cached, EvaluatorInv, NarInv
  <2>2. CASE Computed(p, m)
    BY <1>5, <2>2 DEF Computed
  <2> QED
    BY <2>1, <2>2
<1>7. hashes'[p] = [x \in DOMAIN hashes[p] \cup {m} |-> IF x = m THEN h ELSE hashes[p][x]]
  BY <1>6 DEF AddHash, EvaluatorInv, TypeOK
<1>8. NarInv' /\ DOMAIN narCache' = Module
  <2>1. CASE Cached(p, m)
    BY <2>1 DEF Cached, EvaluatorInv, NarInv, TypeOK
  <2>2. CASE Computed(p, m)
    <3>1. PICK c \in {WholeHash(m), narCache[m]} : narCache' = [narCache EXCEPT ![m] = c]
      BY <1>5, <2>2 DEF Computed, Put
    <3> QED
      BY <3>1 DEF EvaluatorInv, NarInv, TypeOK
  <2> QED
    BY <2>1, <2>2
<1>9. DOMAIN hashes' = Process /\ \A q \in Process \ {p} : hashes'[q] = hashes[q]
  BY <1>6 DEF AddHash, EvaluatorInv, TypeOK
<1>10. TypeOK'
  BY <1>1, <1>8, <1>9 DEF EvaluatorInv, TypeOK, world
<1>11. \A q \in Process \ {p} : own(q)' = own(q)
  BY <1>1, <1>9 DEF own
<1>12. MemoRight(p)'
  BY <1>1, <1>2, GoodStaysGood DEF ProcessInv, world
<1>13. KeyRight(p)' /\ ListingRight(p)'
  BY <1>1, <1>2 DEF ProcessInv, KeyRight, ListingRight, Made, Whole, Served, Available,
                    Root, world
<1>14. HashesMade(p)'
  <2>1. /\ DOMAIN hashes[p] \subseteq Wanted(p)
        /\ hashes[p] = [x \in DOMAIN hashes[p] |-> WholeHash(x)]
    BY <1>1, <1>2 DEF ProcessInv, HashesMade
  <2>2. \A x \in DOMAIN hashes[p] : hashes[p][x] = WholeHash(x)
    BY <2>1
  <2>3. hashes'[p] = [x \in DOMAIN hashes[p] \cup {m} |-> WholeHash(x)]
    BY <1>6, <1>7, <2>2
  <2>4. DOMAIN hashes'[p] = DOMAIN hashes[p] \cup {m}
    BY <1>7
  <2>5. Wanted(p)' = Wanted(p)
    BY <1>1 DEF Wanted
  <2> QED
    BY <1>1, <2>1, <2>3, <2>4, <2>5 DEF HashesMade
<1>15. ProcessInv(p)'
  BY <1>12, <1>13, <1>14 DEF ProcessInv
<1> QED
  BY <1>1, <1>8, <1>10, <1>11, <1>15, OneProcess

LEMMA AnswerKeeps ==
  ASSUME EvaluatorInv, NEW p \in Process, Answer(p)
  PROVE  EvaluatorInv'
<1>1. /\ pc[p] = "hash" /\ pc' = [pc EXCEPT ![p] = "answered"]
      /\ \A m \in Wanted(p) : m \in DOMAIN hashes[p] \/ modCache[m] = "absent"
      /\ UNCHANGED <<world, call, key, listing, kept, memo, narCache, hashes>>
  BY DEF Answer, Goto
<1>2. TypeOK'
  BY <1>1 DEF EvaluatorInv, TypeOK, PC, world
<1>3. NarInv'
  BY <1>1 DEF EvaluatorInv, NarInv
<1>4. \A q \in Process \ {p} : own(q)' = own(q)
  BY <1>1 DEF EvaluatorInv, TypeOK, own
<1>5. ProcessInv(p) /\ pc'[p] = "answered"
  BY <1>1 DEF EvaluatorInv, TypeOK
<1>6. Whole(p) /\ DOMAIN hashes[p] \subseteq Wanted(p)
      /\ hashes[p] = [m \in DOMAIN hashes[p] |-> WholeHash(m)]
  BY <1>1, <1>5 DEF ProcessInv, ListingRight, HashesMade
<1>7. DOMAIN hashes[p] = Wanted(p)
  BY <1>1, <1>6 DEF Whole, Available, Wanted
<1>8. MemoRight(p)'
  BY <1>1, <1>5, GoodStaysGood DEF ProcessInv, world
<1>9. ProcessInv(p)'
  BY <1>1, <1>5, <1>6, <1>7, <1>8
     DEF ProcessInv, KeyRight, InCall, ListingRight, HashesMade, Wanted
<1> QED
  BY <1>1, <1>2, <1>3, <1>4, <1>9, OneProcess

LEMMA NextEvaluatorInv == EvaluatorInv /\ [Next]_vars => EvaluatorInv'
  BY RelinkKeeps, EditKeeps, ExtractKeeps, BeginKeeps, MakeKeyKeeps, LookUpKeeps,
     RunGoListKeeps, KeepKeeps, HashKeeps, AnswerKeeps DEF Next

\* Whatever evaluators ask for, wherever paths are made to lead and whatever
\* is edited or downloaded in between: what the memo serves is what go list
\* would print.
THEOREM NothingStaleServed == Spec => []ServedIsCurrent
<1>1. Init => EvaluatorInv
  BY InitEvaluatorInv
<1>2. EvaluatorInv /\ [Next]_vars => EvaluatorInv'
  BY NextEvaluatorInv
<1>3. EvaluatorInv => ServedIsCurrent
  BY EvaluatorInvImplies
<1> QED
  BY <1>1, <1>2, <1>3, PTL DEF Spec

\* The hashes of an answer are those of whole modules, one for each module of
\* the listing, whichever evaluator computed them and whoever was killed.
THEOREM HashesOfWholeModules == Spec => []HashesRight
<1>1. Init => EvaluatorInv
  BY InitEvaluatorInv
<1>2. EvaluatorInv /\ [Next]_vars => EvaluatorInv'
  BY NextEvaluatorInv
<1>3. EvaluatorInv => HashesRight
  BY EvaluatorInvImplies
<1> QED
  BY <1>1, <1>2, <1>3, PTL DEF Spec

-----------------------------------------------------------------------------
(***************************************************************************)
(* What go list prints is closed under the names that records import, and  *)
(* no more than that.                                                      *)
(***************************************************************************)
LEMMA ImageIsFinite ==
  ASSUME NEW S, IsFiniteSet(S), NEW f, DOMAIN f = S
  PROVE  IsFiniteSet({f[x] : x \in S})
<1> DEFINE T == {f[x] : x \in S}
           g == [x \in S |-> f[x]]
<1>1. g \in Surjection(S, T)
  BY DEF Surjection
<1> QED
  BY <1>1, FS_Surjection

\* What the packages S import is a closed set, and the least one that holds S.
LEMMA ImportsFacts ==
  ASSUME NEW t, WellFormed(t), NEW S, S \subseteq DOMAIN t.pkgs
  PROVE  LET R == Reach(S, Imports(t))
         IN  /\ S \subseteq R /\ R \subseteq DOMAIN t.pkgs
             /\ \A p \in R : t.pkgs[p].imports \subseteq R
             /\ \A C : S \subseteq C /\ (\A p \in C \cap DOMAIN t.pkgs : t.pkgs[p].imports \subseteq C)
                         => R \subseteq C
<1> DEFINE R == Reach(S, Imports(t))
           D == DOMAIN t.pkgs
<1>1. /\ DOMAIN Imports(t) = D /\ IsFiniteSet(D)
      /\ \A p \in D : Imports(t)[p] = t.pkgs[p].imports /\ t.pkgs[p].imports \subseteq D
  BY DEF Imports, WellFormed
<1>2. ClosedUnder(D, Imports(t))
  BY <1>1 DEF ClosedUnder
<1>3. /\ S \subseteq R /\ R \subseteq D /\ ClosedUnder(R, Imports(t))
      /\ \A C : S \subseteq C /\ ClosedUnder(C, Imports(t)) => R \subseteq C
  BY <1>1, <1>2, ReachFacts
<1>4. ASSUME NEW C, S \subseteq C, \A p \in C \cap D : t.pkgs[p].imports \subseteq C
      PROVE  R \subseteq C
  <2>1. S \subseteq C \cap D /\ ClosedUnder(C \cap D, Imports(t))
    BY <1>1, <1>4 DEF ClosedUnder
  <2> QED
    BY <1>3, <2>1
<1>5. \A p \in R : t.pkgs[p].imports \subseteq R
  BY <1>1, <1>3 DEF ClosedUnder
<1> QED
  BY <1>3, <1>4, <1>5

\* A set of records holds all of another that its records name.
ClosedIn(C, records) == \A r \in C : \A s \in records : Name(s) \in r.imports => s \in C

\* A walk over records ends in the least closed set that holds its roots.
LEMMA WalkFacts ==
  ASSUME NEW records, IsFiniteSet(records), NEW roots, roots \subseteq records
  PROVE  LET W == WalkFrom(records, roots)
         IN  /\ roots \subseteq W /\ W \subseteq records /\ ClosedIn(W, records)
             /\ \A C : C \subseteq records /\ roots \subseteq C /\ ClosedIn(C, records)
                         => W \subseteq C
<1> DEFINE next == [r \in records |-> {s \in records : Name(s) \in r.imports}]
           W == WalkFrom(records, roots)
<1>1. W = Reach(roots, next) /\ DOMAIN next = records
  BY DEF WalkFrom
<1>2. ClosedUnder(records, next)
  BY DEF ClosedUnder
<1>3. \A C : C \subseteq records => (ClosedUnder(C, next) <=> ClosedIn(C, records))
  BY DEF ClosedUnder, ClosedIn
<1> HIDE DEF next
<1>4. /\ roots \subseteq W /\ W \subseteq records /\ ClosedUnder(W, next)
      /\ \A C : roots \subseteq C /\ ClosedUnder(C, next) => W \subseteq C
  BY <1>1, <1>2, ReachFacts
<1> QED
  BY <1>3, <1>4

\* The records that may be printed, and those of them that may be imported.
Tested(t, P) == {p \in Matched(t, P) : HasTests(t, p)}
Bares(t, P) == {BareRecord(t, P, p) : p \in DOMAIN t.pkgs}
Copies(t, P) == UNION {{CopyRecord(t, P, q, p) : q \in Copied(t, p)} : p \in Tested(t, P)}
Mains(t, P) == {MainRecord(t, p) : p \in Tested(t, P)}
XTests(t, P) == {XTestRecord(t, p) : p \in {q \in Tested(t, P) : t.pkgs[q].xtests}}
Importables(t, P) == Bares(t, P) \cup Copies(t, P) \cup XTests(t, P)
Roots(t, P) == {BareRecord(t, P, p) : p \in Matched(t, P)} \cup Mains(t, P)

\* What a test of p makes copies of is reached by it, and p is if its package has tests.
LEMMA CopiedFacts ==
  ASSUME NEW t, WellFormed(t), NEW p \in DOMAIN t.pkgs
  PROVE  /\ Copied(t, p) \subseteq TestReach(t, p) /\ TestReach(t, p) \subseteq DOMAIN t.pkgs
         /\ t.pkgs[p].tests => p \in Copied(t, p)
         /\ ~t.pkgs[p].tests => Copied(t, p) = {}
<1> DEFINE S == {p} \cup t.pkgs[p].testImports \cup t.pkgs[p].xTestImports
<1>1. S \subseteq DOMAIN t.pkgs /\ {p} \subseteq DOMAIN t.pkgs
  BY DEF WellFormed
<1>2. S \subseteq TestReach(t, p) /\ TestReach(t, p) \subseteq DOMAIN t.pkgs
  BY <1>1, ImportsFacts DEF TestReach
<1>3. p \in Reach({p}, Imports(t))
  BY <1>1, ImportsFacts
<1> QED
  BY <1>2, <1>3 DEF Copied

\* A test main is none of the records that may be imported.
LEMMA MainsApart ==
  ASSUME NEW t, WellFormed(t), NEW P
  PROVE  Mains(t, P) \cap Importables(t, P) = {}
<1> SUFFICES ASSUME NEW p \in Tested(t, P), MainRecord(t, p) \in Importables(t, P)
             PROVE  FALSE
  BY DEF Mains
<1>1. p \in DOMAIN t.pkgs /\ p # NoTest /\ (t.pkgs[p].tests \/ t.pkgs[p].xtests)
  BY DEF Tested, Matched, HasTests, WellFormed, NoTest
<1>2. MainRecord(t, p).for = NoTest
  BY DEF MainRecord
<1>3. \E n \in MainRecord(t, p).imports : n.for = p
  <2> DEFINE itself == IF t.pkgs[p].files \/ t.pkgs[p].tests THEN Renamed(t, p, {p}) ELSE {}
             external == IF t.pkgs[p].xtests THEN {Copy(XTest(p), p)} ELSE {}
  <2>3. MainRecord(t, p).imports = itself \cup external
    BY DEF MainRecord
  <2>4. \A q : Copy(q, p).for = p
    BY DEF Copy
  <2>1. CASE t.pkgs[p].tests
    <3>1. p \in Copied(t, p)
      BY <1>1, <2>1, CopiedFacts
    <3>2. Copy(p, p) \in Renamed(t, p, {p})
      BY <3>1 DEF Renamed
    <3> QED
      BY <2>1, <2>3, <2>4, <3>2
  <2>2. CASE t.pkgs[p].xtests
    BY <2>2, <2>3, <2>4
  <2> QED
    BY <1>1, <2>1, <2>2
<1>4. CASE MainRecord(t, p) \in Bares(t, P)
  <2>1. \A n \in MainRecord(t, p).imports : n.for = NoTest
    BY <1>4 DEF Bares, BareRecord, Bare
  <2> QED
    BY <1>1, <1>3, <2>1
<1>5. \A q \in Tested(t, P) : q # NoTest
  BY DEF Tested, Matched, WellFormed, NoTest
<1>6. CASE MainRecord(t, p) \in Copies(t, P)
  <2>1. \A q, x : CopyRecord(t, P, q, x).for = x
    BY DEF CopyRecord, BareRecord
  <2> QED
    BY <1>2, <1>5, <1>6, <2>1 DEF Copies
<1>7. CASE MainRecord(t, p) \in XTests(t, P)
  BY <1>2, <1>5, <1>7 DEF XTests, XTestRecord
<1> QED
  BY <1>4, <1>6, <1>7 DEF Importables

\* There are finitely many records to walk through.
LEMMA RecordsAreFinite ==
  ASSUME NEW t, WellFormed(t), NEW P
  PROVE  IsFiniteSet(Importables(t, P)) /\ IsFiniteSet(Mains(t, P))
<1>1. IsFiniteSet(DOMAIN t.pkgs)
  BY DEF WellFormed
<1>2. Tested(t, P) \subseteq DOMAIN t.pkgs /\ IsFiniteSet(Tested(t, P))
  BY <1>1, FS_Subset DEF Tested, Matched
<1>3. IsFiniteSet(Bares(t, P))
  <2> DEFINE f == [p \in DOMAIN t.pkgs |-> BareRecord(t, P, p)]
  <2>1. IsFiniteSet({f[p] : p \in DOMAIN t.pkgs})
    BY <1>1, ImageIsFinite
  <2> QED
    BY <2>1 DEF Bares
<1>4. IsFiniteSet(Mains(t, P))
  <2> DEFINE f == [p \in Tested(t, P) |-> MainRecord(t, p)]
  <2>1. IsFiniteSet({f[p] : p \in Tested(t, P)})
    BY <1>2, ImageIsFinite
  <2> QED
    BY <2>1 DEF Mains
<1>5. IsFiniteSet(XTests(t, P))
  <2> DEFINE S == {q \in Tested(t, P) : t.pkgs[q].xtests}
             f == [p \in S |-> XTestRecord(t, p)]
  <2>1. IsFiniteSet(S)
    BY <1>2, FS_Subset
  <2>2. IsFiniteSet({f[p] : p \in S})
    BY <2>1, ImageIsFinite
  <2> QED
    BY <2>2 DEF XTests
<1>6. IsFiniteSet(Copies(t, P))
  <2> DEFINE of(p) == {CopyRecord(t, P, q, p) : q \in Copied(t, p)}
             F == [p \in Tested(t, P) |-> of(p)]
  <2>1. ASSUME NEW p \in Tested(t, P) PROVE IsFiniteSet(of(p))
    <3> DEFINE f == [q \in Copied(t, p) |-> CopyRecord(t, P, q, p)]
    <3>1. IsFiniteSet(Copied(t, p))
      BY <1>1, <1>2, CopiedFacts, FS_Subset
    <3>2. IsFiniteSet({f[q] : q \in Copied(t, p)})
      BY <3>1, ImageIsFinite
    <3> QED
      BY <3>2
  <2>2. IsFiniteSet({F[p] : p \in Tested(t, P)})
    BY <1>2, ImageIsFinite
  <2>3. \A T \in {F[p] : p \in Tested(t, P)} : IsFiniteSet(T)
    BY <2>1
  <2>4. IsFiniteSet(UNION {F[p] : p \in Tested(t, P)})
    BY <2>2, <2>3, FS_UNION
  <2> QED
    BY <2>4 DEF Copies
<1> QED
  BY <1>3, <1>4, <1>5, <1>6, FS_Union DEF Importables

\* What a run prints holds its roots and what they import, and no more.
LEMMA ListTestFacts ==
  ASSUME NEW t, WellFormed(t), NEW P
  PROVE  /\ Roots(t, P) \subseteq ListTest(t, P)
         /\ ListTest(t, P) \subseteq Importables(t, P) \cup Mains(t, P)
         /\ ClosedIn(ListTest(t, P), Importables(t, P))
         /\ IsFiniteSet(ListTest(t, P))
         /\ \A C : /\ C \subseteq Importables(t, P) \cup Mains(t, P) /\ Roots(t, P) \subseteq C
                   /\ ClosedIn(C, Importables(t, P))
                   => ListTest(t, P) \subseteq C
<1> DEFINE N == ListTest(t, P)
           all == Importables(t, P) \cup Mains(t, P)
           records == Bares(t, P) \cup Copies(t, P) \cup Mains(t, P) \cup XTests(t, P)
           next == [r \in records |-> {s \in records \ Mains(t, P) : Name(s) \in r.imports}]
<1>1. N = Reach({r \in Bares(t, P) : r.path \in Matched(t, P)} \cup Mains(t, P), next)
  BY DEF ListTest, Bares, Copies, Mains, XTests, Tested
<1>2. {r \in Bares(t, P) : r.path \in Matched(t, P)} = {BareRecord(t, P, p) : p \in Matched(t, P)}
  BY DEF Bares, BareRecord, Matched
<1>3. N = Reach(Roots(t, P), next)
  BY <1>1, <1>2 DEF Roots
<1>4. records = all /\ records \ Mains(t, P) = Importables(t, P)
  BY MainsApart DEF Importables
<1>5. DOMAIN next = all /\ ClosedUnder(all, next) /\ IsFiniteSet(all)
  BY <1>4, RecordsAreFinite, FS_Union DEF ClosedUnder
<1>6. \A C : C \subseteq all => (ClosedUnder(C, next) <=> ClosedIn(C, Importables(t, P)))
  BY <1>4 DEF ClosedUnder, ClosedIn
<1>7. Roots(t, P) \subseteq all
  BY DEF Roots, Importables, Bares, Matched
<1> HIDE DEF next, all, N
<1>8. /\ Roots(t, P) \subseteq N /\ N \subseteq all /\ ClosedUnder(N, next)
      /\ \A C : Roots(t, P) \subseteq C /\ ClosedUnder(C, next) => N \subseteq C
  BY <1>3, <1>5, <1>7, ReachFacts
<1>9. IsFiniteSet(N)
  BY <1>5, <1>6, <1>8, FS_Subset
<1> QED
  BY <1>6, <1>8, <1>9 DEF all, N

-----------------------------------------------------------------------------
(***************************************************************************)
(* The records of a run over more patterns, narrowed.                      *)
(***************************************************************************)
\* A record with its fields spelled out, so that each can be told from the others.
Row(p, q, mod, imports, testImports, files, hasTests, match, embeds, err) ==
  [path |-> p, for |-> q, mod |-> mod, imports |-> imports, testImports |-> testImports,
   files |-> files, hasTests |-> hasTests, match |-> match, embeds |-> embeds, err |-> err]

Embeds(t, P, p) == t.pkgs[p].testEmbeds /\ p \in Matched(t, P)

\* What the records import.
BareImports(t, p) == {Bare(q) : q \in t.pkgs[p].imports}
TestImports(t, p) == t.pkgs[p].testImports \cup t.pkgs[p].xTestImports
CopyImports(t, q, p) ==
  Renamed(t, p, t.pkgs[q].imports \cup IF q = p THEN t.pkgs[p].testImports ELSE {})
MainImports(t, p) ==
  (IF t.pkgs[p].files \/ t.pkgs[p].tests THEN Renamed(t, p, {p}) ELSE {})
    \cup (IF t.pkgs[p].xtests THEN {Copy(XTest(p), p)} ELSE {})

CopyFiles(t, q, p) == t.pkgs[q].files \/ q = p
CopyErr(t, q, p) ==
  IF q = p /\ t.pkgs[p].testErr # "none" THEN t.pkgs[p].testErr ELSE t.pkgs[q].err

BareRow(t, P, p) ==
  Row(p, NoTest, t.pkgs[p].mod, BareImports(t, p), TestImports(t, p), t.pkgs[p].files,
      HasTests(t, p), Match(t, P, p), Embeds(t, P, p), t.pkgs[p].err)

CopyRow(t, P, q, p) ==
  Row(q, p, t.pkgs[q].mod, CopyImports(t, q, p), TestImports(t, q), CopyFiles(t, q, p),
      HasTests(t, q), Match(t, P, q), Embeds(t, P, q), CopyErr(t, q, p))

XTestRow(t, p) ==
  Row(XTest(p), p, t.pkgs[p].mod, Renamed(t, p, t.pkgs[p].xTestImports), {}, TRUE, FALSE, {}, FALSE,
      t.pkgs[p].xTestErr)

MainRow(t, p) ==
  Row(TestMain(p), NoTest, t.pkgs[p].mod, MainImports(t, p), {}, TRUE, FALSE, {}, FALSE, "none")

LEMMA RecordsAreRows ==
  ASSUME NEW t, WellFormed(t), NEW P
  PROVE  /\ \A p \in DOMAIN t.pkgs : BareRecord(t, P, p) = BareRow(t, P, p)
         /\ \A p, q \in DOMAIN t.pkgs : CopyRecord(t, P, q, p) = CopyRow(t, P, q, p)
         /\ \A p : XTestRecord(t, p) = XTestRow(t, p)
         /\ \A p : MainRecord(t, p) = MainRow(t, p)
<1>1. ASSUME NEW p \in DOMAIN t.pkgs PROVE BareRecord(t, P, p) = BareRow(t, P, p)
  <2>1. Match(t, P, p) # {} <=> p \in Matched(t, P)
    BY DEF Matched
  <2> QED
    BY <2>1 DEF BareRecord, BareRow, Row, Embeds, BareImports, TestImports
<1>2. ASSUME NEW p \in DOMAIN t.pkgs, NEW q \in DOMAIN t.pkgs
      PROVE  CopyRecord(t, P, q, p) = CopyRow(t, P, q, p)
  <2>1. CopyRecord(t, P, q, p) =
          [BareRow(t, P, q) EXCEPT
             !.for = p,
             !.imports = Renamed(t, p, t.pkgs[q].imports
                                       \cup IF q = p THEN t.pkgs[p].testImports ELSE {}),
             !.files = @ \/ q = p,
             !.err = IF q = p /\ t.pkgs[p].testErr # "none" THEN t.pkgs[p].testErr ELSE @]
    BY <1>1 DEF CopyRecord
  <2> QED
    BY <2>1, ZenonT(30) DEF CopyRow, BareRow, Row, CopyImports, CopyFiles, CopyErr
<1>3. \A p : XTestRecord(t, p) = XTestRow(t, p)
  BY DEF XTestRecord, XTestRow, Row
<1>4. \A p : MainRecord(t, p) = MainRow(t, p)
  BY DEF MainRecord, MainRow, Row, MainImports
<1> QED
  BY <1>1, <1>2, <1>3, <1>4

\* Every record is one of the four.
LEMMA EveryRecord ==
  ASSUME NEW t, WellFormed(t), NEW P
  PROVE  /\ \A r \in Importables(t, P) :
              \/ \E p \in DOMAIN t.pkgs : r = BareRow(t, P, p)
              \/ \E p \in Tested(t, P) : \E q \in Copied(t, p) :
                   p \in DOMAIN t.pkgs /\ q \in DOMAIN t.pkgs /\ r = CopyRow(t, P, q, p)
              \/ \E p \in Tested(t, P) :
                   p \in DOMAIN t.pkgs /\ t.pkgs[p].xtests /\ r = XTestRow(t, p)
         /\ \A p \in DOMAIN t.pkgs : BareRow(t, P, p) \in Importables(t, P)
         /\ \A p \in Tested(t, P) : \A q \in Copied(t, p) : CopyRow(t, P, q, p) \in Importables(t, P)
         /\ \A p \in Tested(t, P) : t.pkgs[p].xtests => XTestRow(t, p) \in Importables(t, P)
         /\ Mains(t, P) = {MainRow(t, p) : p \in Tested(t, P)}
         /\ Roots(t, P) = {BareRow(t, P, p) : p \in Matched(t, P)} \cup Mains(t, P)
<1>1. /\ Tested(t, P) \subseteq DOMAIN t.pkgs /\ Matched(t, P) \subseteq DOMAIN t.pkgs
      /\ \A p \in DOMAIN t.pkgs : Copied(t, p) \subseteq DOMAIN t.pkgs
  BY CopiedFacts DEF Tested, Matched
<1>2. \A r \in Importables(t, P) :
              \/ \E p \in DOMAIN t.pkgs : r = BareRow(t, P, p)
              \/ \E p \in Tested(t, P) : \E q \in Copied(t, p) :
                   p \in DOMAIN t.pkgs /\ q \in DOMAIN t.pkgs /\ r = CopyRow(t, P, q, p)
              \/ \E p \in Tested(t, P) :
                   p \in DOMAIN t.pkgs /\ t.pkgs[p].xtests /\ r = XTestRow(t, p)
  BY <1>1, RecordsAreRows DEF Importables, Bares, Copies, XTests
<1>3. \A p \in DOMAIN t.pkgs : BareRow(t, P, p) \in Importables(t, P)
  BY <1>1, RecordsAreRows DEF Importables, Bares
<1>4. \A p \in Tested(t, P) : \A q \in Copied(t, p) : CopyRow(t, P, q, p) \in Importables(t, P)
  BY <1>1, RecordsAreRows DEF Importables, Copies
<1>5. \A p \in Tested(t, P) : t.pkgs[p].xtests => XTestRow(t, p) \in Importables(t, P)
  BY <1>1, RecordsAreRows DEF Importables, XTests
<1>6. Mains(t, P) = {MainRow(t, p) : p \in Tested(t, P)}
  BY <1>1, RecordsAreRows DEF Mains
<1>7. Roots(t, P) = {BareRow(t, P, p) : p \in Matched(t, P)} \cup Mains(t, P)
  BY <1>1, RecordsAreRows DEF Roots
<1> QED
  BY <1>2, <1>3, <1>4, <1>5, <1>6, <1>7

\* Every name a record imports is that of a record.
LEMMA NamesResolve ==
  ASSUME NEW t, WellFormed(t), NEW P, NEW r \in Importables(t, P) \cup Mains(t, P),
         NEW n \in r.imports
  PROVE  \E s \in Importables(t, P) : Name(s) = n
<1>1. ASSUME NEW q \in DOMAIN t.pkgs PROVE \E s \in Importables(t, P) : Name(s) = Bare(q)
  <2>1. Name(BareRow(t, P, q)) = Bare(q)
    BY DEF Row, BareRow, Name, Bare
  <2> QED
    BY <2>1, EveryRecord
<1>2. ASSUME NEW p \in Tested(t, P), NEW q \in Copied(t, p)
      PROVE  \E s \in Importables(t, P) : Name(s) = Copy(q, p)
  <2>1. Name(CopyRow(t, P, q, p)) = Copy(q, p)
    BY DEF Row, CopyRow, Name, Copy
  <2> QED
    BY <2>1, EveryRecord
<1>3. ASSUME NEW p \in Tested(t, P), NEW S, S \subseteq DOMAIN t.pkgs, n \in Renamed(t, p, S)
      PROVE  \E s \in Importables(t, P) : Name(s) = n
  BY <1>1, <1>2, <1>3 DEF Renamed
<1>4. ASSUME NEW p \in Tested(t, P), t.pkgs[p].xtests, n = Copy(XTest(p), p)
      PROVE  \E s \in Importables(t, P) : Name(s) = n
  <2>1. Name(XTestRow(t, p)) = Copy(XTest(p), p)
    BY DEF Row, XTestRow, Name, Copy
  <2> QED
    BY <1>4, <2>1, EveryRecord
<1>5. \A p \in DOMAIN t.pkgs :
        t.pkgs[p].imports \cup t.pkgs[p].testImports \cup t.pkgs[p].xTestImports \subseteq DOMAIN t.pkgs
  BY DEF WellFormed
<1>6. ASSUME NEW p \in DOMAIN t.pkgs, r = BareRow(t, P, p)
      PROVE  \E s \in Importables(t, P) : Name(s) = n
  <2>1. r.imports = {Bare(q) : q \in t.pkgs[p].imports}
    BY <1>6 DEF Row, BareRow, BareImports
  <2> QED
    BY <1>1, <1>5, <2>1
<1>7. ASSUME NEW p \in Tested(t, P), NEW q \in Copied(t, p), p \in DOMAIN t.pkgs,
             q \in DOMAIN t.pkgs, r = CopyRow(t, P, q, p)
      PROVE  \E s \in Importables(t, P) : Name(s) = n
  <2> DEFINE S == t.pkgs[q].imports \cup IF q = p THEN t.pkgs[p].testImports ELSE {}
  <2>1. r.imports = Renamed(t, p, S)
    BY <1>7 DEF Row, CopyRow, CopyImports
  <2>2. S \subseteq DOMAIN t.pkgs
    BY <1>5, <1>7
  <2> HIDE DEF S
  <2> QED
    BY <1>3, <2>1, <2>2
<1>8. ASSUME NEW p \in Tested(t, P), p \in DOMAIN t.pkgs, r = XTestRow(t, p)
      PROVE  \E s \in Importables(t, P) : Name(s) = n
  <2>1. r.imports = Renamed(t, p, t.pkgs[p].xTestImports)
    BY <1>8 DEF Row, XTestRow
  <2> QED
    BY <1>3, <1>5, <1>8, <2>1
<1>9. ASSUME NEW p \in Tested(t, P), r = MainRow(t, p)
      PROVE  \E s \in Importables(t, P) : Name(s) = n
  <2>1. r.imports = (IF t.pkgs[p].files \/ t.pkgs[p].tests THEN Renamed(t, p, {p}) ELSE {})
                      \cup (IF t.pkgs[p].xtests THEN {Copy(XTest(p), p)} ELSE {})
    BY <1>9 DEF Row, MainRow, MainImports
  <2>2. {p} \subseteq DOMAIN t.pkgs
    BY DEF Tested, Matched
  <2> QED
    BY <1>3, <1>4, <2>1, <2>2
<1> QED
  BY <1>6, <1>7, <1>8, <1>9, EveryRecord

\* A record of the wider run and the one it stands for in the narrower.
Narrowed(t, P, s) == Summary([s EXCEPT !.embeds = @ /\ s.path \in Matched(t, P)])

Counterpart(t, P, s, r) ==
  Narrowed(t, P, s) = Summary(r) /\ Name(s) = Name(r) /\ s.imports = r.imports

IsRow(r) ==
  r = Row(r.path, r.for, r.mod, r.imports, r.testImports, r.files, r.hasTests, r.match, r.embeds, r.err)

\* What narrowing does to the fields of a record.
LEMMA NarrowedFacts ==
  ASSUME NEW r, NEW s, IsRow(r), IsRow(s), NEW t, NEW P,
         s.path = r.path, s.for = r.for, s.mod = r.mod, s.imports = r.imports,
         s.testImports = r.testImports, s.files = r.files, s.hasTests = r.hasTests, s.err = r.err,
         r.embeds \in BOOLEAN, r.embeds <=> s.embeds /\ s.path \in Matched(t, P)
  PROVE  Counterpart(t, P, s, r)
<1> DEFINE e == s.embeds /\ s.path \in Matched(t, P)
<1>1. e = r.embeds
  OBVIOUS
<1> HIDE DEF e
<1>2. \A x : /\ IsRow(x)
             => Summary(x) = Row(x.path, x.for, x.mod, x.imports, x.testImports, x.files,
                                 x.hasTests, {}, x.embeds, x.err)
  BY DEF IsRow, Row, Summary
<1>3. [s EXCEPT !.embeds = e]
        = Row(s.path, s.for, s.mod, s.imports, s.testImports, s.files, s.hasTests, s.match, e, s.err)
  BY DEF IsRow, Row
<1> DEFINE x == [s EXCEPT !.embeds = e]
<1>4. /\ x.path = r.path /\ x.for = r.for /\ x.mod = r.mod /\ x.imports = r.imports
      /\ x.testImports = r.testImports /\ x.files = r.files /\ x.hasTests = r.hasTests
      /\ x.err = r.err /\ x.embeds = r.embeds /\ IsRow(x)
  BY <1>1, <1>3 DEF Row, IsRow
<1> HIDE DEF x
<1>5. Summary(x) = Summary(r)
  BY <1>2, <1>4
<1> QED
  BY <1>5 DEF Counterpart, Narrowed, Name, e, x

LEMMA RowsAreRows ==
  ASSUME NEW t, NEW P, NEW p, NEW q
  PROVE  /\ IsRow(BareRow(t, P, p)) /\ IsRow(CopyRow(t, P, q, p))
         /\ IsRow(XTestRow(t, p)) /\ IsRow(MainRow(t, p))
  BY DEF IsRow, BareRow, CopyRow, XTestRow, MainRow, Row

\* Every record of a run has all the fields.
LEMMA ListingRows ==
  ASSUME NEW t, WellFormed(t), NEW P
  PROVE  \A r \in ListTest(t, P) : IsRow(r)
<1> SUFFICES ASSUME NEW r \in ListTest(t, P) PROVE IsRow(r)
  OBVIOUS
<1>1. r \in Importables(t, P) \cup Mains(t, P)
  BY ListTestFacts
<1>2. /\ \A p : IsRow(BareRow(t, P, p)) /\ IsRow(XTestRow(t, p)) /\ IsRow(MainRow(t, p))
      /\ \A p, q : IsRow(CopyRow(t, P, q, p))
  BY RowsAreRows
<1>3. CASE r \in Mains(t, P)
  <2>1. \E p \in Tested(t, P) : r = MainRow(t, p)
    BY <1>3, EveryRecord
  <2> QED
    BY <1>2, <2>1
<1>4. CASE r \in Importables(t, P)
  <2>1. \/ \E p \in DOMAIN t.pkgs : r = BareRow(t, P, p)
        \/ \E p \in Tested(t, P) : \E q \in Copied(t, p) :
             p \in DOMAIN t.pkgs /\ q \in DOMAIN t.pkgs /\ r = CopyRow(t, P, q, p)
        \/ \E p \in Tested(t, P) :
             p \in DOMAIN t.pkgs /\ t.pkgs[p].xtests /\ r = XTestRow(t, p)
    BY <1>4, EveryRecord
  <2> QED
    BY <1>2, <2>1
<1> QED
  BY <1>1, <1>3, <1>4

\* More patterns match more packages.
LEMMA MorePatterns ==
  ASSUME NEW t, NEW Q, NEW P, P \subseteq Q
  PROVE  /\ Matched(t, P) \subseteq Matched(t, Q) /\ Tested(t, P) \subseteq Tested(t, Q)
         /\ \A p : Match(t, Q, p) \cap P = Match(t, P, p)
<1>1. \A p : Match(t, Q, p) \cap P = Match(t, P, p)
  BY DEF Match
<1> QED
  BY <1>1 DEF Matched, Tested

\* Every record that the narrower run may print has a counterpart in the wider.
LEMMA CounterpartFacts ==
  ASSUME NEW t, WellFormed(t), NEW Q, NEW P, P \subseteq Q
  PROVE  /\ \A r \in Importables(t, P) : \E s \in Importables(t, Q) : Counterpart(t, P, s, r)
         /\ \A p \in Matched(t, P) : Counterpart(t, P, BareRow(t, Q, p), BareRow(t, P, p))
         /\ Mains(t, P) \subseteq Mains(t, Q)
         /\ \A r \in Mains(t, P) : Counterpart(t, P, r, r)
<1>1. \A p : (Embeds(t, Q, p) /\ p \in Matched(t, P)) <=> Embeds(t, P, p)
  BY MorePatterns DEF Embeds
<1>2. \A p : Embeds(t, P, p) \in BOOLEAN /\ Embeds(t, Q, p) \in BOOLEAN
  BY DEF Embeds
<1>3. ASSUME NEW p PROVE Counterpart(t, P, BareRow(t, Q, p), BareRow(t, P, p))
  <2> DEFINE r == BareRow(t, P, p)
             s == BareRow(t, Q, p)
  <2>1. /\ s.path = r.path /\ s.for = r.for /\ s.mod = r.mod /\ s.imports = r.imports
        /\ s.testImports = r.testImports /\ s.files = r.files /\ s.hasTests = r.hasTests
        /\ s.err = r.err
        /\ s.path = p /\ r.embeds = Embeds(t, P, p) /\ s.embeds = Embeds(t, Q, p)
    BY DEF BareRow, Row
  <2>2. IsRow(r) /\ IsRow(s)
    BY RowsAreRows
  <2> HIDE DEF r, s
  <2>3. r.embeds \in BOOLEAN /\ (r.embeds <=> s.embeds /\ s.path \in Matched(t, P))
    BY <1>1, <1>2, <2>1
  <2>4. Counterpart(t, P, s, r)
    BY <2>1, <2>2, <2>3, NarrowedFacts
  <2> QED
    BY <2>4 DEF r, s
<1>4. ASSUME NEW p, NEW q PROVE Counterpart(t, P, CopyRow(t, Q, q, p), CopyRow(t, P, q, p))
  <2> DEFINE r == CopyRow(t, P, q, p)
             s == CopyRow(t, Q, q, p)
  <2>1. /\ s.path = r.path /\ s.for = r.for /\ s.mod = r.mod /\ s.imports = r.imports
        /\ s.testImports = r.testImports /\ s.files = r.files /\ s.hasTests = r.hasTests
        /\ s.err = r.err
        /\ s.path = q /\ r.embeds = Embeds(t, P, q) /\ s.embeds = Embeds(t, Q, q)
    BY DEF CopyRow, Row
  <2>2. IsRow(r) /\ IsRow(s)
    BY RowsAreRows
  <2> HIDE DEF r, s
  <2>3. r.embeds \in BOOLEAN /\ (r.embeds <=> s.embeds /\ s.path \in Matched(t, P))
    BY <1>1, <1>2, <2>1
  <2>4. Counterpart(t, P, s, r)
    BY <2>1, <2>2, <2>3, NarrowedFacts
  <2> QED
    BY <2>4 DEF r, s
<1>5. ASSUME NEW r, IsRow(r), r.embeds = FALSE PROVE Counterpart(t, P, r, r)
  <2>1. r.embeds \in BOOLEAN /\ (r.embeds <=> r.embeds /\ r.path \in Matched(t, P))
    BY <1>5
  <2> QED
    BY <1>5, <2>1, NarrowedFacts
<1>6. \A p : Counterpart(t, P, XTestRow(t, p), XTestRow(t, p)) /\ Counterpart(t, P, MainRow(t, p), MainRow(t, p))
  <2>1. \A p : XTestRow(t, p).embeds = FALSE /\ MainRow(t, p).embeds = FALSE
    BY DEF XTestRow, MainRow, Row
  <2> QED
    BY <1>5, <2>1, RowsAreRows
<1>7. Tested(t, P) \subseteq Tested(t, Q)
  BY MorePatterns
<1>8. \A r \in Importables(t, P) : \E s \in Importables(t, Q) : Counterpart(t, P, s, r)
  <2> SUFFICES ASSUME NEW r \in Importables(t, P)
               PROVE  \E s \in Importables(t, Q) : Counterpart(t, P, s, r)
    OBVIOUS
  <2>1. CASE \E p \in DOMAIN t.pkgs : r = BareRow(t, P, p)
    BY <1>3, <2>1, EveryRecord
  <2>2. CASE \E p \in Tested(t, P) : \E q \in Copied(t, p) : r = CopyRow(t, P, q, p)
    BY <1>4, <1>7, <2>2, EveryRecord
  <2>3. CASE \E p \in Tested(t, P) : t.pkgs[p].xtests /\ r = XTestRow(t, p)
    BY <1>6, <1>7, <2>3, EveryRecord
  <2> QED
    BY <2>1, <2>2, <2>3, EveryRecord
<1>9. Mains(t, P) \subseteq Mains(t, Q) /\ \A r \in Mains(t, P) : Counterpart(t, P, r, r)
  BY <1>6, <1>7, EveryRecord
<1> QED
  BY <1>3, <1>8, <1>9

\* If no two records have one name, narrowing succeeds and gives what the
\* narrower run prints.
LEMMA RestrictFacts ==
  ASSUME NEW t, WellFormed(t), NEW Q, NEW P, P \subseteq Q, ~Ambiguous(ListTest(t, Q))
  PROVE  LET narrowed == RestrictToPatterns(ListTest(t, Q), P)
         IN  /\ narrowed.ok
             /\ {Summary(r) : r \in narrowed.records} = {Summary(r) : r \in ListTest(t, P)}
             /\ \A r \in narrowed.records : IsRow(r)
<1> DEFINE W == ListTest(t, Q)
           N == ListTest(t, P)
           matched == {r \in W : IsMatch(r, P)}
           tested == {p \in matched : p.hasTests}
           mains == {r \in W : IsBare(r) /\ r.path \in {TestMain(p.path) : p \in tested}}
           roots == {BareRow(t, Q, p) : p \in Matched(t, P)} \cup Mains(t, P)
           reached == WalkFrom(W, matched \cup mains)
<1>0. /\ Roots(t, Q) \subseteq W /\ W \subseteq Importables(t, Q) \cup Mains(t, Q)
      /\ ClosedIn(W, Importables(t, Q)) /\ IsFiniteSet(W)
  BY ListTestFacts
<1>1. /\ Roots(t, P) \subseteq N /\ N \subseteq Importables(t, P) \cup Mains(t, P)
      /\ ClosedIn(N, Importables(t, P))
  BY ListTestFacts
<1>17. ASSUME NEW C, C \subseteq Importables(t, P) \cup Mains(t, P), Roots(t, P) \subseteq C,
              ClosedIn(C, Importables(t, P))
       PROVE  N \subseteq C
  BY <1>17, ListTestFacts
<1>18. \A p : Match(t, Q, p) \cap P = Match(t, P, p)
  BY MorePatterns, ZenonT(30)
<1>2. \A r, s \in W : Name(r) = Name(s) => r = s
  BY DEF Ambiguous
<1> HIDE DEF W, N
<1>3. matched = {BareRow(t, Q, p) : p \in Matched(t, P)}
  <2>1. ASSUME NEW p \in Matched(t, P) PROVE BareRow(t, Q, p) \in matched
    <3>1. BareRow(t, Q, p) \in W
      BY <1>0, MorePatterns, EveryRecord
    <3>2. BareRow(t, Q, p).for = NoTest /\ BareRow(t, Q, p).match = Match(t, Q, p)
      BY DEF BareRow, Row
    <3>3. Match(t, Q, p) \cap P # {}
      <4>1. Match(t, P, p) # {}
        BY DEF Matched
      <4> QED
        BY <1>18, <4>1
    <3> QED
      BY <3>1, <3>2, <3>3 DEF IsMatch, IsBare
  <2>2. ASSUME NEW r \in matched PROVE \E p \in Matched(t, P) : r = BareRow(t, Q, p)
    <3>1. r.for = NoTest /\ r.match \cap P # {} /\ r \in Importables(t, Q) \cup Mains(t, Q)
      BY <1>0 DEF IsMatch, IsBare
    <3>2. CASE \E p \in DOMAIN t.pkgs : r = BareRow(t, Q, p)
      <4>1. PICK p \in DOMAIN t.pkgs : r = BareRow(t, Q, p)
        BY <3>2
      <4>2. r.match = Match(t, Q, p)
        BY <4>1 DEF BareRow, Row
      <4>3. Match(t, P, p) # {}
        BY <1>18, <3>1, <4>2
      <4>4. p \in Matched(t, P)
        BY <4>3 DEF Matched
      <4> QED
        BY <4>1, <4>4
    <3>3. ASSUME NEW p \in Tested(t, Q), NEW q, r = CopyRow(t, Q, q, p) PROVE FALSE
      <4>1. r.for = p /\ p # NoTest
        BY <3>3 DEF CopyRow, Row, Tested, Matched, WellFormed, NoTest
      <4> QED
        BY <3>1, <4>1
    <3>4. ASSUME NEW p, r = XTestRow(t, p) \/ r = MainRow(t, p) PROVE FALSE
      <4>1. r.match = {}
        BY <3>4 DEF XTestRow, MainRow, Row
      <4> QED
        BY <3>1, <4>1
    <3> QED
      BY <3>1, <3>2, <3>3, <3>4, EveryRecord
  <2> QED
    BY <2>1, <2>2
<1>4. /\ \A p : BareRow(t, Q, p).path = p /\ BareRow(t, Q, p).hasTests = HasTests(t, p)
      /\ \A p : MainRow(t, p).path = TestMain(p) /\ MainRow(t, p).for = NoTest
  BY DEF BareRow, MainRow, Row
<1>5. Paths(matched) = Matched(t, P)
  BY <1>3, <1>4 DEF Paths
<1>6. {p.path : p \in tested} = Tested(t, P)
  BY <1>3, <1>4 DEF Tested
<1>7. Mains(t, P) \subseteq W
  BY <1>0, CounterpartFacts DEF Roots
<1>8. mains = Mains(t, P)
  <2>1. \A p \in Tested(t, P) : MainRow(t, p) \in mains
    BY <1>4, <1>6, <1>7, EveryRecord DEF IsBare
  <2>2. ASSUME NEW r \in mains PROVE \E p \in Tested(t, P) : r = MainRow(t, p)
    <3>1. PICK p \in Tested(t, P) : r.path = TestMain(p)
      BY <1>6
    <3>2. Name(r) = Name(MainRow(t, p)) /\ MainRow(t, p) \in W
      BY <1>4, <1>7, <3>1, EveryRecord DEF IsBare, Name
    <3> QED
      BY <1>2, <3>2
  <2> QED
    BY <2>1, <2>2, EveryRecord
<1>9. \A p \in tested : TestMain(p.path) \in Paths(mains)
  <2>1. \A q \in Tested(t, P) : MainRow(t, q) \in mains /\ MainRow(t, q).path = TestMain(q)
    BY <1>4, <1>8, EveryRecord
  <2>2. \A q \in Tested(t, P) : TestMain(q) \in Paths(mains)
    BY <2>1 DEF Paths
  <2>3. \A p \in tested : p.path \in Tested(t, P)
    BY <1>6
  <2> HIDE DEF mains, tested
  <2> QED
    BY <2>2, <2>3
<1>10. matched \cup mains = roots
  BY <1>3, <1>8
<1> HIDE DEF matched, mains, tested
<1>11. LET narrowed == RestrictToPatterns(W, P)
       IN  /\ narrowed.ok
           /\ narrowed.records = {[r EXCEPT !.embeds = @ /\ r.path \in Matched(t, P)] : r \in reached}
  <2>1. ~Ambiguous(W) /\ ~\E p \in tested : TestMain(p.path) \notin Paths(mains)
    BY <1>9 DEF W
  <2>2. RestrictToPatterns(W, P) =
          [ok |-> TRUE,
           records |-> {[r EXCEPT !.embeds = @ /\ r.path \in Paths(matched)] : r \in reached}]
    BY <2>1 DEF RestrictToPatterns, matched, mains, tested
  <2> QED
    BY <1>5, <2>2
<1>12. roots \subseteq W
  BY <1>10 DEF matched, mains
<1>13. /\ roots \subseteq reached /\ reached \subseteq W /\ ClosedIn(reached, W)
       /\ \A C : C \subseteq W /\ roots \subseteq C /\ ClosedIn(C, W) => reached \subseteq C
  BY <1>0, <1>10, <1>12, WalkFacts
<1> HIDE DEF reached, roots
<1>14. \A r \in N : \E s \in reached : Counterpart(t, P, s, r)
  <2> DEFINE C == {r \in Importables(t, P) \cup Mains(t, P) :
                     \E s \in reached : Counterpart(t, P, s, r)}
  <2>1. Roots(t, P) \subseteq C
    <3>1. \A p \in Matched(t, P) : Counterpart(t, P, BareRow(t, Q, p), BareRow(t, P, p))
      BY CounterpartFacts
    <3>2. \A r \in Mains(t, P) : Counterpart(t, P, r, r)
      BY CounterpartFacts
    <3>3. Roots(t, P) = {BareRow(t, P, p) : p \in Matched(t, P)} \cup Mains(t, P)
      BY EveryRecord
    <3>4. Roots(t, P) \subseteq Importables(t, P) \cup Mains(t, P)
      BY <1>1
    <3> QED
      BY <1>13, <3>1, <3>2, <3>3, <3>4 DEF roots
  <2>2. ClosedIn(C, Importables(t, P))
    <3> SUFFICES ASSUME NEW r \in C, NEW x \in Importables(t, P), Name(x) \in r.imports
                 PROVE  x \in C
      BY DEF ClosedIn
    <3>1. PICK s \in reached : Counterpart(t, P, s, r)
      OBVIOUS
    <3>2. PICK y \in Importables(t, Q) : Counterpart(t, P, y, x)
      BY CounterpartFacts
    <3>3. Name(y) \in s.imports
      BY <3>1, <3>2 DEF Counterpart
    <3>4. y \in W
      BY <1>0, <1>13, <3>3 DEF ClosedIn
    <3>5. y \in reached
      BY <1>13, <3>3, <3>4 DEF ClosedIn
    <3> QED
      BY <3>2, <3>5
  <2> QED
    BY <1>17, <2>1, <2>2
<1>15. \A s \in reached : \E r \in N : Counterpart(t, P, s, r)
  <2> DEFINE C == {s \in W : \E r \in N : Counterpart(t, P, s, r)}
  <2>1. roots \subseteq C
    <3>1. \A p \in Matched(t, P) : Counterpart(t, P, BareRow(t, Q, p), BareRow(t, P, p))
      BY CounterpartFacts
    <3>2. \A r \in Mains(t, P) : Counterpart(t, P, r, r)
      BY CounterpartFacts
    <3>3. Roots(t, P) = {BareRow(t, P, p) : p \in Matched(t, P)} \cup Mains(t, P)
      BY EveryRecord
    <3> QED
      BY <1>1, <1>12, <3>1, <3>2, <3>3 DEF roots
  <2>2. ClosedIn(C, W)
    <3> SUFFICES ASSUME NEW s \in C, NEW y \in W, Name(y) \in s.imports
                 PROVE  y \in C
      BY DEF ClosedIn
    <3>1. PICK r \in N : Counterpart(t, P, s, r)
      OBVIOUS
    <3>2. PICK x \in Importables(t, P) : Name(x) = Name(y)
      BY <1>1, <3>1, NamesResolve DEF Counterpart
    <3>3. x \in N
      BY <1>1, <3>1, <3>2 DEF ClosedIn, Counterpart
    <3>4. PICK z \in Importables(t, Q) : Counterpart(t, P, z, x)
      BY CounterpartFacts
    <3>5. Name(z) = Name(y)
      BY <3>2, <3>4 DEF Counterpart
    <3>6. z \in W
      BY <1>0, <3>5 DEF ClosedIn
    <3>7. z = y
      BY <1>2, <3>5, <3>6
    <3> QED
      BY <3>3, <3>4, <3>7
  <2> QED
    BY <1>13, <2>1, <2>2
<1>16. {Summary(r) : r \in {[r EXCEPT !.embeds = @ /\ r.path \in Matched(t, P)] : r \in reached}}
         = {Summary(r) : r \in N}
  <2>1. {Summary(r) : r \in {[r EXCEPT !.embeds = @ /\ r.path \in Matched(t, P)] : r \in reached}}
          = {Narrowed(t, P, s) : s \in reached}
    BY DEF Narrowed
  <2>2. {Narrowed(t, P, s) : s \in reached} = {Summary(r) : r \in N}
    BY <1>14, <1>15 DEF Counterpart
  <2> QED
    BY <2>1, <2>2
<1>19. \A r \in {[r EXCEPT !.embeds = @ /\ r.path \in Matched(t, P)] : r \in reached} : IsRow(r)
  <2>1. \A r \in reached : IsRow(r)
    BY <1>13, ListingRows DEF W
  <2>2. \A r, e : IsRow(r) => IsRow([r EXCEPT !.embeds = e])
    BY DEF IsRow, Row
  <2> QED
    BY <2>1, <2>2
<1> QED
  BY <1>11, <1>16, <1>19 DEF W, N

-----------------------------------------------------------------------------
(***************************************************************************)
(* The test pass depends only on which packages have a record it keeps.    *)
(***************************************************************************)
\* The records the test pass takes its packages from.
Kept(records) ==
  {r \in records : /\ r.err = "none" \/ Supplied(r, Owner(r))
                   /\ ~IsTestMain(r) /\ ~IsVariantOfTested(r)}
KeptPaths(records) == Paths(Kept(records))
BarePaths(records) == {r.path : r \in {s \in Kept(records) : s.for = NoTest}}
EmbedErrors(records) == {Owner(r) : r \in {s \in records : Supplied(s, Owner(s))}}

\* A kept record says of its package what the tree does.
TrueTo(r, P) ==
  LET p == r.path
      k == tree.pkgs[p]
  IN  /\ p \in DOMAIN tree.pkgs /\ r.mod = k.mod /\ ImportPaths(r) = k.imports
      /\ r.testImports = TestImports(tree, p) /\ r.files = k.files
      /\ r.embeds = Embeds(tree, P, p)

Regular(records, P) == \A r \in Kept(records) : TrueTo(r, P)

\* A test main is told by its name.
LEMMA TestMainEnds ==
  ASSUME NEW t, WellFormed(t), NEW p \in DOMAIN t.pkgs
  PROVE  Last(TestMain(p)) = ".test"
<1>1. p \in Seq(STRING)
  BY DEF WellFormed
<1> DEFINE S == STRING \cup {".test"}
<1>2. p \in Seq(S) /\ ".test" \in S
  BY <1>1
<1> HIDE DEF S
<1>3. Append(p, ".test")[Len(Append(p, ".test"))] = ".test"
  BY <1>2
<1> QED
  BY <1>3 DEF Last, TestMain

\* The import paths of a package as it is.
LEMMA BareNames ==
  ASSUME NEW S
  PROVE  {n.path : n \in {Bare(q) : q \in S}} = S
<1>1. \A q : Bare(q).path = q
  BY DEF Bare
<1> QED
  BY <1>1

\* Renaming imports to copies does not change the paths.
LEMMA RenamedPaths ==
  ASSUME NEW t, NEW p, NEW S
  PROVE  {n.path : n \in Renamed(t, p, S)} = S
<1> DEFINE name(q) == IF q \in Copied(t, p) THEN Copy(q, p) ELSE Bare(q)
<1>1. \A q : name(q).path = q
  BY DEF Bare, Copy
<1>2. Renamed(t, p, S) = {name(q) : q \in S}
  BY DEF Renamed
<1> HIDE DEF name
<1> QED
  BY <1>1, <1>2

\* So does every kept record of a run.
LEMMA ListingIsRegular ==
  ASSUME WellFormed(tree), NEW P
  PROVE  Regular(ListTest(tree, P), P)
<1> SUFFICES ASSUME NEW r \in Kept(ListTest(tree, P)) PROVE TrueTo(r, P)
  BY DEF Regular
<1>1. r \in Importables(tree, P) \cup Mains(tree, P) /\ ~IsTestMain(r) /\ ~IsVariantOfTested(r)
  BY ListTestFacts DEF Kept
<1>2. CASE \E p \in DOMAIN tree.pkgs : r = BareRow(tree, P, p)
  <2>1. PICK p \in DOMAIN tree.pkgs : r = BareRow(tree, P, p)
    BY <1>2
  <2>2. /\ r.path = p /\ r.mod = tree.pkgs[p].mod /\ r.imports = BareImports(tree, p)
        /\ r.testImports = TestImports(tree, p) /\ r.files = tree.pkgs[p].files
        /\ r.embeds = Embeds(tree, P, p)
    BY <2>1 DEF BareRow, Row
  <2>3. {n.path : n \in BareImports(tree, p)} = tree.pkgs[p].imports
    BY BareNames DEF BareImports
  <2> QED
    BY <2>2, <2>3 DEF TrueTo, ImportPaths
<1>3. CASE \E p \in Tested(tree, P) : \E q \in Copied(tree, p) :
             p \in DOMAIN tree.pkgs /\ q \in DOMAIN tree.pkgs /\ r = CopyRow(tree, P, q, p)
  <2>0. PICK p \in Tested(tree, P) : \E q \in Copied(tree, p) :
          p \in DOMAIN tree.pkgs /\ q \in DOMAIN tree.pkgs /\ r = CopyRow(tree, P, q, p)
    BY <1>3
  <2>1. PICK q \in Copied(tree, p) :
          p \in DOMAIN tree.pkgs /\ q \in DOMAIN tree.pkgs /\ r = CopyRow(tree, P, q, p)
    BY <2>0
  <2>2. /\ r.path = q /\ r.for = p /\ r.mod = tree.pkgs[q].mod /\ r.imports = CopyImports(tree, q, p)
        /\ r.testImports = TestImports(tree, q) /\ r.files = CopyFiles(tree, q, p)
        /\ r.embeds = Embeds(tree, P, q)
    BY <2>1 DEF CopyRow, Row
  <2>3. q # p
    BY <1>1, <2>1, <2>2 DEF IsVariantOfTested, WellFormed, NoTest
  <2>4. CopyImports(tree, q, p) = Renamed(tree, p, tree.pkgs[q].imports)
    BY <2>3 DEF CopyImports
  <2>5. {n.path : n \in Renamed(tree, p, tree.pkgs[q].imports)} = tree.pkgs[q].imports
    BY RenamedPaths
  <2>6. CopyFiles(tree, q, p) = tree.pkgs[q].files
    BY <2>1, <2>3 DEF CopyFiles, WellFormed
  <2> QED
    BY <2>1, <2>2, <2>4, <2>5, <2>6 DEF TrueTo, ImportPaths
<1>4. ASSUME NEW p \in Tested(tree, P), p \in DOMAIN tree.pkgs, r = XTestRow(tree, p) PROVE FALSE
  <2>1. r.path = XTest(p) /\ r.for = p
    BY <1>4 DEF XTestRow, Row
  <2> QED
    BY <1>1, <1>4, <2>1 DEF IsVariantOfTested, WellFormed, NoTest
<1>5. ASSUME NEW p \in Tested(tree, P), r = MainRow(tree, p) PROVE FALSE
  <2>1. r.path = TestMain(p) /\ p \in DOMAIN tree.pkgs
    BY <1>5 DEF MainRow, Row, Tested, Matched
  <2> QED
    BY <1>1, <2>1, TestMainEnds DEF IsTestMain
<1> QED
  BY <1>1, <1>2, <1>3, <1>4, <1>5, EveryRecord

\* The first of each path is of that path, and the bare one where there is one.
LEMMA FirstOfEachFacts ==
  ASSUME NEW S
  PROVE  /\ FirstOfEach(S) \subseteq S
         /\ Paths(FirstOfEach(S)) = Paths(S)
         /\ \A r \in FirstOfEach(S) : (\E s \in S : s.path = r.path /\ s.for = NoTest) => r.for = NoTest
<1> DEFINE bare == {r \in S : r.for = NoTest}
           first(p) == IF p \in Paths(bare) THEN CHOOSE r \in bare : r.path = p
                       ELSE CHOOSE r \in S : r.path = p
<1>1. ASSUME NEW p \in Paths(S)
      PROVE  /\ first(p) \in S /\ first(p).path = p
             /\ p \in Paths(bare) => first(p) \in bare
  <2>1. CASE p \in Paths(bare)
    <3>1. \E r \in bare : r.path = p
      BY <2>1 DEF Paths
    <3> QED
      BY <2>1, <3>1
  <2>2. CASE p \notin Paths(bare)
    <3>1. \E r \in S : r.path = p
      BY DEF Paths
    <3> QED
      BY <2>2, <3>1
  <2> QED
    BY <2>1, <2>2
<1>2. FirstOfEach(S) = {first(p) : p \in Paths(S)}
  BY DEF FirstOfEach
<1>3. \A s \in S : s.for = NoTest => s.path \in Paths(bare) /\ s.path \in Paths(S)
  BY DEF Paths
<1> HIDE DEF first
<1>4. FirstOfEach(S) \subseteq S
  BY <1>1, <1>2
<1>5. Paths(FirstOfEach(S)) = Paths(S)
  BY <1>1, <1>2 DEF Paths
<1>6. ASSUME NEW r \in FirstOfEach(S), NEW s \in S, s.path = r.path, s.for = NoTest
      PROVE  r.for = NoTest
  <2>1. PICK p \in Paths(S) : r = first(p)
    BY <1>2
  <2>2. p \in Paths(bare)
    BY <1>1, <1>3, <1>6, <2>1
  <2> QED
    BY <1>1, <2>1, <2>2
<1> QED
  BY <1>4, <1>5, <1>6

\* The test pass, by paths: K have a kept record, B a bare one, X an error; L and
\* T are the local and third-party packages of the build graph.
NewLocal(K, L) == {p \in K : IsLocal(tree.pkgs[p])} \ L
NewThird(K, T) == {p \in K : IsThirdParty(tree.pkgs[p])} \ T
LocalBare(B) == {p \in B : IsLocal(tree.pkgs[p])}

PathLeadsTo(p, K, B, L, T) ==
  IF p \in NewThird(K, T) THEN tree.pkgs[p].imports
  ELSE IF p \in NewLocal(K, L)
       THEN tree.pkgs[p].imports \cup (IF p \in LocalBare(B) THEN TestImports(tree, p) ELSE {})
       ELSE {}

Seeds(B, L) == UNION {TestImports(tree, p) : p \in LocalBare(B) \cap L}
Considered(K, B, L, T) ==
  Seeds(B, L) \cup (LocalBare(B) \cup NewLocal(K, L) \cup NewThird(K, T))
    \cup UNION {tree.pkgs[p].imports \cup TestImports(tree, p) :
                  p \in LocalBare(B) \cup NewLocal(K, L) \cup NewThird(K, T)}
Found(K, B, L, T) ==
  Reach(Seeds(B, L), [p \in Considered(K, B, L, T) |-> PathLeadsTo(p, K, B, L, T)])

\* What the graph says of a package, taken from the tree.
PackageRow(p) == [path |-> p, mod |-> tree.pkgs[p].mod, imports |-> tree.pkgs[p].imports]
LocalRow(p, locals, third, embeds, unresolved) ==
  [path |-> p, mod |-> tree.pkgs[p].mod,
   localImports |-> tree.pkgs[p].imports \cap locals,
   thirdPartyImports |-> (tree.pkgs[p].imports \ locals) \cap third,
   embeds |-> embeds, unresolved |-> unresolved]

ClassifyPaths(K, B, X, P, L, T) ==
  LET known == L \cup NewLocal(K, L)
      third == T \cup NewThird(K, T)
  IN  [ok |-> TRUE,
       testPackages |-> {PackageRow(p) : p \in NewThird(K, T)},
       testLocal |-> {LocalRow(p, known, third, Embeds(tree, P, p), p \in X) :
                        p \in {q \in NewLocal(K, L) : /\ tree.pkgs[q].files
                                                      /\ q \in Found(K, B, L, T)}},
       replacements |-> {tree.pkgs[p].mod : p \in {q \in NewThird(K, T) :
                                                     Kind(tree.pkgs[q].mod) = "fork"}},
       embeds |-> {p \in K : IsLocal(tree.pkgs[p]) /\ Embeds(tree, P, p)} \cap L,
       unresolved |-> X \cap L]

\* What is taken of a record that is true to the tree.
LEMMA TrueRows ==
  ASSUME NEW r, NEW P, TrueTo(r, P)
  PROVE  /\ ThirdPartyData(r) = PackageRow(r.path)
         /\ \A locals, third, u :
              LocalData(r, locals, third, u) = LocalRow(r.path, locals, third, Embeds(tree, P, r.path), u)
         /\ IsLocal(r) <=> IsLocal(tree.pkgs[r.path])
         /\ IsThirdParty(r) <=> IsThirdParty(tree.pkgs[r.path])
  BY DEF TrueTo, ThirdPartyData, PackageRow, LocalData, LocalRow, IsLocal, IsThirdParty

\* The test pass, by paths, is the test pass.
LEMMA ClassifyTestFacts ==
  ASSUME NEW records, NEW P, Regular(records, P), NEW g, ~\E r \in records : TestError(r, g)
  PROVE  ClassifyTest(records, g) =
           ClassifyPaths(KeptPaths(records), BarePaths(records), EmbedErrors(records), P,
                         Paths(g.local), Paths(g.packages))
<1> DEFINE keep     == Kept(records)
           K        == KeptPaths(records)
           B        == BarePaths(records)
           X        == EmbedErrors(records)
           L        == Paths(g.local)
           T        == Paths(g.packages)
           locals   == {r \in keep : IsLocal(r)}
           tested   == {r \in locals : r.for = NoTest}
           isNew    == {r \in locals : r.path \notin Paths(g.local)}
           newLocal == FirstOfEach(isNew)
           rawLocal == {r \in newLocal : r.files}
           thirdNew == {r \in keep : IsThirdParty(r) /\ r.path \notin Paths(g.packages)}
           newThird == FirstOfEach(thirdNew)
           reached  == TestReachable(g, tested, newLocal, newThird)
           known    == Paths(g.local) \cup Paths(newLocal)
           third    == Paths(g.packages) \cup Paths(newThird)
<1>1. \A r \in keep : TrueTo(r, P)
  BY DEF Regular
<1>2. /\ \A r \in keep : IsLocal(r) <=> IsLocal(tree.pkgs[r.path])
      /\ \A r \in keep : IsThirdParty(r) <=> IsThirdParty(tree.pkgs[r.path])
  BY <1>1, TrueRows
<1>3. Paths(newLocal) = NewLocal(K, L) /\ newLocal \subseteq keep
  <2>1. Paths(isNew) = NewLocal(K, L)
    BY <1>2 DEF NewLocal, KeptPaths, Paths
  <2>2. Paths(newLocal) = Paths(isNew) /\ newLocal \subseteq isNew
    BY FirstOfEachFacts
  <2> QED
    BY <2>1, <2>2
<1>4. Paths(newThird) = NewThird(K, T) /\ newThird \subseteq keep
  <2>1. Paths(thirdNew) = NewThird(K, T)
    BY <1>2 DEF NewThird, KeptPaths, Paths
  <2>2. Paths(newThird) = Paths(thirdNew) /\ newThird \subseteq thirdNew
    BY FirstOfEachFacts
  <2> QED
    BY <2>1, <2>2
<1>5. Paths(tested) = LocalBare(B) /\ tested \subseteq keep
  BY <1>2 DEF LocalBare, BarePaths, Paths
<1>6. ClassifyTest(records, g) =
        [ok |-> TRUE,
         testPackages |-> {ThirdPartyData(r) : r \in newThird},
         testLocal |-> {LocalData(r, known, third, r.path \in X) :
                          r \in {s \in rawLocal : s.path \in reached}},
         replacements |-> {r.mod : r \in {s \in newThird : Kind(s.mod) = "fork"}},
         embeds |-> {r.path : r \in {s \in locals : s.embeds}} \cap L,
         unresolved |-> X \cap L]
  BY DEF ClassifyTest, Kept, EmbedErrors
<1> HIDE DEF tested, newLocal, newThird, keep
<1>7. /\ \A S \in SUBSET keep : \A p \in Paths(S) : ImportsOf(p, S) = tree.pkgs[p].imports
      /\ \A S \in SUBSET keep : \A p \in Paths(S) : TestImportsOf(p, S) = TestImports(tree, p)
  BY <1>1 DEF ImportsOf, TestImportsOf, Paths, TrueTo
<1>8. \A S, p : p \notin Paths(S) => TestImportsOf(p, S) = {}
  BY DEF TestImportsOf, Paths
<1>9. \A p : LeadsTo(p, tested, newLocal, newThird) = PathLeadsTo(p, K, B, L, T)
  BY <1>3, <1>4, <1>5, <1>7, <1>8 DEF LeadsTo, PathLeadsTo
<1>10. UNION {TestImportsOf(p, tested) : p \in L} = Seeds(B, L)
  BY <1>5, <1>7, <1>8 DEF Seeds
<1>11. reached = Found(K, B, L, T)
  <2> DEFINE all == Seeds(B, L) \cup Paths(tested \cup newLocal \cup newThird)
                     \cup UNION {ImportPaths(r) \cup r.testImports : r \in tested \cup newLocal \cup newThird}
  <2>1. Paths(tested \cup newLocal \cup newThird) = LocalBare(B) \cup NewLocal(K, L) \cup NewThird(K, T)
    BY <1>3, <1>4, <1>5 DEF Paths
  <2>2. \A r \in tested \cup newLocal \cup newThird :
          /\ ImportPaths(r) = tree.pkgs[r.path].imports
          /\ r.testImports = TestImports(tree, r.path)
    BY <1>1, <1>3, <1>4, <1>5 DEF TrueTo
  <2>3. UNION {ImportPaths(r) \cup r.testImports : r \in tested \cup newLocal \cup newThird}
          = UNION {tree.pkgs[p].imports \cup TestImports(tree, p) :
                     p \in Paths(tested \cup newLocal \cup newThird)}
    BY <2>2 DEF Paths
  <2>4. all = Considered(K, B, L, T)
    BY <2>1, <2>3 DEF Considered
  <2>5. reached = Reach(Seeds(B, L), [p \in all |-> LeadsTo(p, tested, newLocal, newThird)])
    BY <1>10 DEF TestReachable
  <2>6. [p \in all |-> LeadsTo(p, tested, newLocal, newThird)]
          = [p \in Considered(K, B, L, T) |-> PathLeadsTo(p, K, B, L, T)]
    BY <1>9, <2>4
  <2> QED
    BY <2>5, <2>6 DEF Found
<1> HIDE DEF reached
<1>12. {ThirdPartyData(r) : r \in newThird} = {PackageRow(p) : p \in NewThird(K, T)}
  BY <1>1, <1>4, TrueRows DEF Paths
<1>13. {LocalData(r, known, third, r.path \in X) : r \in {s \in rawLocal : s.path \in reached}}
         = {LocalRow(p, L \cup NewLocal(K, L), T \cup NewThird(K, T),
                     Embeds(tree, P, p), p \in X) :
              p \in {q \in NewLocal(K, L) : tree.pkgs[q].files /\ q \in Found(K, B, L, T)}}
  <2>1. {s \in rawLocal : s.path \in reached}
          = {s \in newLocal : tree.pkgs[s.path].files /\ s.path \in Found(K, B, L, T)}
    BY <1>1, <1>3, <1>11 DEF TrueTo
  <2>2. \A r \in newLocal : LocalData(r, known, third, r.path \in X)
                              = LocalRow(r.path, known, third, Embeds(tree, P, r.path), r.path \in X)
    BY <1>1, <1>3, TrueRows
  <2> DEFINE row(p) == LocalRow(p, known, third, Embeds(tree, P, p), p \in X)
             found(p) == tree.pkgs[p].files /\ p \in Found(K, B, L, T)
  <2>3. {LocalData(r, known, third, r.path \in X) : r \in {s \in rawLocal : s.path \in reached}}
          = {row(r.path) : r \in {s \in newLocal : found(s.path)}}
    BY <2>1, <2>2
  <2> HIDE DEF row, found
  <2>4. {row(r.path) : r \in {s \in newLocal : found(s.path)}}
          = {row(p) : p \in {q \in Paths(newLocal) : found(q)}}
    BY DEF Paths
  <2> QED
    BY <1>3, <1>4, <2>3, <2>4 DEF row, found
<1>14. {r.mod : r \in {s \in newThird : Kind(s.mod) = "fork"}}
         = {tree.pkgs[p].mod : p \in {q \in NewThird(K, T) : Kind(tree.pkgs[q].mod) = "fork"}}
  <2> DEFINE mod(p) == tree.pkgs[p].mod
             fork(p) == Kind(tree.pkgs[p].mod) = "fork"
  <2>1. \A r \in newThird : r.mod = mod(r.path) /\ (Kind(r.mod) = "fork" <=> fork(r.path))
    BY <1>1, <1>4 DEF TrueTo
  <2> HIDE DEF mod, fork
  <2>2. {r.mod : r \in {s \in newThird : Kind(s.mod) = "fork"}}
          = {mod(p) : p \in {q \in Paths(newThird) : fork(q)}}
    BY <2>1 DEF Paths
  <2> QED
    BY <1>4, <2>2 DEF mod, fork
<1>15. {r.path : r \in {s \in locals : s.embeds}}
         = {p \in K : IsLocal(tree.pkgs[p]) /\ Embeds(tree, P, p)}
  BY <1>1, <1>2 DEF TrueTo, KeptPaths, Paths, keep
<1> QED
  BY <1>6, <1>12, <1>13, <1>14, <1>15 DEF ClassifyPaths

-----------------------------------------------------------------------------
(***************************************************************************)
(* The build pass, and the same graph from the wider run.                  *)
(***************************************************************************)
\* What the build lists.
BuildPaths == Reach(subPackages, Imports(tree))
BuildLocal == {p \in BuildPaths : IsLocal(tree.pkgs[p])}
BuildThird == {p \in BuildPaths : IsThirdParty(tree.pkgs[p])}

\* A graph with its fields spelled out.
GraphOf(ok, packages, local, siblings, replacements, testPackages, testLocal) ==
  [ok |-> ok, packages |-> packages, local |-> local, siblings |-> siblings,
   replacements |-> replacements, testPackages |-> testPackages, testLocal |-> testLocal]
GraphRow(packages, local, siblings, replacements, testPackages, testLocal) ==
  GraphOf(TRUE, packages, local, siblings, replacements, testPackages, testLocal)

\* The local packages of the graph, of which those of embeds and unresolved
\* are marked.
LocalRows(embeds, unresolved) ==
  {LocalRow(p, BuildLocal, BuildThird, p \in embeds, p \in unresolved) : p \in BuildLocal}
PackageRows == {PackageRow(p) : p \in BuildThird}
Siblings == {tree.pkgs[p].mod : p \in {q \in BuildLocal : Kind(tree.pkgs[q].mod) = "dir"}}
Replacements == {tree.pkgs[p].mod : p \in {q \in BuildThird : Kind(tree.pkgs[q].mod) = "fork"}}
Unresolved == {p \in BuildPaths : tree.pkgs[p].err = "embed"}

BuildGraph(embeds) ==
  GraphRow(PackageRows, LocalRows(embeds, Unresolved), Siblings, Replacements, {}, {})

\* What reports no error.
Sound(p) == tree.pkgs[p].err = "none" \/ Supplied(tree.pkgs[p], p)

\* What the build pass makes of the records of what it lists.
LEMMA ClassifyGoFacts ==
  ASSUME NEW f, DOMAIN f = BuildPaths, NEW E,
         \A p \in BuildPaths : /\ f[p].path = p /\ f[p].mod = tree.pkgs[p].mod
                               /\ ImportPaths(f[p]) = tree.pkgs[p].imports
                               /\ f[p].embeds \in BOOLEAN /\ (f[p].embeds <=> p \in E),
         NEW records, records = {f[p] : p \in BuildPaths}
  PROVE  /\ (\E p \in BuildPaths : f[p].err # "none" /\ ~Supplied(f[p], p))
              => ClassifyGo(records) = Failed
         /\ (\A p \in BuildPaths : /\ f[p].err = "none" \/ Supplied(f[p], p)
                                   /\ f[p].err = tree.pkgs[p].err)
              => ClassifyGo(records) = BuildGraph(E)
<1> DEFINE locals == {r \in records : IsLocal(r)}
           third == {r \in records : IsThirdParty(r)}
           data(r) == LocalData(r, Paths(locals), Paths(third), r.err = "embed")
<1>1. /\ \A p \in BuildPaths : IsLocal(f[p]) <=> p \in BuildLocal
      /\ \A p \in BuildPaths : IsThirdParty(f[p]) <=> p \in BuildThird
  BY DEF IsLocal, IsThirdParty, BuildLocal, BuildThird
<1>2. locals = {f[p] : p \in BuildLocal} /\ third = {f[p] : p \in BuildThird}
  BY <1>1 DEF BuildLocal, BuildThird
<1>3. Paths(locals) = BuildLocal /\ Paths(third) = BuildThird
  BY <1>2 DEF Paths, BuildLocal, BuildThird
<1>4. (\E r \in records : r.err # "none" /\ ~Supplied(r, r.path))
        <=> \E p \in BuildPaths : f[p].err # "none" /\ ~Supplied(f[p], p)
  OBVIOUS
<1>5. ASSUME \A p \in BuildPaths : /\ f[p].err = "none" \/ Supplied(f[p], p)
                                   /\ f[p].err = tree.pkgs[p].err
      PROVE  ClassifyGo(records) = BuildGraph(E)
  <2>1. ClassifyGo(records) =
          GraphRow({ThirdPartyData(r) : r \in third}, {data(r) : r \in locals},
                   {r.mod : r \in {s \in locals : Kind(s.mod) = "dir"}},
                   {r.mod : r \in {s \in third : Kind(s.mod) = "fork"}}, {}, {})
    BY <1>4, <1>5 DEF ClassifyGo, GraphRow, GraphOf
  <2>2. {ThirdPartyData(r) : r \in third} = PackageRows
    <3>1. \A p \in BuildThird : ThirdPartyData(f[p]) = PackageRow(p)
      BY DEF ThirdPartyData, PackageRow, BuildThird
    <3> QED
      BY <1>2, <3>1 DEF PackageRows
  <2>3. {data(r) : r \in locals} = LocalRows(E, Unresolved)
    <3> DEFINE row(p) == LocalRow(p, BuildLocal, BuildThird, p \in E, p \in Unresolved)
    <3>1. ASSUME NEW p \in BuildLocal
          PROVE  data(f[p]) = row(p)
      <4>1. (f[p].err = "embed") = (p \in Unresolved) /\ f[p].embeds = (p \in E)
        BY <1>5 DEF Unresolved, BuildLocal
      <4> QED
        BY <1>3, <4>1 DEF LocalData, LocalRow, BuildLocal
    <3>2. LocalRows(E, Unresolved) = {row(p) : p \in BuildLocal}
      BY DEF LocalRows
    <3> HIDE DEF data, row, locals
    <3> QED
      BY <1>2, <3>1, <3>2
  <2>4. {r.mod : r \in {s \in locals : Kind(s.mod) = "dir"}} = Siblings
    BY <1>2 DEF Siblings, BuildLocal
  <2>5. {r.mod : r \in {s \in third : Kind(s.mod) = "fork"}} = Replacements
    BY <1>2 DEF Replacements, BuildThird
  <2> QED
    BY <2>1, <2>2, <2>3, <2>4, <2>5 DEF BuildGraph
<1> QED
  BY <1>4, <1>5 DEF ClassifyGo

\* The build lists what is built and all it imports.
LEMMA BuildPathsFacts ==
  ASSUME WellFormed(tree), subPackages \subseteq DOMAIN tree.pkgs
  PROVE  /\ subPackages \subseteq BuildPaths /\ BuildPaths \subseteq DOMAIN tree.pkgs
         /\ \A p \in BuildPaths : tree.pkgs[p].imports \subseteq BuildPaths
         /\ \A C : /\ subPackages \subseteq C
                   /\ \A p \in C \cap DOMAIN tree.pkgs : tree.pkgs[p].imports \subseteq C
                   => BuildPaths \subseteq C
  BY ImportsFacts DEF BuildPaths

\* The build pass fails on any error, also on a directory of another module.
LEMMA BuildPassFacts ==
  ASSUME WellFormed(tree), subPackages \subseteq DOMAIN tree.pkgs
  PROVE  /\ BuildPass.ok <=> /\ \A p \in subPackages : InMain(tree, p)
                             /\ \A p \in BuildPaths : Sound(p)
         /\ BuildPass.ok => BuildPass = BuildGraph({})
         /\ ~BuildPass.ok => BuildPass = Failed
<1> DEFINE other(p) == p \in subPackages /\ ~InMain(tree, p)
           f == [p \in BuildPaths |->
                   [BareRecord(tree, {}, p) EXCEPT !.err = IF other(p) THEN "other" ELSE @]]
<1>1. ListBuild(tree, subPackages) = {f[p] : p \in BuildPaths}
  BY DEF ListBuild, BuildPaths
<1>2. ASSUME NEW p \in BuildPaths
      PROVE  /\ f[p].path = p /\ f[p].mod = tree.pkgs[p].mod
             /\ f[p].imports = BareImports(tree, p) /\ f[p].embeds = FALSE
             /\ f[p].err = IF other(p) THEN "other" ELSE tree.pkgs[p].err
  <2>1. BareRecord(tree, {}, p) = BareRow(tree, {}, p)
    BY BuildPathsFacts, RecordsAreRows
  <2>2. f[p] = [BareRow(tree, {}, p) EXCEPT !.err = IF other(p) THEN "other" ELSE @]
    BY <2>1
  <2>3. /\ f[p].path = p /\ f[p].mod = tree.pkgs[p].mod
        /\ f[p].imports = BareImports(tree, p) /\ f[p].embeds = Embeds(tree, {}, p)
        /\ f[p].err = IF other(p) THEN "other" ELSE tree.pkgs[p].err
    BY <2>2 DEF BareRow, Row
  <2>4. ~Embeds(tree, {}, p)
    BY DEF Embeds, Matched, Match
  <2> QED
    BY <2>3, <2>4 DEF Embeds
<1>3. \A p \in BuildPaths : /\ f[p].path = p /\ f[p].mod = tree.pkgs[p].mod
                            /\ ImportPaths(f[p]) = tree.pkgs[p].imports
                            /\ f[p].embeds \in BOOLEAN /\ (f[p].embeds <=> p \in {})
  BY <1>2, BareNames DEF ImportPaths, BareImports
<1>4. /\ (\E p \in BuildPaths : f[p].err # "none" /\ ~Supplied(f[p], p)) => BuildPass = Failed
      /\ (\A p \in BuildPaths : /\ f[p].err = "none" \/ Supplied(f[p], p)
                                /\ f[p].err = tree.pkgs[p].err) => BuildPass = BuildGraph({})
  <2> DEFINE records == {f[p] : p \in BuildPaths}
  <2>1. BuildPass = ClassifyGo(records)
    BY <1>1 DEF BuildPass
  <2>2. DOMAIN f = BuildPaths
    OBVIOUS
  <2> HIDE DEF f
  <2> QED
    BY <1>3, <2>1, <2>2, ClassifyGoFacts
<1>5. /\ \A p \in BuildPaths : ~other(p) => f[p].err = tree.pkgs[p].err
      /\ \A p \in BuildPaths : other(p) => f[p].err # "none" /\ ~Supplied(f[p], p)
  <2> HIDE DEF f, other
  <2>1. \A p \in BuildPaths : ~other(p) => f[p].err = tree.pkgs[p].err
    BY <1>2
  <2>2. \A p \in BuildPaths : other(p) => f[p].err = "other"
    BY <1>2
  <2> QED
    BY <2>1, <2>2 DEF Supplied
<1>6. \A p \in BuildPaths : ~other(p) => (Sound(p) <=> f[p].err = "none" \/ Supplied(f[p], p))
  BY <1>5 DEF Sound, Supplied
<1>7. (\A p \in subPackages : InMain(tree, p)) <=> \A p \in BuildPaths : ~other(p)
  BY BuildPathsFacts
<1>8. ~Failed.ok /\ BuildGraph({}).ok
  BY DEF Failed, BuildGraph, GraphRow, GraphOf
<1> HIDE DEF f, other
<1>9. CASE (\A p \in subPackages : InMain(tree, p)) /\ \A p \in BuildPaths : Sound(p)
  BY <1>4, <1>5, <1>6, <1>7, <1>8, <1>9
<1>10. CASE ~((\A p \in subPackages : InMain(tree, p)) /\ \A p \in BuildPaths : Sound(p))
  BY <1>4, <1>5, <1>6, <1>7, <1>8, <1>10
<1> QED
  BY <1>9, <1>10

\* The main module is one, and local.
LEMMA MainFacts ==
  ASSUME NEW t, WellFormed(t)
  PROVE  /\ \A m \in DOMAIN t.kind : t.kind[m] = "main" <=> m = MainModule(t)
         /\ \A p \in DOMAIN t.pkgs : t.pkgs[p].mod # NoModule => t.pkgs[p].mod \in DOMAIN t.kind
         /\ MainModule(t) # NoModule
<1>1. PICK m \in DOMAIN t.kind : \A n \in DOMAIN t.kind : t.kind[n] = "main" <=> n = m
  BY DEF WellFormed
<1>2. MainModule(t) = m
  BY <1>1 DEF MainModule
<1>3. NoModule \notin DOMAIN t.kind
  BY DEF WellFormed
<1>4. \A p \in DOMAIN t.pkgs : t.pkgs[p].mod # NoModule => t.pkgs[p].mod \in DOMAIN t.kind
  BY DEF WellFormed
<1> QED
  BY <1>1, <1>2, <1>3, <1>4

\* The records of packages as they are, of a run over the test patterns.
LEMMA BareRecords ==
  ASSUME NEW t, WellFormed(t), NEW P, NEW r \in ListTest(t, P), r.for = NoTest
  PROVE  \/ \E p \in DOMAIN t.pkgs : r = BareRow(t, P, p)
         \/ \E p \in Tested(t, P) : p \in DOMAIN t.pkgs /\ r = MainRow(t, p)
<1>1. r \in Importables(t, P) \cup Mains(t, P)
  BY ListTestFacts
<1>2. ASSUME NEW p \in DOMAIN t.pkgs, NEW q,
             r = CopyRow(t, P, q, p) \/ r = XTestRow(t, p)
      PROVE  FALSE
  <2>1. r.for = p
    BY <1>2 DEF CopyRow, XTestRow, Row
  <2> QED
    BY <1>2, <2>1 DEF WellFormed, NoTest
<1>3. Tested(t, P) \subseteq DOMAIN t.pkgs
  BY DEF Tested, Matched
<1>4. CASE r \in Mains(t, P)
  <2>1. \E p \in Tested(t, P) : r = MainRow(t, p)
    BY <1>4, EveryRecord
  <2> QED
    BY <1>3, <2>1
<1>5. CASE r \in Importables(t, P)
  <2>1. \/ \E p \in DOMAIN t.pkgs : r = BareRow(t, P, p)
        \/ \E p \in Tested(t, P) : \E q \in Copied(t, p) :
             p \in DOMAIN t.pkgs /\ q \in DOMAIN t.pkgs /\ r = CopyRow(t, P, q, p)
        \/ \E p \in Tested(t, P) :
             p \in DOMAIN t.pkgs /\ t.pkgs[p].xtests /\ r = XTestRow(t, p)
    BY <1>5, EveryRecord
  <2> QED
    BY <1>2, <2>1
<1> QED
  BY <1>1, <1>4, <1>5

\* The root of a build is the record of a package of the main module.
LEMMA RootFacts ==
  ASSUME WellFormed(tree), NEW Q, \A p \in subPackages : Last(p) # ".test",
         NEW r \in ListTest(tree, Q)
  PROVE  IsRoot(r) <=> \E p \in subPackages \cap DOMAIN tree.pkgs :
                         InMain(tree, p) /\ r = BareRow(tree, Q, p)
<1>1. \A p : /\ BareRow(tree, Q, p).path = p /\ BareRow(tree, Q, p).for = NoTest
             /\ BareRow(tree, Q, p).mod = tree.pkgs[p].mod
  BY DEF BareRow, Row
<1>2. \A p \in DOMAIN tree.pkgs :
        InMain(tree, p) <=> tree.pkgs[p].mod # NoModule /\ Kind(tree.pkgs[p].mod) = "main"
  BY MainFacts DEF InMain, Kind
<1>3. ASSUME NEW p \in DOMAIN tree.pkgs, r = MainRow(tree, p) PROVE r.path \notin subPackages
  <2>1. r.path = TestMain(p)
    BY <1>3 DEF MainRow, Row
  <2> QED
    BY <2>1, TestMainEnds
<1> QED
  BY <1>1, <1>2, <1>3, BareRecords DEF IsRoot, IsBare

\* From the records of the roots build_closure walks to those of the build.
LEMMA ClosureFacts ==
  ASSUME WellFormed(tree), subPackages \subseteq DOMAIN tree.pkgs, NEW Q, NEW bare,
         bare = {r \in ListTest(tree, Q) : IsBare(r)}, ~Ambiguous(bare),
         NEW roots, roots = {BareRow(tree, Q, p) : p \in subPackages}, roots \subseteq bare
  PROVE  WalkFrom(bare, roots) = {BareRow(tree, Q, p) : p \in BuildPaths}
<1> DEFINE N == ListTest(tree, Q)
           W == WalkFrom(bare, roots)
           row(p) == BareRow(tree, Q, p)
<1>1. IsFiniteSet(N) /\ ClosedIn(N, Importables(tree, Q))
  BY ListTestFacts
<1>2. IsFiniteSet(bare) /\ bare \subseteq N
  BY <1>1, FS_Subset
<1>3. /\ roots \subseteq W /\ W \subseteq bare /\ ClosedIn(W, bare)
      /\ \A C : C \subseteq bare /\ roots \subseteq C /\ ClosedIn(C, bare) => W \subseteq C
  <2>1. IsFiniteSet(bare) /\ roots \subseteq bare
    BY <1>2
  <2> QED
    BY ONLY <2>1, WalkFacts
<1>4. \A p : /\ row(p).path = p /\ row(p).for = NoTest /\ row(p).imports = BareImports(tree, p)
             /\ Name(row(p)) = Bare(p)
  BY DEF BareRow, Row, Name, Bare
<1>5. /\ subPackages \subseteq BuildPaths /\ BuildPaths \subseteq DOMAIN tree.pkgs
      /\ \A p \in BuildPaths : tree.pkgs[p].imports \subseteq BuildPaths
  BY BuildPathsFacts
<1>6. \A p \in DOMAIN tree.pkgs : row(p) \in Importables(tree, Q)
  BY EveryRecord
<1>7. ASSUME NEW r \in bare, NEW p \in BuildPaths, r = row(p), NEW q \in tree.pkgs[p].imports
      PROVE  row(q) \in bare
  <2>1. Name(row(q)) \in r.imports
    BY <1>4, <1>7 DEF BareImports
  <2>2. row(q) \in N
    BY <1>1, <1>2, <1>5, <1>6, <1>7, <2>1 DEF ClosedIn
  <2> QED
    BY <1>4, <2>2 DEF IsBare
<1>8. \A r, s \in bare : Name(r) = Name(s) => r = s
  BY DEF Ambiguous
<1> HIDE DEF W, N
<1>9. W \subseteq {row(p) : p \in BuildPaths}
  <2> DEFINE C == {r \in bare : \E p \in BuildPaths : r = row(p)}
  <2>1. roots \subseteq C
    BY <1>5
  <2>2. ASSUME NEW r \in C, NEW s \in bare, Name(s) \in r.imports PROVE s \in C
    <3>1. PICK p \in BuildPaths : r = row(p)
      OBVIOUS
    <3>2. PICK q \in tree.pkgs[p].imports : Name(s) = Bare(q)
      BY <1>4, <2>2, <3>1 DEF BareImports
    <3>3. s = row(q)
      BY <1>4, <1>7, <1>8, <3>1, <3>2
    <3> QED
      BY <1>5, <3>3
  <2>3. ClosedIn(C, bare)
    BY <2>2 DEF ClosedIn
  <2> QED
    BY <1>3, <2>1, <2>3
<1>10. \A p \in BuildPaths : row(p) \in W
  <2> DEFINE D == {p \in BuildPaths : row(p) \in W}
  <2>1. subPackages \subseteq D
    BY <1>3, <1>5
  <2>2. ASSUME NEW p \in D, NEW q \in tree.pkgs[p].imports PROVE q \in D
    <3>1. row(q) \in bare
      BY <1>3, <1>7
    <3>2. Name(row(q)) \in row(p).imports
      BY <1>4 DEF BareImports
    <3>3. row(q) \in W
      BY <1>3, <3>1, <3>2 DEF ClosedIn
    <3> QED
      BY <1>5, <3>3
  <2>3. BuildPaths \subseteq D
    BY <2>1, <2>2, BuildPathsFacts
  <2> QED
    BY <2>3
<1> QED
  BY <1>9, <1>10 DEF W

\* The packages of the build whose tests embed files, as far as a pattern
\* matches them.
Marked(P) == {p \in BuildPaths : Embeds(tree, P, p)}

\* And the graph made of them is the one of the build pass, but for embeds.
LEMMA ClosureGraph ==
  ASSUME WellFormed(tree), subPackages \subseteq DOMAIN tree.pkgs, NEW Q,
         NEW records, records = {BareRow(tree, Q, p) : p \in BuildPaths}
  PROVE  /\ (\A p \in BuildPaths : Sound(p)) => ClassifyGo(records) = BuildGraph(Marked(Q))
         /\ ~(\A p \in BuildPaths : Sound(p)) => ClassifyGo(records) = Failed
<1> DEFINE f == [p \in BuildPaths |-> BareRow(tree, Q, p)]
<1>1. \A p \in BuildPaths : /\ f[p].path = p /\ f[p].mod = tree.pkgs[p].mod
                            /\ f[p].imports = BareImports(tree, p)
                            /\ f[p].embeds = Embeds(tree, Q, p) /\ f[p].err = tree.pkgs[p].err
  BY DEF BareRow, Row
<1>2. records = {f[p] : p \in BuildPaths} /\ DOMAIN f = BuildPaths
  OBVIOUS
<1> HIDE DEF f
<1>3. \A p \in BuildPaths : /\ f[p].path = p /\ f[p].mod = tree.pkgs[p].mod
                            /\ ImportPaths(f[p]) = tree.pkgs[p].imports
                            /\ f[p].embeds \in BOOLEAN /\ (f[p].embeds <=> p \in Marked(Q))
  BY <1>1, BareNames DEF ImportPaths, BareImports, Marked, Embeds
<1>4. \A p \in BuildPaths : Sound(p) <=> f[p].err = "none" \/ Supplied(f[p], p)
  BY <1>1 DEF Sound, Supplied
<1>5. /\ (\E p \in BuildPaths : f[p].err # "none" /\ ~Supplied(f[p], p))
           => ClassifyGo(records) = Failed
      /\ (\A p \in BuildPaths : /\ f[p].err = "none" \/ Supplied(f[p], p)
                                /\ f[p].err = tree.pkgs[p].err)
           => ClassifyGo(records) = BuildGraph(Marked(Q))
  BY <1>2, <1>3, ClassifyGoFacts
<1> QED
  BY <1>1, <1>4, <1>5

-----------------------------------------------------------------------------
(***************************************************************************)
(* Merging the test pass into either graph gives the same.                 *)
(***************************************************************************)
\* The test pass does not look at what a record matched.
Alike(r, s) ==
  /\ r.path = s.path /\ r.for = s.for /\ r.mod = s.mod /\ r.imports = s.imports
  /\ r.testImports = s.testImports /\ r.files = s.files /\ r.embeds = s.embeds /\ r.err = s.err

\* What the test pass looks at, a summary tells.
LEMMA SummaryFacts ==
  ASSUME NEW r, NEW s, IsRow(r), IsRow(s), Summary(r) = Summary(s)
  PROVE  Alike(r, s)
<1>1. \A x : /\ IsRow(x)
             => /\ Summary(x).path = x.path /\ Summary(x).for = x.for
                /\ Summary(x).mod = x.mod /\ Summary(x).imports = x.imports
                /\ Summary(x).testImports = x.testImports /\ Summary(x).files = x.files
                /\ Summary(x).embeds = x.embeds /\ Summary(x).err = x.err
  BY DEF IsRow, Row, Summary
<1> QED
  BY <1>1 DEF Alike

\* Records alike are kept, or are not, and are errors, or are not, together.
LEMMA AlikeKept ==
  ASSUME NEW r, NEW s, Alike(r, s)
  PROVE  /\ Owner(r) = Owner(s) /\ (Supplied(r, Owner(r)) <=> Supplied(s, Owner(s)))
         /\ IsTestMain(r) <=> IsTestMain(s)
         /\ IsVariantOfTested(r) <=> IsVariantOfTested(s)
         /\ \A P : TrueTo(s, P) => TrueTo(r, P)
         /\ \A g : TestError(r, g) <=> TestError(s, g)
<1>1. Owner(r) = Owner(s) /\ (Supplied(r, Owner(r)) <=> Supplied(s, Owner(s)))
  BY DEF Alike, Owner, Supplied
<1>2. IsTestMain(r) <=> IsTestMain(s)
  BY DEF Alike, IsTestMain
<1>3. IsVariantOfTested(r) <=> IsVariantOfTested(s)
  BY DEF Alike, IsVariantOfTested
<1>4. \A P : TrueTo(s, P) => TrueTo(r, P)
  BY DEF Alike, TrueTo, ImportPaths
<1>5. \A g : TestError(r, g) <=> TestError(s, g)
  BY <1>1, <1>2 DEF Alike, TestError
<1> QED
  BY <1>1, <1>2, <1>3, <1>4, <1>5

\* So the test pass makes the same of either.
LEMMA AlikeFacts ==
  ASSUME NEW M, NEW N, NEW P, Regular(N, P),
         \A r \in M : \E s \in N : Alike(r, s), \A s \in N : \E r \in M : Alike(r, s)
  PROVE  \A g : ClassifyTest(M, g) = ClassifyTest(N, g)
<1>1. \A r, s : Alike(r, s) => (r \in M /\ s \in N => (r \in Kept(M) <=> s \in Kept(N)))
  BY AlikeKept DEF Kept, Alike
<1>2. \A r \in Kept(M) : \E s \in Kept(N) : Alike(r, s)
  BY <1>1 DEF Kept
<1>3. \A s \in Kept(N) : \E r \in Kept(M) : Alike(r, s)
  BY <1>1 DEF Kept
<1>4. Regular(M, P)
  BY <1>2, AlikeKept DEF Regular
<1>5. KeptPaths(M) = KeptPaths(N)
  BY <1>2, <1>3 DEF KeptPaths, Paths, Alike
<1>6. BarePaths(M) = BarePaths(N)
  BY <1>2, <1>3 DEF BarePaths, Alike
<1>7. EmbedErrors(M) = EmbedErrors(N)
  <2>1. \A r, s : Alike(r, s) => Owner(r) = Owner(s) /\ (Supplied(r, Owner(r)) <=> Supplied(s, Owner(s)))
    BY AlikeKept
  <2> QED
    BY <2>1 DEF EmbedErrors
<1>8. \A g : (\E r \in M : TestError(r, g)) <=> \E s \in N : TestError(s, g)
  BY AlikeKept
<1>9. ASSUME NEW g, \E s \in N : TestError(s, g) PROVE ClassifyTest(M, g) = ClassifyTest(N, g)
  <2>1. \E r \in M : TestError(r, g)
    BY <1>8, <1>9
  <2>2. ClassifyTest(M, g) = Failed
    BY <2>1 DEF ClassifyTest
  <2>3. ClassifyTest(N, g) = Failed
    BY <1>9 DEF ClassifyTest
  <2> QED
    BY <2>2, <2>3
<1>10. ASSUME NEW g, ~\E s \in N : TestError(s, g) PROVE ClassifyTest(M, g) = ClassifyTest(N, g)
  <2>1. ~\E r \in M : TestError(r, g)
    BY <1>8, <1>10
  <2>2. ClassifyTest(M, g) =
          ClassifyPaths(KeptPaths(M), BarePaths(M), EmbedErrors(M), P, Paths(g.local), Paths(g.packages))
    BY <1>4, <2>1, ClassifyTestFacts
  <2>3. ClassifyTest(N, g) =
          ClassifyPaths(KeptPaths(N), BarePaths(N), EmbedErrors(N), P, Paths(g.local), Paths(g.packages))
    BY <1>10, ClassifyTestFacts
  <2> QED
    BY <1>5, <1>6, <1>7, <2>2, <2>3
<1> QED
  BY <1>9, <1>10

\* The fields of the graph of the build.
LEMMA BuildGraphFacts ==
  ASSUME NEW E
  PROVE  LET g == BuildGraph(E)
         IN  /\ g.ok /\ g.siblings = Siblings /\ g.packages = PackageRows
             /\ g.local = LocalRows(E, Unresolved)
             /\ Paths(g.local) = BuildLocal /\ Paths(g.packages) = BuildThird
<1>1. \A p, e, u : LocalRow(p, BuildLocal, BuildThird, e, u).path = p
  BY DEF LocalRow
<1>2. \A p : PackageRow(p).path = p
  BY DEF PackageRow
<1>3. Paths(LocalRows(E, Unresolved)) = BuildLocal
  BY <1>1 DEF Paths, LocalRows
<1>4. Paths(PackageRows) = BuildThird
  BY <1>2 DEF Paths, PackageRows
<1> QED
  BY <1>3, <1>4 DEF BuildGraph, GraphRow, GraphOf

\* Merged, it does not matter that the graph had embeds marked already.
LEMMA MergeFacts ==
  ASSUME NEW E, NEW tp, tp.ok
  PROVE  MergeTestPass(BuildGraph(E), tp) =
           GraphRow(PackageRows, LocalRows(E \cup tp.embeds, Unresolved \cup tp.unresolved),
                    Siblings, Replacements \cup tp.replacements, tp.testPackages, tp.testLocal)
<1> DEFINE merged(l) == [l EXCEPT !.embeds = @ \/ l.path \in tp.embeds,
                                  !.unresolved = @ \/ l.path \in tp.unresolved]
           before(p) == LocalRow(p, BuildLocal, BuildThird, p \in E, p \in Unresolved)
           after(p) == LocalRow(p, BuildLocal, BuildThird, p \in E \cup tp.embeds,
                                p \in Unresolved \cup tp.unresolved)
           local == {merged(l) : l \in LocalRows(E, Unresolved)}
<1>1. ASSUME NEW p PROVE merged(before(p)) = after(p)
  <2> DEFINE e == p \in E
             u == p \in Unresolved
             x == e \/ p \in tp.embeds
             y == u \/ p \in tp.unresolved
             row(embeds, unresolved) == LocalRow(p, BuildLocal, BuildThird, embeds, unresolved)
             l == row(e, u)
  <2>1. x = (p \in E \cup tp.embeds) /\ y = (p \in Unresolved \cup tp.unresolved)
    OBVIOUS
  <2>2. merged(l) = [[l EXCEPT !.embeds = @ \/ l.path \in tp.embeds]
                        EXCEPT !.unresolved = @ \/ l.path \in tp.unresolved]
    OBVIOUS
  <2>3. [l EXCEPT !.embeds = @ \/ l.path \in tp.embeds] = row(x, u)
    <3> HIDE DEF e, u
    <3>1. l.path = p /\ l.embeds = e
      BY DEF LocalRow
    <3>2. [l EXCEPT !.embeds = @ \/ l.path \in tp.embeds] = [l EXCEPT !.embeds = x]
      BY <3>1
    <3> HIDE DEF x
    <3>3. [l EXCEPT !.embeds = x] = row(x, u)
      BY DEF LocalRow
    <3> QED
      BY <3>2, <3>3
  <2>4. [row(x, u) EXCEPT !.unresolved = @ \/ l.path \in tp.unresolved] = row(x, y)
    <3> HIDE DEF x, u, e
    <3>1. l.path = p /\ row(x, u).unresolved = u
      BY DEF LocalRow
    <3>2. [row(x, u) EXCEPT !.unresolved = @ \/ l.path \in tp.unresolved]
            = [row(x, u) EXCEPT !.unresolved = y]
      BY <3>1
    <3> HIDE DEF y
    <3>3. [row(x, u) EXCEPT !.unresolved = y] = row(x, y)
      BY DEF LocalRow
    <3> QED
      BY <3>2, <3>3
  <2> HIDE DEF x, y, row
  <2>5. merged(l) = row(x, y)
    BY <2>2, <2>3, <2>4
  <2> QED
    BY <2>1, <2>5 DEF row
<1>2. LocalRows(E, Unresolved) = {before(p) : p \in BuildLocal}
      /\ LocalRows(E \cup tp.embeds, Unresolved \cup tp.unresolved) = {after(p) : p \in BuildLocal}
  BY DEF LocalRows
<1>3. MergeTestPass(BuildGraph(E), tp) =
        [BuildGraph(E) EXCEPT !.testPackages = tp.testPackages, !.testLocal = tp.testLocal,
                              !.replacements = @ \cup tp.replacements,
                              !.local = {merged(l) : l \in @}]
  BY DEF MergeTestPass
<1> HIDE DEF merged, before, after
<1>4. local = {after(p) : p \in BuildLocal}
  BY <1>1, <1>2
<1>5. BuildGraph(E).local = LocalRows(E, Unresolved) /\ BuildGraph(E).replacements = Replacements
  BY DEF BuildGraph, GraphRow, GraphOf
<1>6. MergeTestPass(BuildGraph(E), tp) =
        [BuildGraph(E) EXCEPT !.testPackages = tp.testPackages, !.testLocal = tp.testLocal,
                              !.replacements = Replacements \cup tp.replacements,
                              !.local = local]
  BY <1>3, <1>5
<1>7. [BuildGraph(E) EXCEPT !.testPackages = tp.testPackages, !.testLocal = tp.testLocal,
                              !.replacements = Replacements \cup tp.replacements,
                              !.local = local]
        = GraphRow(PackageRows, local, Siblings, Replacements \cup tp.replacements,
                   tp.testPackages, tp.testLocal)
  <2> DEFINE ok == TRUE
             rows == LocalRows(E, Unresolved)
             more == Replacements \cup tp.replacements
             packages == tp.testPackages
             testLocal == tp.testLocal
             graphOf(l, r, p, t) == GraphOf(ok, PackageRows, l, Siblings, r, p, t)
             g == graphOf(rows, Replacements, {}, {})
  <2>1. BuildGraph(E) = g
    BY DEF BuildGraph, GraphRow
  <2> HIDE DEF rows, more, packages, testLocal, local, ok
  <2>2. [g EXCEPT !.testPackages = packages, !.testLocal = testLocal, !.replacements = more,
                  !.local = local]
          = [[[[g EXCEPT !.testPackages = packages] EXCEPT !.testLocal = testLocal]
               EXCEPT !.replacements = more] EXCEPT !.local = local]
    BY DEF GraphOf
  <2>3. [g EXCEPT !.testPackages = packages] = graphOf(rows, Replacements, packages, {})
    BY DEF GraphOf
  <2>4. [graphOf(rows, Replacements, packages, {}) EXCEPT !.testLocal = testLocal]
          = graphOf(rows, Replacements, packages, testLocal)
    BY DEF GraphOf
  <2>5. [graphOf(rows, Replacements, packages, testLocal) EXCEPT !.replacements = more]
          = graphOf(rows, more, packages, testLocal)
    BY DEF GraphOf
  <2>6. [graphOf(rows, more, packages, testLocal) EXCEPT !.local = local]
          = graphOf(local, more, packages, testLocal)
    BY DEF GraphOf
  <2>7. graphOf(local, more, packages, testLocal)
          = GraphRow(PackageRows, local, Siblings, more, packages, testLocal)
    BY DEF GraphRow, ok
  <2> HIDE DEF g, graphOf
  <2>8. [g EXCEPT !.testPackages = packages, !.testLocal = testLocal, !.replacements = more,
                  !.local = local]
          = GraphRow(PackageRows, local, Siblings, more, packages, testLocal)
    BY <2>2, <2>3, <2>4, <2>5, <2>6, <2>7
  <2> QED
    BY <2>1, <2>8, Zenon DEF rows, more, packages, testLocal
<1> HIDE DEF local
<1>8. MergeTestPass(BuildGraph(E), tp)
        = GraphRow(PackageRows, local, Siblings, Replacements \cup tp.replacements,
                   tp.testPackages, tp.testLocal)
  BY <1>6, <1>7, Zenon
<1> QED
  BY <1>2, <1>4, <1>8 DEF local

-----------------------------------------------------------------------------
(***************************************************************************)
(* What the single pass gives, and when.                                   *)
(***************************************************************************)
\* A call that the assumptions allow.
Fit ==
  /\ WellFormed(tree) /\ subPackages \subseteq DOMAIN tree.pkgs
  /\ \A p \in subPackages : Last(p) # ".test"
  /\ \A p \in DOMAIN tree.pkgs : Last(p) = ".test" =>
       ~HasTests(tree, p) /\ ~tree.pkgs[p].testEmbeds

\* When build_closure has a closure, and which.
LEMMA ClosureIs ==
  ASSUME Fit, NEW Q
  PROVE  LET all     == ListTest(tree, Q)
             closure == BuildClosure(all)
         IN  /\ closure.ok <=> /\ ~Ambiguous({r \in all : IsBare(r)})
                               /\ \A p \in subPackages : InMain(tree, p) /\ BareRow(tree, Q, p) \in all
             /\ closure.ok => closure.records = {BareRow(tree, Q, p) : p \in BuildPaths}
<1> DEFINE all == ListTest(tree, Q)
           bare == {r \in all : IsBare(r)}
           roots == {r \in all : IsRoot(r)}
           row(p) == BareRow(tree, Q, p)
           build == {row(p) : p \in subPackages}
           mine == \A p \in subPackages : InMain(tree, p) /\ row(p) \in all
<1>0. WellFormed(tree) /\ subPackages \subseteq DOMAIN tree.pkgs
  BY DEF Fit
<1>1. /\ BuildClosure(all).ok <=> ~Ambiguous(bare) /\ Paths(roots) = subPackages
      /\ BuildClosure(all).ok => BuildClosure(all).records = WalkFrom(bare, roots)
  BY DEF BuildClosure, Declined
<1>2. \A p : row(p).path = p /\ row(p).for = NoTest
  BY DEF BareRow, Row
<1>3. \A r \in all : IsRoot(r) <=> \E p \in subPackages \cap DOMAIN tree.pkgs :
                                     InMain(tree, p) /\ r = row(p)
  BY RootFacts DEF Fit
<1> HIDE DEF all, row
<1>4. Paths(roots) = subPackages => mine
  <2> SUFFICES ASSUME Paths(roots) = subPackages, NEW p \in subPackages
               PROVE  InMain(tree, p) /\ row(p) \in all
    OBVIOUS
  <2>1. PICK r \in all : IsRoot(r) /\ r.path = p
    BY DEF Paths
  <2> QED
    BY <1>2, <1>3, <2>1
<1>5. ASSUME mine PROVE roots = build /\ Paths(roots) = subPackages
  <2>1. roots = build
    BY <1>0, <1>3, <1>5
  <2> QED
    BY <1>2, <2>1 DEF Paths
<1>6. ASSUME mine, ~Ambiguous(bare)
      PROVE  WalkFrom(bare, build) = {row(p) : p \in BuildPaths}
  <2>1. build \subseteq bare
    BY <1>2, <1>6 DEF IsBare
  <2> QED
    BY <1>0, <1>6, <2>1, ClosureFacts DEF all, row
<1> HIDE DEF bare, roots, build, mine
<1>7. BuildClosure(all).ok <=> ~Ambiguous(bare) /\ mine
  BY <1>1, <1>4, <1>5
<1>8. BuildClosure(all).ok => BuildClosure(all).records = {row(p) : p \in BuildPaths}
  BY <1>1, <1>4, <1>5, <1>6
<1> QED
  BY <1>7, <1>8 DEF all, bare, mine, row

\* The test pass sees of a graph only the paths in it.
LEMMA SameTest ==
  ASSUME NEW records, NEW P, Regular(records, P), NEW E
  PROVE  ClassifyTest(records, BuildGraph(E)) = ClassifyTest(records, BuildGraph({}))
<1> DEFINE g == BuildGraph(E)
           b == BuildGraph({})
<1>1. Paths(g.local) = Paths(b.local) /\ Paths(g.packages) = Paths(b.packages)
  BY BuildGraphFacts
<1> HIDE DEF g, b
<1>2. \A r : TestError(r, g) <=> TestError(r, b)
  BY <1>1 DEF TestError
<1>3. CASE \E r \in records : TestError(r, g)
  <2>1. \E r \in records : TestError(r, b)
    BY <1>2, <1>3
  <2>2. ClassifyTest(records, g) = Failed
    BY <1>3 DEF ClassifyTest
  <2>3. ClassifyTest(records, b) = Failed
    BY <2>1 DEF ClassifyTest
  <2> QED
    BY <2>2, <2>3 DEF g, b
<1>4. CASE ~\E r \in records : TestError(r, g)
  <2>1. ~\E r \in records : TestError(r, b)
    BY <1>2, <1>4
  <2>2. ClassifyTest(records, g) =
          ClassifyPaths(KeptPaths(records), BarePaths(records), EmbedErrors(records), P,
                        Paths(g.local), Paths(g.packages))
    BY <1>4, ClassifyTestFacts
  <2>3. ClassifyTest(records, b) =
          ClassifyPaths(KeptPaths(records), BarePaths(records), EmbedErrors(records), P,
                        Paths(b.local), Paths(b.packages))
    BY <2>1, ClassifyTestFacts
  <2> QED
    BY <1>1, <2>2, <2>3 DEF g, b
<1> QED
  BY <1>3, <1>4

\* The record of what a pattern matches is kept, if the build pass is content.
LEMMA MatchIsKept ==
  ASSUME WellFormed(tree), NEW P, NEW p \in Matched(tree, P), Sound(p), Last(p) # ".test"
  PROVE  p \in KeptPaths(ListTest(tree, P)) /\ p \in BarePaths(ListTest(tree, P))
<1> DEFINE r == BareRow(tree, P, p)
<1>1. r \in ListTest(tree, P)
  BY ListTestFacts, EveryRecord
<1>2. r.path = p /\ r.for = NoTest /\ r.err = tree.pkgs[p].err
  BY DEF BareRow, Row
<1> HIDE DEF r
<1>3. (r.err = "none" \/ Supplied(r, Owner(r))) /\ ~IsTestMain(r) /\ ~IsVariantOfTested(r)
  BY <1>2 DEF Sound, Supplied, Owner, IsTestMain, IsVariantOfTested
<1> QED
  BY <1>1, <1>2, <1>3 DEF KeptPaths, BarePaths, Kept, Paths

\* The patterns of the test pass match what the build has of the main module
\* and of the siblings.
LEMMA LocalIsMatched ==
  ASSUME WellFormed(tree), subPackages \subseteq DOMAIN tree.pkgs,
         NEW p \in BuildLocal, tree.pkgs[p].listed
  PROVE  p \in Matched(tree, TestPatterns(Siblings))
<1> DEFINE m == tree.pkgs[p].mod
<1>1. p \in DOMAIN tree.pkgs /\ m # NoModule /\ Kind(m) \in {"main", "dir"}
  BY BuildPathsFacts DEF BuildLocal, IsLocal
<1>2. m \in DOMAIN tree.kind /\ (Kind(m) = "main" <=> m = MainModule(tree)) /\ m # Here /\ Under(m, p)
  BY <1>1, MainFacts DEF WellFormed, Kind
<1>3. CASE Kind(m) = "main"
  <2>1. Here \in Match(tree, TestPatterns(Siblings), p)
    BY <1>1, <1>2, <1>3 DEF Match, TestPatterns, InMain
  <2> QED
    BY <1>1, <2>1 DEF Matched
<1>4. CASE Kind(m) = "dir"
  <2>1. m \in Siblings
    BY <1>4 DEF Siblings
  <2>2. m \in Match(tree, TestPatterns(Siblings), p)
    BY <1>1, <1>2, <2>1 DEF Match, TestPatterns
  <2> QED
    BY <1>1, <2>2 DEF Matched
<1> QED
  BY <1>1, <1>3, <1>4

\* What a pattern matches is listed and of a module.
LEMMA MatchedAreListed ==
  ASSUME NEW t, NEW P, NEW p \in Matched(t, P)
  PROVE  p \in DOMAIN t.pkgs /\ t.pkgs[p].listed /\ t.pkgs[p].mod # NoModule
  BY DEF Matched, Match

\* Either pass's graph is the base for the same result.
LEMMA Agreement ==
  ASSUME Fit, \A p \in BuildPaths : Sound(p), NEW Q
  PROVE  LET tp == ClassifyTest(ListTest(tree, TestPatterns(Siblings)), BuildGraph({}))
         IN  MergeTestPass(BuildGraph(Marked(Q)), tp) = MergeTestPass(BuildGraph({}), tp)
<1> DEFINE P == TestPatterns(Siblings)
           records == ListTest(tree, P)
           b == BuildGraph({})
           tp == ClassifyTest(records, b)
<1>0. WellFormed(tree) /\ subPackages \subseteq DOMAIN tree.pkgs
  BY DEF Fit
<1>1. CASE \E r \in records : TestError(r, b)
  <2>1. tp = Failed
    BY <1>1 DEF ClassifyTest
  <2>2. \A g : MergeTestPass(g, tp) = Failed
    BY <2>1 DEF MergeTestPass, Failed
  <2> QED
    BY <2>2
<1>2. CASE ~\E r \in records : TestError(r, b)
  <2>1. Regular(records, P)
    BY <1>0, ListingIsRegular
  <2>2. tp = ClassifyPaths(KeptPaths(records), BarePaths(records), EmbedErrors(records), P,
                           BuildLocal, BuildThird)
    BY <1>2, <2>1, ClassifyTestFacts, BuildGraphFacts
  <2>3. /\ tp.ok
        /\ tp.embeds = {p \in KeptPaths(records) : IsLocal(tree.pkgs[p]) /\ Embeds(tree, P, p)}
                         \cap BuildLocal
    BY <2>2 DEF ClassifyPaths
  <2>4. ASSUME NEW p \in BuildLocal, p \in Marked(Q) PROVE p \in tp.embeds
    <3>1. /\ p \in DOMAIN tree.pkgs /\ tree.pkgs[p].listed /\ tree.pkgs[p].testEmbeds
          /\ Sound(p) /\ Last(p) # ".test" /\ IsLocal(tree.pkgs[p])
      BY <2>4, MatchedAreListed DEF Marked, Embeds, BuildLocal, Fit
    <3>2. p \in Matched(tree, P)
      BY <1>0, <3>1, LocalIsMatched
    <3>3. p \in KeptPaths(records)
      BY <1>0, <3>1, <3>2, MatchIsKept
    <3> QED
      BY <2>3, <3>1, <3>2, <3>3 DEF Embeds
  <2> HIDE DEF tp
  <2>5. LocalRows(Marked(Q) \cup tp.embeds, Unresolved \cup tp.unresolved)
          = LocalRows({} \cup tp.embeds, Unresolved \cup tp.unresolved)
    <3>1. \A p \in BuildLocal : (p \in Marked(Q) \cup tp.embeds) = (p \in {} \cup tp.embeds)
      BY <2>4
    <3> DEFINE one(p) == p \in Marked(Q) \cup tp.embeds
               other(p) == p \in {} \cup tp.embeds
    <3>2. \A p \in BuildLocal : one(p) = other(p)
      BY <3>1
    <3> HIDE DEF one, other
    <3>3. {LocalRow(p, BuildLocal, BuildThird, one(p), p \in Unresolved \cup tp.unresolved) : p \in BuildLocal}
            = {LocalRow(p, BuildLocal, BuildThird, other(p), p \in Unresolved \cup tp.unresolved) : p \in BuildLocal}
      BY <3>2
    <3> QED
      BY <3>3 DEF LocalRows, one, other
  <2>6. \A E : MergeTestPass(BuildGraph(E), tp) =
           GraphRow(PackageRows, LocalRows(E \cup tp.embeds, Unresolved \cup tp.unresolved),
                    Siblings, Replacements \cup tp.replacements, tp.testPackages, tp.testLocal)
    BY <2>3, MergeFacts
  <2>7. MergeTestPass(BuildGraph(Marked(Q)), tp) = MergeTestPass(BuildGraph({}), tp)
    BY <2>5, <2>6
  <2> QED
    BY <2>7 DEF tp
<1> QED
  BY <1>1, <1>2

\* The run of the single pass.
All == ListTest(tree, TestPatterns(Scanned))

\* When the single pass serves.
Serves ==
  /\ plain
  /\ ~Ambiguous({r \in All : IsBare(r)})
  /\ \A p \in subPackages : InMain(tree, p) /\ BareRow(tree, TestPatterns(Scanned), p) \in All
  /\ \A p \in BuildPaths : Sound(p)
  /\ Siblings \subseteq Scanned
  /\ Siblings = Scanned \/ ~Ambiguous(All)
  /\ TestPass(BuildPass).ok

\* The records it takes for those of the test pass.
TestRecords ==
  IF Siblings = Scanned THEN [ok |-> TRUE, records |-> All]
  ELSE RestrictToPatterns(All, TestPatterns(Siblings))

\* They are those of the test pass, but for what they matched.
LEMMA TestRecordsFacts ==
  ASSUME WellFormed(tree), Siblings \subseteq Scanned
  PROVE  /\ TestRecords.ok <=> Siblings = Scanned \/ ~Ambiguous(All)
         /\ TestRecords.ok =>
              \A g : ClassifyTest(TestRecords.records, g)
                       = ClassifyTest(ListTest(tree, TestPatterns(Siblings)), g)
<1> DEFINE P == TestPatterns(Siblings)
<1>1. CASE Siblings = Scanned
  BY <1>1 DEF TestRecords, All
<1>2. CASE Siblings # Scanned /\ Ambiguous(All)
  BY <1>2 DEF TestRecords, RestrictToPatterns, Declined
<1>3. CASE Siblings # Scanned /\ ~Ambiguous(All)
  <2>1. TestRecords = RestrictToPatterns(All, P)
    BY <1>3 DEF TestRecords
  <2>2. P \subseteq TestPatterns(Scanned)
    BY DEF TestPatterns
  <2>3. /\ TestRecords.ok
        /\ {Summary(r) : r \in TestRecords.records} = {Summary(r) : r \in ListTest(tree, P)}
        /\ \A r \in TestRecords.records : IsRow(r)
    BY <1>3, <2>1, <2>2, RestrictFacts DEF All
  <2>4. \A r \in ListTest(tree, P) : IsRow(r)
    BY ListingRows
  <2>5. /\ \A r \in TestRecords.records : \E s \in ListTest(tree, P) : Summary(r) = Summary(s)
        /\ \A s \in ListTest(tree, P) : \E r \in TestRecords.records : Summary(r) = Summary(s)
    BY <2>3
  <2>6. /\ \A r \in TestRecords.records : \E s \in ListTest(tree, P) : Alike(r, s)
        /\ \A s \in ListTest(tree, P) : \E r \in TestRecords.records : Alike(r, s)
    BY <2>3, <2>4, <2>5, SummaryFacts
  <2>7. Regular(ListTest(tree, P), P)
    BY ListingIsRegular
  <2>8. \A g : ClassifyTest(TestRecords.records, g) = ClassifyTest(ListTest(tree, P), g)
    BY <2>6, <2>7, AlikeFacts
  <2> QED
    BY <1>3, <2>3, <2>8
<1> QED
  BY <1>1, <1>2, <1>3

\* The single pass gives the two passes' result, or declines.
LEMMA SinglePassIs ==
  ASSUME Fit
  PROVE  SinglePass = IF Serves THEN TestPass(BuildPass) ELSE Declined
<1> DEFINE Q       == TestPatterns(Scanned)
           P       == TestPatterns(Siblings)
           closure == BuildClosure(All)
           g       == ClassifyGo(closure.records)
           test    == IF g.siblings = Scanned THEN [ok |-> TRUE, records |-> All]
                      ELSE RestrictToPatterns(All, TestPatterns(g.siblings))
           merged  == MergeTestPass(g, ClassifyTest(test.records, g))
           clear   == /\ ~Ambiguous({r \in All : IsBare(r)})
                      /\ \A p \in subPackages : InMain(tree, p) /\ BareRow(tree, Q, p) \in All
           sound   == \A p \in BuildPaths : Sound(p)
<1>0. WellFormed(tree) /\ subPackages \subseteq DOMAIN tree.pkgs
  BY DEF Fit
<1>1. SinglePass = IF ~plain \/ ~closure.ok THEN Declined
                   ELSE IF ~g.ok THEN Declined
                   ELSE IF ~Covered(g.siblings) THEN Declined
                   ELSE IF ~test.ok THEN Declined
                   ELSE IF ~merged.ok THEN Declined
                   ELSE merged
  BY DEF SinglePass, All
<1>2. /\ closure.ok <=> clear
      /\ closure.ok => closure.records = {BareRow(tree, Q, p) : p \in BuildPaths}
  BY ClosureIs DEF All
<1>3. ASSUME clear
      PROVE  (sound => g = BuildGraph(Marked(Q))) /\ (~sound => g = Failed)
  <2>1. closure.records = {BareRow(tree, Q, p) : p \in BuildPaths}
    BY <1>2, <1>3
  <2> QED
    BY <1>0, <2>1, ClosureGraph
<1>4. Serves <=> /\ plain /\ clear /\ sound /\ Siblings \subseteq Scanned
                 /\ (Siblings = Scanned \/ ~Ambiguous(All)) /\ TestPass(BuildPass).ok
  BY DEF Serves
<1>5. CASE ~plain \/ ~clear
  BY <1>1, <1>2, <1>4, <1>5
<1>6. CASE clear /\ ~sound
  <2>1. ~g.ok
    BY <1>3, <1>6 DEF Failed
  <2> QED
    BY <1>1, <1>4, <1>6, <2>1
<1>7. CASE plain /\ clear /\ sound
  <2>1. g = BuildGraph(Marked(Q)) /\ g.ok /\ g.siblings = Siblings
    BY <1>3, <1>7, BuildGraphFacts
  <2>2. test = TestRecords
    BY <2>1 DEF TestRecords
  <2>3. CASE ~(Siblings \subseteq Scanned)
    <3>1. ~Covered(g.siblings)
      BY <2>1, <2>3 DEF Covered
    <3> QED
      BY <1>1, <1>2, <1>4, <1>7, <2>1, <2>3, <3>1
  <2>4. CASE Siblings \subseteq Scanned
    <3>1. Covered(g.siblings)
      BY <2>1, <2>4 DEF Covered
    <3>2. test.ok <=> Siblings = Scanned \/ ~Ambiguous(All)
      BY <1>0, <2>2, <2>4, TestRecordsFacts
    <3>3. ASSUME test.ok PROVE merged = TestPass(BuildPass)
      <4>1. ClassifyTest(test.records, g) = ClassifyTest(ListTest(tree, P), g)
        BY <1>0, <2>2, <2>4, <3>3, TestRecordsFacts
      <4>2. Regular(ListTest(tree, P), P)
        BY <1>0, ListingIsRegular
      <4>3. ClassifyTest(ListTest(tree, P), g) = ClassifyTest(ListTest(tree, P), BuildGraph({}))
        BY <2>1, <4>2, SameTest
      <4>4. MergeTestPass(BuildGraph(Marked(Q)), ClassifyTest(ListTest(tree, P), BuildGraph({})))
              = MergeTestPass(BuildGraph({}), ClassifyTest(ListTest(tree, P), BuildGraph({})))
        BY <1>7, Agreement
      <4>5. \A p \in subPackages : InMain(tree, p)
        BY <1>7
      <4>6. BuildPass = BuildGraph({})
        BY <1>0, <1>7, <4>5, BuildPassFacts
      <4>7. TestPass(BuildPass) = MergeTestPass(BuildGraph({}), ClassifyTest(ListTest(tree, P), BuildGraph({})))
        BY <4>6, BuildGraphFacts DEF TestPass
      <4> QED
        BY <2>1, <4>1, <4>3, <4>4, <4>7
    <3> HIDE DEF test, merged, g, closure, clear, sound
    <3> QED
      BY <1>1, <1>2, <1>4, <1>7, <2>1, <2>4, <3>1, <3>2, <3>3
  <2> QED
    BY <2>3, <2>4
<1> QED
  BY <1>5, <1>6, <1>7

-----------------------------------------------------------------------------
(***************************************************************************)
(* The invariant.                                                          *)
(***************************************************************************)
\* While the inputs stay, so does what the passes make of them.
LEMMA SameInputs ==
  ASSUME UNCHANGED inputs
  PROVE  BuildPass' = BuildPass /\ TwoPasses' = TwoPasses
<1> DEFINE g        == BuildPass
           records  == ListTest(tree, TestPatterns(g.siblings))
           bad      == \E r \in records : TestError(r, g)
           usable   == {r \in records : /\ r.err = "none" \/ Supplied(r, Owner(r))
                                        /\ ~IsTestMain(r) /\ ~IsVariantOfTested(r)}
           embedErr == {Owner(r) : r \in {s \in records : Supplied(s, Owner(s))}}
           locals   == {r \in usable : IsLocal(r)}
           thirds   == {r \in usable : /\ IsThirdParty(r)
                                      /\ r.path \notin Paths(g.packages)}
           forks(S) == {r.mod : r \in {s \in S : Kind(s.mod) = "fork"}}
           tested   == {r \in locals : r.for = NoTest}
           newLocal == FirstOfEach({r \in locals : r.path \notin Paths(g.local)})
           rawLocal == {r \in newLocal : r.files}
           newThird == FirstOfEach(thirds)
           reached  == TestReachable(g, tested, newLocal, newThird)
           known    == Paths(g.local) \cup Paths(newLocal)
           third    == Paths(g.packages) \cup Paths(newThird)
           result   == [ok |-> TRUE,
                        testPackages |-> {ThirdPartyData(r) : r \in newThird},
                        testLocal |-> {LocalData(r, known, third, r.path \in embedErr) :
                                         r \in {s \in rawLocal : s.path \in reached}},
                        replacements |-> forks(newThird),
                        embeds |-> {r.path : r \in {s \in locals : s.embeds}} \cap Paths(g.local),
                        unresolved |-> embedErr \cap Paths(g.local)]
           merged   == MergeTestPass(g, IF bad THEN Failed ELSE result)
           passes   == IF g.ok /\ doCheck /\ g.local # {} THEN merged ELSE g
<1>0. tree' = tree /\ subPackages' = subPackages /\ plain' = plain /\ doCheck' = doCheck
      /\ overlaid' = overlaid
  BY DEF inputs
<1>1. BuildPass' = BuildPass
  BY <1>0 DEF BuildPass, ClassifyGo, IsLocal, IsThirdParty, Kind, Supplied
<1>2. TwoPasses = passes /\ TwoPasses' = passes'
  BY DEF TwoPasses, TestPass, ClassifyTest
<1> HIDE DEF g
<1>3. g' = g
  BY <1>1 DEF g
<1>4. records' = records
  BY <1>0, <1>3
<1> HIDE DEF records
<1>5. bad' = bad
  BY <1>0, <1>3, <1>4 DEF TestError, Supplied
<1>6. usable' = usable
  BY <1>0, <1>4 DEF Supplied
<1>7. embedErr' = embedErr
  BY <1>0, <1>4 DEF Supplied
<1> HIDE DEF bad, usable, embedErr
<1>8. locals' = locals
  BY <1>0, <1>6 DEF IsLocal, Kind
<1>9. thirds' = thirds
  BY <1>0, <1>3, <1>6 DEF IsThirdParty, Kind
<1> HIDE DEF locals, thirds
<1>10. tested' = tested /\ newLocal' = newLocal /\ newThird' = newThird
  BY <1>3, <1>8, <1>9
<1> HIDE DEF tested, newLocal, newThird
<1>11. forks(newThird)' = forks(newThird)
  BY <1>0, <1>10 DEF Kind
<1> HIDE DEF forks
<1>12. reached' = reached /\ rawLocal' = rawLocal /\ known' = known /\ third' = third
  BY <1>3, <1>10
<1> HIDE DEF reached, rawLocal, known, third
<1>13. result' = result
  BY <1>3, <1>7, <1>8, <1>10, <1>11, <1>12
<1> HIDE DEF result
<1>14. merged' = merged
  BY <1>3, <1>5, <1>13
<1> HIDE DEF merged
<1>15. passes' = passes
  BY <1>0, <1>3, <1>14
<1> QED
  BY <1>1, <1>2, <1>15

\* Every stage knows what the graph stands for.
ListingInv ==
  /\ tree \in Trees
  /\ stage \in {"start", "single", "build", "test", "done"}
  /\ stage # "start" => \E request \in Requests : subPackages = request.subPackages
  /\ stage = "start" => served = "no one"
  /\ stage = "single" => doCheck /\ served = "no one"
  /\ served = "single" => stage = "done" /\ graph = TwoPasses
  /\ served = "declined" /\ stage = "build" => Cause
  /\ stage = "test" => graph = BuildPass /\ BuildPass.ok /\ doCheck /\ BuildPass.local # {}
  /\ stage = "done" /\ graph.ok => graph = TwoPasses

\* After the start, the call is one that the assumptions allow.
LEMMA ListingFits ==
  ASSUME ListingInv
  PROVE  WellFormed(tree) /\ (stage # "start" => Fit /\ subPackages # {})
<1>1. tree \in Trees /\ WellFormed(tree)
  BY TreesAssumption DEF ListingInv
<1>2. ASSUME stage # "start" PROVE Fit /\ subPackages # {}
  <2>1. PICK request \in Requests : subPackages = request.subPackages
    BY <1>2 DEF ListingInv
  <2> QED
    BY <1>1, <2>1, RequestsAssumption, TwinsAssumption DEF Fit
<1> QED
  BY <1>1, <1>2

\* What is built is of the main module, so there is a package to test.
LEMMA BuildIsLocal ==
  ASSUME Fit, subPackages # {}, BuildPass.ok
  PROVE  /\ BuildPass = BuildGraph({}) /\ BuildPass.local # {} /\ BuildPass.siblings = Siblings
         /\ \A p \in subPackages : InMain(tree, p)
         /\ \A p \in BuildPaths : Sound(p)
<1>1. WellFormed(tree) /\ subPackages \subseteq DOMAIN tree.pkgs
  BY DEF Fit
<1>2. /\ BuildPass = BuildGraph({}) /\ \A p \in subPackages : InMain(tree, p)
      /\ \A p \in BuildPaths : Sound(p)
  BY <1>1, BuildPassFacts
<1>3. PICK p \in subPackages : TRUE
  OBVIOUS
<1>4. tree.pkgs[p].mod = MainModule(tree) /\ p \in DOMAIN tree.pkgs
  BY <1>1, <1>2 DEF InMain
<1>5. IsLocal(tree.pkgs[p])
  BY <1>1, <1>4, MainFacts DEF IsLocal, Kind
<1>6. p \in BuildLocal
  BY <1>1, <1>5, BuildPathsFacts DEF BuildLocal
<1>7. BuildPass.local = LocalRows({}, Unresolved) /\ BuildPass.siblings = Siblings
  BY <1>2, BuildGraphFacts
<1> QED
  BY <1>2, <1>6, <1>7 DEF LocalRows

\* When the single pass serves, its result is that of the two passes.
LEMMA SingleServes ==
  ASSUME Fit, subPackages # {}, doCheck, SinglePass.ok
  PROVE  SinglePass = TwoPasses
<1>1. Serves /\ SinglePass = TestPass(BuildPass)
  BY SinglePassIs DEF Declined
<1>2. BuildPass.ok
  BY <1>1, BuildPassFacts DEF Serves, Fit
<1> QED
  BY <1>1, <1>2, BuildIsLocal DEF TwoPasses

\* When it declines, there is a cause.
LEMMA DeclineHasCause ==
  ASSUME Fit, subPackages # {}, doCheck, ~SinglePass.ok
  PROVE  Cause
<1> SUFFICES ASSUME ~Cause PROVE FALSE
  OBVIOUS
<1> DEFINE Q == TestPatterns(Scanned)
<1>1. /\ plain /\ \A p \in subPackages : tree.pkgs[p].listed /\ InMain(tree, p)
      /\ TwoPasses.ok /\ BuildPass.siblings \subseteq Scanned /\ ~Ambiguous(All)
  BY DEF Cause, All
<1>2. BuildPass.ok
  BY <1>1 DEF TwoPasses
<1>3. BuildPass.local # {} /\ BuildPass.siblings = Siblings /\ \A p \in BuildPaths : Sound(p)
  BY <1>2, BuildIsLocal
<1>4. TestPass(BuildPass).ok
  BY <1>1, <1>2, <1>3 DEF TwoPasses
<1>5. WellFormed(tree) /\ subPackages \subseteq DOMAIN tree.pkgs
  BY DEF Fit
<1>6. ASSUME NEW p \in subPackages PROVE BareRow(tree, Q, p) \in All
  <2>1. tree.pkgs[p].mod # NoModule
    BY <1>1, <1>5, MainFacts DEF InMain
  <2>2. Here \in Match(tree, Q, p)
    BY <1>1, <2>1 DEF Match, TestPatterns
  <2>3. p \in Matched(tree, Q)
    BY <1>5, <2>2 DEF Matched
  <2> QED
    BY <1>5, <2>3, ListTestFacts, EveryRecord DEF All
<1>7. ~Ambiguous({r \in All : IsBare(r)})
  BY <1>1 DEF Ambiguous
<1>8. Serves
  BY <1>1, <1>3, <1>4, <1>6, <1>7 DEF Serves
<1> QED
  BY <1>4, <1>8, SinglePassIs

\* A cause does not go away.
LEMMA SameCause ==
  ASSUME UNCHANGED inputs
  PROVE  Cause' <=> Cause
<1>1. BuildPass' = BuildPass /\ TwoPasses' = TwoPasses
  BY SameInputs
<1> QED
  BY <1>1 DEF Cause, Scanned, inputs

\* Whichever way resolve_packages takes, a graph it returns is the one that a
\* build run and a test run of go list give, and a call that got past the single
\* pass had a cause to: the inductive invariant.
THEOREM ListingInvHolds == ListingSpec => []ListingInv
<1>1. ListingInit => ListingInv
  BY DEF ListingInit, ListingInv, Failed
<1>2. ListingInv /\ [ListingNext]_listingVars => ListingInv'
  <2> SUFFICES ASSUME ListingInv, [ListingNext]_listingVars PROVE ListingInv'
    OBVIOUS
  <2>0. WellFormed(tree) /\ (stage # "start" => Fit /\ subPackages # {})
    BY ListingFits
  <2>1. CASE Call
    BY <2>1, Zenon DEF Call, ListingInv
  <2> DEFINE same == UNCHANGED inputs
  <2>2. ASSUME same
        PROVE  /\ tree' \in Trees
               /\ stage # "start" => \E request \in Requests : subPackages' = request.subPackages
               /\ BuildPass' = BuildPass /\ TwoPasses' = TwoPasses /\ doCheck' = doCheck
               /\ Cause' <=> Cause
    BY <2>2, SameInputs, SameCause DEF ListingInv, inputs
  <2>3. CASE Single
    <3>1. SinglePass = TwoPasses
      BY <2>0, <2>3, SingleServes DEF Single, ListingInv
    <3> QED
      BY <2>2, <2>3, <3>1 DEF Single, ListingInv
  <2>4. CASE Decline
    <3>1. Cause
      BY <2>0, <2>4, DeclineHasCause DEF Decline, ListingInv
    <3> QED
      BY <2>2, <2>4, <3>1 DEF Decline, ListingInv
  <2>5. CASE SingleRunFails
    BY <2>2, <2>5 DEF SingleRunFails, ListingInv
  <2>6. CASE Build
    <3>1. stage' = "done" => graph' = TwoPasses
      BY <2>6 DEF Build, TwoPasses
    <3> QED
      BY <2>2, <2>6, <3>1 DEF Build, ListingInv
  <2>7. CASE Test
    <3>1. graph' = TwoPasses
      BY <2>7 DEF Test, ListingInv, TwoPasses
    <3> QED
      BY <2>2, <2>7, <3>1 DEF Test, ListingInv
  <2>8. CASE RunFails
    BY <2>2, <2>8 DEF RunFails, ListingInv, Failed
  <2>9. CASE UNCHANGED listingVars
    <3>1. same
      BY <2>9 DEF listingVars, inputs
    <3> QED
      BY <2>2, <2>9, <3>1 DEF listingVars, ListingInv
  <2> QED
    BY <2>1, <2>3, <2>4, <2>5, <2>6, <2>7, <2>8, <2>9 DEF ListingNext, Done
<1> QED
  BY <1>1, <1>2, PTL DEF ListingSpec

\* For every tree the go command accepts, and every call: the graph that
\* resolve_single_pass makes of one run over more patterns is the graph of the
\* two passes it stands in for.
THEOREM SinglePassAgreesHolds == ListingSpec => []SinglePassAgrees
<1>1. ListingInv => SinglePassAgrees
  BY DEF ListingInv, SinglePassAgrees
<1> QED
  BY <1>1, ListingInvHolds, PTL

\* resolve_single_pass falls back to the two passes for the documented causes
\* only: no call pays for three runs of go list without one.
THEOREM DeclinesForACauseHolds == ListingSpec => []DeclinesForACause
<1>1. ListingInv => DeclinesForACause
  BY DEF ListingInv, DeclinesForACause, Cause
<1> QED
  BY <1>1, ListingInvHolds, PTL

\* restrict_to_patterns, which drops records and narrows what is left, gives what
\* go list prints for the fewer patterns, for any tree and any siblings.
THEOREM RestrictIsListingHolds == ListingSpec => []RestrictIsListing
<1>1. ListingInv => RestrictIsListing
  <2> SUFFICES ASSUME ListingInv, NEW siblings \in SUBSET Scanned,
                      RestrictToPatterns(ListTest(tree, TestPatterns(Scanned)), TestPatterns(siblings)).ok
               PROVE  {Summary(r) : r \in RestrictToPatterns(ListTest(tree, TestPatterns(Scanned)),
                                                             TestPatterns(siblings)).records}
                        = {Summary(r) : r \in ListTest(tree, TestPatterns(siblings))}
    BY DEF RestrictIsListing
  <2>1. WellFormed(tree)
    BY ListingFits
  <2>2. ~Ambiguous(ListTest(tree, TestPatterns(Scanned)))
    BY DEF RestrictToPatterns, Declined
  <2>3. TestPatterns(siblings) \subseteq TestPatterns(Scanned)
    BY DEF TestPatterns
  <2> QED
    BY <2>1, <2>2, <2>3, RestrictFacts
<1> QED
  BY <1>1, ListingInvHolds, PTL

-----------------------------------------------------------------------------
(***************************************************************************)
(* What the finished graph holds.                                          *)
(***************************************************************************)
\* A finished graph is that of the build, with the test pass merged or not.
LEMMA DoneGraph ==
  ASSUME Fit, subPackages # {}, TwoPasses.ok, graph = TwoPasses
  PROVE  /\ BuildPass.ok
         /\ \E E, U : graph.local = LocalRows(E, U)
         /\ graph.packages = PackageRows
         /\ doCheck => LET P  == TestPatterns(Siblings)
                           tp == ClassifyTest(ListTest(tree, P), BuildGraph({}))
                       IN  /\ tp.ok
                           /\ graph.local = LocalRows(tp.embeds, Unresolved \cup tp.unresolved)
                           /\ graph.testPackages = tp.testPackages
                           /\ graph.testLocal = tp.testLocal
<1>1. BuildPass.ok
  BY DEF TwoPasses
<1>2. BuildPass = BuildGraph({}) /\ BuildPass.local # {} /\ BuildPass.siblings = Siblings
  BY <1>1, BuildIsLocal
<1>3. CASE ~doCheck
  <2>1. graph = BuildGraph({})
    BY <1>2, <1>3 DEF TwoPasses
  <2> QED
    BY <1>1, <1>3, <2>1, BuildGraphFacts
<1>4. CASE doCheck
  <2> DEFINE P  == TestPatterns(Siblings)
             tp == ClassifyTest(ListTest(tree, P), BuildGraph({}))
  <2>1. graph = MergeTestPass(BuildGraph({}), tp)
    BY <1>1, <1>2, <1>4 DEF TwoPasses, TestPass
  <2> HIDE DEF tp
  <2>2. tp.ok
    BY <2>1 DEF MergeTestPass, Failed
  <2>3. graph = GraphRow(PackageRows, LocalRows({} \cup tp.embeds, Unresolved \cup tp.unresolved),
                         Siblings, Replacements \cup tp.replacements, tp.testPackages, tp.testLocal)
    BY <2>1, <2>2, MergeFacts
  <2>4. {} \cup tp.embeds = tp.embeds
    OBVIOUS
  <2>5. /\ graph.packages = PackageRows
        /\ graph.local = LocalRows(tp.embeds, Unresolved \cup tp.unresolved)
        /\ graph.testPackages = tp.testPackages /\ graph.testLocal = tp.testLocal
    BY <2>3, <2>4 DEF GraphRow, GraphOf
  <2> QED
    BY <1>1, <1>4, <2>2, <2>5 DEF tp
<1> QED
  BY <1>3, <1>4

\* Every package of the build is local, third-party, or of no module.
LEMMA BuildKinds ==
  ASSUME WellFormed(tree), subPackages \subseteq DOMAIN tree.pkgs
  PROVE  /\ BuildLocal \cup BuildThird = {p \in BuildPaths : tree.pkgs[p].mod # NoModule}
         /\ BuildLocal \cap BuildThird = {}
         /\ IsFiniteSet(BuildPaths)
<1>1. BuildPaths \subseteq DOMAIN tree.pkgs /\ IsFiniteSet(DOMAIN tree.pkgs)
  BY BuildPathsFacts DEF WellFormed
<1>2. \A m \in DOMAIN tree.kind : tree.kind[m] \in {"main", "dir", "fetched", "fork"}
  BY DEF WellFormed
<1>3. \A p \in BuildPaths : tree.pkgs[p].mod # NoModule =>
        Kind(tree.pkgs[p].mod) \in {"main", "dir", "fetched", "fork"}
  BY <1>1, <1>2, MainFacts DEF Kind
<1>4. BuildLocal \cup BuildThird = {p \in BuildPaths : tree.pkgs[p].mod # NoModule}
  BY <1>3 DEF BuildLocal, BuildThird, IsLocal, IsThirdParty
<1>5. BuildLocal \cap BuildThird = {}
  BY DEF BuildLocal, BuildThird, IsLocal, IsThirdParty
<1> QED
  BY <1>1, <1>4, <1>5, FS_Subset

\* What a binary can link: packages of a module.
Linkable == BuildLocal \cup BuildThird

\* The links of a package in a finished graph are its imports.
LEMMA LinksFacts ==
  ASSUME WellFormed(tree), subPackages \subseteq DOMAIN tree.pkgs,
         NEW E, NEW U, graph.local = LocalRows(E, U), graph.packages = PackageRows
  PROVE  /\ Paths(graph.local) = BuildLocal /\ Paths(graph.packages) = BuildThird
         /\ \A p \in Linkable : Linkable \cap Links(graph, p) = Linkable \cap tree.pkgs[p].imports
<1> DEFINE row(p) == LocalRow(p, BuildLocal, BuildThird, p \in E, p \in U)
<1>1. graph.local = {row(p) : p \in BuildLocal} /\ graph.packages = {PackageRow(p) : p \in BuildThird}
  BY DEF LocalRows, PackageRows
<1>2. \A p : /\ row(p).path = p /\ row(p).localImports = tree.pkgs[p].imports \cap BuildLocal
             /\ row(p).thirdPartyImports = (tree.pkgs[p].imports \ BuildLocal) \cap BuildThird
  BY DEF LocalRow
<1>3. \A p : PackageRow(p).path = p /\ PackageRow(p).imports = tree.pkgs[p].imports
  BY DEF PackageRow
<1> HIDE DEF row
<1>4. Paths(graph.local) = BuildLocal /\ Paths(graph.packages) = BuildThird
  BY <1>1, <1>2, <1>3 DEF Paths
<1>5. ASSUME NEW p \in BuildLocal
      PROVE  Links(graph, p) = tree.pkgs[p].imports \cap Linkable
  <2>1. {x \in graph.local : x.path = p} = {row(p)}
    BY <1>1, <1>2
  <2>2. {y \in graph.packages : y.path = p} = {}
    BY <1>1, <1>3, BuildKinds
  <2>3. Links(graph, p) = row(p).localImports \cup row(p).thirdPartyImports
    BY <2>1, <2>2 DEF Links
  <2> QED
    BY <1>2, <2>3 DEF Linkable
<1>6. ASSUME NEW p \in BuildThird
      PROVE  Links(graph, p) = tree.pkgs[p].imports
  <2>1. {x \in graph.local : x.path = p} = {}
    BY <1>1, <1>2, BuildKinds
  <2>2. {y \in graph.packages : y.path = p} = {PackageRow(p)}
    BY <1>1, <1>3
  <2> DEFINE ofLocal == UNION {l.localImports \cup l.thirdPartyImports :
                                 l \in {x \in graph.local : x.path = p}}
             ofThird == UNION {x.imports : x \in {y \in graph.packages : y.path = p}}
  <2>3. ofLocal = {} /\ ofThird = PackageRow(p).imports
    BY <2>1, <2>2
  <2>4. Links(graph, p) = ofLocal \cup ofThird
    BY DEF Links
  <2> HIDE DEF ofLocal, ofThird
  <2>5. Links(graph, p) = PackageRow(p).imports
    BY <2>3, <2>4
  <2> QED
    BY <1>3, <2>5
<1> QED
  BY <1>4, <1>5, <1>6 DEF Linkable

\* What the walk over them reaches.
LEMMA LinkedIs ==
  ASSUME Fit, BuildPass.ok,
         NEW E, NEW U, graph.local = LocalRows(E, U), graph.packages = PackageRows,
         NEW p \in subPackages
  PROVE  LET known  == Paths(graph.local) \cup Paths(graph.packages)
             linked == Reach({p} \cap known, [q \in known |-> known \cap Links(graph, q)])
             R      == Reach({p}, Imports(tree))
         IN  R \subseteq BuildPaths /\ linked = {q \in R : tree.pkgs[q].mod # NoModule}
<1> DEFINE known  == Paths(graph.local) \cup Paths(graph.packages)
           next   == [q \in known |-> known \cap Links(graph, q)]
           linked == Reach({p} \cap known, next)
           R      == Reach({p}, Imports(tree))
           k      == tree.pkgs
<1>0. WellFormed(tree) /\ subPackages \subseteq DOMAIN k
  BY DEF Fit
<1>1. known = Linkable /\ \A q \in known : next[q] = known \cap k[q].imports
  BY <1>0, LinksFacts DEF Linkable
<1>2. known = {q \in BuildPaths : k[q].mod # NoModule} /\ IsFiniteSet(known)
  BY <1>0, <1>1, BuildKinds, FS_Subset DEF Linkable
<1>3. /\ subPackages \subseteq BuildPaths /\ BuildPaths \subseteq DOMAIN k
      /\ \A q \in BuildPaths : k[q].imports \subseteq BuildPaths
  BY <1>0, BuildPathsFacts
<1>4. DOMAIN next = known
  OBVIOUS
<1> HIDE DEF known, next, linked, R
<1>5. p \in known
  <2>1. InMain(tree, p)
    BY <1>0, BuildPassFacts
  <2> QED
    BY <1>0, <1>2, <1>3, <2>1, MainFacts DEF InMain
<1>6. /\ p \in R /\ R \subseteq DOMAIN k
      /\ \A q \in R : k[q].imports \subseteq R
      /\ \A C : {p} \subseteq C /\ (\A q \in C \cap DOMAIN k : k[q].imports \subseteq C) => R \subseteq C
  BY <1>0, ImportsFacts DEF R
<1>7. R \subseteq BuildPaths
  BY <1>3, <1>6
<1>8. /\ p \in linked /\ linked \subseteq known /\ ClosedUnder(linked, next)
      /\ \A C : {p} \subseteq C /\ ClosedUnder(C, next) => linked \subseteq C
  <2>1. {p} \cap known = {p} /\ ClosedUnder(known, next)
    BY <1>1, <1>5 DEF ClosedUnder
  <2>2. known \subseteq DOMAIN next /\ IsFiniteSet(DOMAIN next)
    BY <1>2, <1>4
  <2>3. linked = Reach({p}, next)
    BY <2>1 DEF linked
  <2> QED
    BY <1>5, <2>1, <2>2, <2>3, ReachFacts
<1>9. linked \subseteq R
  <2>1. {p} \subseteq R \cap known
    BY <1>5, <1>6
  <2>2. ClosedUnder(R \cap known, next)
    BY <1>1, <1>6 DEF ClosedUnder
  <2> QED
    BY <1>8, <2>1, <2>2
<1>10. R \subseteq {q \in DOMAIN k : k[q].mod = NoModule \/ q \in linked}
  <2> DEFINE C == {q \in DOMAIN k : k[q].mod = NoModule \/ q \in linked}
  <2>1. p \in C
    BY <1>6, <1>8
  <2>2. ASSUME NEW q \in C, NEW x \in k[q].imports PROVE x \in C
    <3>1. x \in DOMAIN k
      BY <1>0 DEF WellFormed
    <3>2. CASE k[q].mod = NoModule
      BY <1>0, <3>1, <3>2 DEF WellFormed
    <3>3. CASE q \in linked /\ k[x].mod # NoModule
      <4>1. q \in known /\ x \in known
        BY <1>2, <1>3, <1>8, <3>3
      <4>2. x \in next[q]
        BY <1>1, <4>1
      <4> QED
        BY <1>4, <1>8, <3>1, <3>3, <4>1, <4>2 DEF ClosedUnder
    <3> QED
      BY <3>1, <3>2, <3>3
  <2>3. \A q \in C \cap DOMAIN k : k[q].imports \subseteq C
    BY <2>2
  <2> HIDE DEF C
  <2>4. R \subseteq C
    BY <1>6, <2>1, <2>3
  <2> QED
    BY <2>4 DEF C
<1>11. linked = {q \in R : k[q].mod # NoModule}
  BY <1>2, <1>8, <1>9, <1>10
<1> QED
  BY <1>7, <1>11 DEF known, next, linked, R

\* compute_sub_package_closures records for a binary the modules of the packages
\* it links: not of what other binaries or the tests import, and also where a
\* third-party package imports one of a replaced module.
THEOREM ClosuresAreLinkedHolds == ListingSpec => []ClosuresAreLinked
<1>1. ListingInv => ClosuresAreLinked
  <2> SUFFICES ASSUME ListingInv, stage = "done", graph.ok, NEW p \in subPackages
               PROVE  LET linked == Reach({p}, Imports(tree))
                      IN  SubPackageClosure(graph, p) =
                            [mods |-> {tree.pkgs[q].mod : q \in {r \in linked : IsThirdParty(tree.pkgs[r])}},
                             siblings |-> {tree.pkgs[q].mod : q \in {r \in linked :
                                             IsLocal(tree.pkgs[r]) /\ ~InMain(tree, r)}}]
    BY DEF ClosuresAreLinked
  <2> DEFINE known  == Paths(graph.local) \cup Paths(graph.packages)
             linked == Reach({p} \cap known, [q \in known |-> known \cap Links(graph, q)])
             R      == Reach({p}, Imports(tree))
             k      == tree.pkgs
  <2>1. Fit /\ WellFormed(tree) /\ subPackages # {} /\ graph = TwoPasses /\ TwoPasses.ok
    BY ListingFits DEF ListingInv
  <2>2. PICK E, U : graph.local = LocalRows(E, U)
    BY <2>1, DoneGraph
  <2>3. BuildPass.ok /\ graph.packages = PackageRows
    BY <2>1, DoneGraph
  <2>4. R \subseteq BuildPaths /\ linked = {q \in R : k[q].mod # NoModule}
    BY <2>1, <2>2, <2>3, LinkedIs
  <2>5. BuildPaths \subseteq DOMAIN k
    BY <2>1, BuildPathsFacts DEF Fit
  <2>6. SubPackageClosure(graph, p) =
          [mods |-> {x.mod : x \in {y \in graph.packages : y.path \in linked}},
           siblings |-> {x.mod : x \in {y \in graph.local : /\ y.path \in linked
                                                              /\ Kind(y.mod) # "main"}}]
    BY DEF SubPackageClosure
  <2> HIDE DEF linked, R
  <2>7. {x.mod : x \in {y \in graph.packages : y.path \in linked}}
          = {k[q].mod : q \in {r \in R : IsThirdParty(k[r])}}
    <3>1. \A q : PackageRow(q).path = q /\ PackageRow(q).mod = k[q].mod
      BY DEF PackageRow
    <3>2. {y \in graph.packages : y.path \in linked} = {PackageRow(q) : q \in BuildThird \cap linked}
      BY <2>3, <3>1 DEF PackageRows
    <3>3. BuildThird \cap linked = {r \in R : IsThirdParty(k[r])}
      BY <2>4 DEF BuildThird, IsThirdParty
    <3> QED
      BY <3>1, <3>2, <3>3
  <2>8. {x.mod : x \in {y \in graph.local : y.path \in linked /\ Kind(y.mod) # "main"}}
          = {k[q].mod : q \in {r \in R : IsLocal(k[r]) /\ ~InMain(tree, r)}}
    <3> DEFINE row(q) == LocalRow(q, BuildLocal, BuildThird, q \in E, q \in U)
               far == {r \in R : IsLocal(k[r]) /\ ~InMain(tree, r)}
    <3>1. \A q : row(q).path = q /\ row(q).mod = k[q].mod
      BY DEF LocalRow
    <3>2. graph.local = {row(q) : q \in BuildLocal}
      BY <2>2 DEF LocalRows
    <3> HIDE DEF row
    <3>3. {y \in graph.local : y.path \in linked /\ Kind(y.mod) # "main"}
            = {row(q) : q \in {r \in BuildLocal \cap linked : Kind(k[r].mod) # "main"}}
      BY <3>1, <3>2
    <3>4. \A q \in BuildLocal : Kind(k[q].mod) # "main" <=> ~InMain(tree, q)
      BY <2>1, <2>5, MainFacts DEF BuildLocal, IsLocal, Kind, InMain
    <3>5. BuildLocal \cap linked = {r \in R : IsLocal(k[r])}
      BY <2>4 DEF BuildLocal, IsLocal
    <3>6. {r \in BuildLocal \cap linked : Kind(k[r].mod) # "main"} = far
      BY <3>4, <3>5
    <3> HIDE DEF far
    <3>7. {x.mod : x \in {row(q) : q \in far}} = {k[q].mod : q \in far}
      BY <3>1
    <3> QED
      BY <3>3, <3>6, <3>7 DEF far
  <2> QED
    BY <2>6, <2>7, <2>8 DEF R
<1> QED
  BY <1>1, ListingInvHolds, PTL

-----------------------------------------------------------------------------
(***************************************************************************)
(* What a test reaches.                                                    *)
(***************************************************************************)
\* What the tests of a package reach is the least closed set with it and their imports.
LEMMA TestReachFacts ==
  ASSUME NEW t, WellFormed(t), NEW p \in DOMAIN t.pkgs
  PROVE  LET R == TestReach(t, p)
         IN  /\ {p} \cup TestImports(t, p) \subseteq R /\ R \subseteq DOMAIN t.pkgs
             /\ \A q \in R : t.pkgs[q].imports \subseteq R
             /\ \A C : /\ {p} \cup TestImports(t, p) \subseteq C
                       /\ \A q \in C \cap DOMAIN t.pkgs : t.pkgs[q].imports \subseteq C
                       => R \subseteq C
<1> DEFINE S == {p} \cup TestImports(t, p)
<1>1. S \subseteq DOMAIN t.pkgs
  BY DEF TestImports, WellFormed
<1>2. {p} \cup t.pkgs[p].testImports \cup t.pkgs[p].xTestImports = S
  BY DEF TestImports
<1>3. TestReach(t, p) = Reach(S, Imports(t))
  BY <1>2 DEF TestReach
<1> HIDE DEF S
<1>4. LET R == Reach(S, Imports(t))
      IN  /\ S \subseteq R /\ R \subseteq DOMAIN t.pkgs
          /\ \A q \in R : t.pkgs[q].imports \subseteq R
          /\ \A C : S \subseteq C /\ (\A q \in C \cap DOMAIN t.pkgs : t.pkgs[q].imports \subseteq C)
                      => R \subseteq C
  BY <1>1, ImportsFacts
<1> QED
  BY <1>3, <1>4 DEF S

\* A package that a test of p reaches has a record, be it one made for p.
LEMMA ReachIsListed ==
  ASSUME NEW t, WellFormed(t), NEW P, NEW p \in Matched(t, P), NEW q \in TestReach(t, p)
  PROVE  \/ BareRow(t, P, q) \in ListTest(t, P)
         \/ p \in Tested(t, P) /\ q \in Copied(t, p) /\ CopyRow(t, P, q, p) \in ListTest(t, P)
<1> DEFINE N == ListTest(t, P)
           k == t.pkgs
           bare(x) == BareRow(t, P, x) \in N
           copy(x) == p \in Tested(t, P) /\ x \in Copied(t, p) /\ CopyRow(t, P, x, p) \in N
           A == {x \in DOMAIN k : bare(x) \/ copy(x)}
<1>0. p \in DOMAIN k /\ \A x \in DOMAIN k : k[x].imports \subseteq DOMAIN k
  BY MatchedAreListed DEF WellFormed
<1>1. Roots(t, P) \subseteq N /\ ClosedIn(N, Importables(t, P))
  BY ListTestFacts
<1>2. bare(p)
  BY <1>1, EveryRecord
<1> HIDE DEF N
<1>3. ASSUME NEW r \in N, NEW x \in DOMAIN k, Bare(x) \in r.imports PROVE bare(x)
  <2>1. BareRow(t, P, x) \in Importables(t, P)
    BY EveryRecord
  <2>2. Name(BareRow(t, P, x)) = Bare(x)
    BY DEF BareRow, Row, Name, Bare
  <2> QED
    BY <1>1, <1>3, <2>1, <2>2 DEF ClosedIn
<1>4. ASSUME p \in Tested(t, P), NEW r \in N, NEW x \in Copied(t, p), Copy(x, p) \in r.imports
      PROVE  copy(x)
  <2>1. CopyRow(t, P, x, p) \in Importables(t, P)
    BY <1>4, EveryRecord
  <2>2. Name(CopyRow(t, P, x, p)) = Copy(x, p)
    BY DEF CopyRow, Row, Name, Copy
  <2> QED
    BY <1>1, <1>4, <2>1, <2>2 DEF ClosedIn
<1>5. ASSUME p \in Tested(t, P), NEW r \in N, NEW S, S \subseteq DOMAIN k,
             Renamed(t, p, S) \subseteq r.imports, NEW x \in S
      PROVE  x \in A
  <2>1. IF x \in Copied(t, p) THEN Copy(x, p) \in r.imports ELSE Bare(x) \in r.imports
    BY <1>5 DEF Renamed
  <2> QED
    BY <1>3, <1>4, <1>5, <2>1
<1>6. ASSUME NEW x \in k[p].testImports PROVE x \in A
  <2>1. k[p].tests /\ p \in Tested(t, P) /\ p \in Copied(t, p)
    BY <1>0, <1>6, CopiedFacts DEF WellFormed, Tested, HasTests
  <2>2. MainRow(t, p) \in N
    BY <1>1, <2>1, EveryRecord
  <2>3. Copy(p, p) \in MainRow(t, p).imports
    <3>1. MainRow(t, p).imports = MainImports(t, p)
      BY DEF MainRow, Row
    <3> QED
      BY <2>1, <3>1 DEF MainImports, Renamed
  <2>4. CopyRow(t, P, p, p) \in N
    BY <1>4, <2>1, <2>2, <2>3
  <2> DEFINE S == k[p].imports \cup k[p].testImports
  <2>5. CopyRow(t, P, p, p).imports = Renamed(t, p, S) /\ S \subseteq DOMAIN k /\ x \in S
    <3>1. CopyRow(t, P, p, p).imports = CopyImports(t, p, p)
      BY DEF CopyRow, Row
    <3> QED
      BY <1>0, <1>6, <3>1 DEF CopyImports, WellFormed
  <2> HIDE DEF S, A
  <2> QED
    BY <1>5, <2>1, <2>4, <2>5
<1>7. ASSUME NEW x \in k[p].xTestImports PROVE x \in A
  <2>1. k[p].xtests /\ p \in Tested(t, P)
    BY <1>0, <1>7 DEF WellFormed, Tested, HasTests
  <2>2. MainRow(t, p) \in N /\ XTestRow(t, p) \in Importables(t, P)
    BY <1>1, <2>1, EveryRecord
  <2>3. Name(XTestRow(t, p)) \in MainRow(t, p).imports
    <3>1. MainRow(t, p).imports = MainImports(t, p)
      BY DEF MainRow, Row
    <3>2. Name(XTestRow(t, p)) = Copy(XTest(p), p)
      BY DEF XTestRow, Row, Name, Copy
    <3> QED
      BY <2>1, <3>1, <3>2 DEF MainImports
  <2>4. XTestRow(t, p) \in N
    BY <1>1, <2>2, <2>3 DEF ClosedIn
  <2> DEFINE S == k[p].xTestImports
  <2>5. XTestRow(t, p).imports = Renamed(t, p, S) /\ S \subseteq DOMAIN k /\ x \in S
    BY <1>0, <1>7 DEF XTestRow, Row, WellFormed
  <2> HIDE DEF S, A
  <2> QED
    BY <1>5, <2>1, <2>4, <2>5
<1>8. ASSUME NEW y \in A, NEW x \in k[y].imports PROVE x \in A
  <2>1. x \in DOMAIN k
    BY <1>0
  <2>2. CASE bare(y)
    <3>1. Bare(x) \in BareRow(t, P, y).imports
      BY DEF BareRow, Row, BareImports
    <3> QED
      BY <1>3, <2>1, <2>2, <3>1
  <2>3. CASE copy(y)
    <3> DEFINE S == k[y].imports \cup IF y = p THEN k[p].testImports ELSE {}
    <3>1. CopyRow(t, P, y, p).imports = Renamed(t, p, S)
      BY DEF CopyRow, Row, CopyImports
    <3>2. S \subseteq DOMAIN k /\ x \in S
      BY <1>0 DEF WellFormed
    <3> HIDE DEF S, A
    <3> QED
      BY <1>5, <2>3, <3>1, <3>2
  <2> QED
    BY <2>2, <2>3
<1>9. TestReach(t, p) \subseteq A
  <2>1. {p} \cup TestImports(t, p) \subseteq A
    BY <1>0, <1>2, <1>6, <1>7 DEF TestImports
  <2>2. \A y \in A \cap DOMAIN k : k[y].imports \subseteq A
    BY <1>8
  <2> HIDE DEF A
  <2> QED
    BY <1>0, <2>1, <2>2, TestReachFacts
<1> QED
  BY <1>9 DEF N

\* It is kept, unless it is one to be overlooked.
LEMMA ReachIsKept ==
  ASSUME WellFormed(tree), NEW P, NEW p \in Matched(tree, P), NEW q \in TestReach(tree, p),
         Sound(q), Last(q) # ".test", q # XTest(p)
  PROVE  q \in KeptPaths(ListTest(tree, P))
<1>1. CASE q = p
  BY <1>1, MatchIsKept
<1>2. CASE BareRow(tree, P, q) \in ListTest(tree, P)
  <2> DEFINE r == BareRow(tree, P, q)
  <2>1. r.path = q /\ r.for = NoTest /\ r.err = tree.pkgs[q].err
    BY DEF BareRow, Row
  <2> HIDE DEF r
  <2>2. (r.err = "none" \/ Supplied(r, Owner(r))) /\ ~IsTestMain(r) /\ ~IsVariantOfTested(r)
    BY <2>1 DEF Sound, Supplied, Owner, IsTestMain, IsVariantOfTested
  <2> QED
    BY <1>2, <2>1, <2>2 DEF KeptPaths, Kept, Paths, r
<1>3. CASE q # p /\ CopyRow(tree, P, q, p) \in ListTest(tree, P)
  <2> DEFINE r == CopyRow(tree, P, q, p)
  <2>1. r.path = q /\ r.for = p /\ r.err = tree.pkgs[q].err
    BY <1>3 DEF CopyRow, Row, CopyErr
  <2> HIDE DEF r
  <2>2. (r.err = "none" \/ Supplied(r, Owner(r))) /\ ~IsTestMain(r) /\ ~IsVariantOfTested(r)
    BY <1>3, <2>1 DEF Sound, Supplied, Owner, IsTestMain, IsVariantOfTested
  <2> QED
    BY <1>3, <2>1, <2>2 DEF KeptPaths, Kept, Paths, r
<1> QED
  BY <1>1, <1>2, <1>3, ReachIsListed

\* A record without an error that the pass reports is of a sound package.
LEMMA KeptIsSound ==
  ASSUME WellFormed(tree), NEW P, NEW p \in KeptPaths(ListTest(tree, P))
  PROVE  p \in DOMAIN tree.pkgs /\ Sound(p) /\ Last(p) # ".test"
<1>1. PICK r \in Kept(ListTest(tree, P)) : r.path = p
  BY DEF KeptPaths, Paths
<1>2. p \in DOMAIN tree.pkgs
  BY <1>1, ListingIsRegular DEF Regular, TrueTo
<1>3. /\ r \in Importables(tree, P) \cup Mains(tree, P)
      /\ r.err = "none" \/ Supplied(r, Owner(r))
      /\ ~IsTestMain(r) /\ ~IsVariantOfTested(r)
  BY <1>1, ListTestFacts DEF Kept
<1>4. Last(p) # ".test"
  BY <1>1, <1>3 DEF IsTestMain
<1>5. Owner(r) = p
  BY <1>1, <1>3 DEF Owner, IsVariantOfTested
<1>6. CASE r \in Mains(tree, P)
  <2>1. PICK x \in Tested(tree, P) : r = MainRow(tree, x)
    BY <1>6, EveryRecord
  <2>2. r.path = TestMain(x) /\ x \in DOMAIN tree.pkgs
    BY <2>1 DEF MainRow, Row, Tested, Matched
  <2> QED
    BY <1>3, <2>2, TestMainEnds DEF IsTestMain
<1>7. ASSUME NEW x \in DOMAIN tree.pkgs, r = BareRow(tree, P, x) PROVE r.err = tree.pkgs[p].err
  BY <1>1, <1>7 DEF BareRow, Row
<1>8. ASSUME NEW x \in DOMAIN tree.pkgs, NEW y, r = CopyRow(tree, P, y, x)
      PROVE  r.err = tree.pkgs[p].err
  <2>1. r.path = y /\ r.for = x /\ r.err = CopyErr(tree, y, x)
    BY <1>8 DEF CopyRow, Row
  <2>2. y # x
    BY <1>3, <1>8, <2>1 DEF IsVariantOfTested, WellFormed, NoTest
  <2> QED
    BY <1>1, <2>1, <2>2 DEF CopyErr
<1>9. ASSUME NEW x \in DOMAIN tree.pkgs, r = XTestRow(tree, x) PROVE FALSE
  <2>1. r.path = XTest(x) /\ r.for = x
    BY <1>9 DEF XTestRow, Row
  <2> QED
    BY <1>3, <1>9, <2>1 DEF IsVariantOfTested, WellFormed, NoTest
<1>10. CASE r \in Importables(tree, P)
  <2>1. \/ \E x \in DOMAIN tree.pkgs : r = BareRow(tree, P, x)
        \/ \E x \in Tested(tree, P) : \E y \in Copied(tree, x) :
             x \in DOMAIN tree.pkgs /\ y \in DOMAIN tree.pkgs /\ r = CopyRow(tree, P, y, x)
        \/ \E x \in Tested(tree, P) :
             x \in DOMAIN tree.pkgs /\ tree.pkgs[x].xtests /\ r = XTestRow(tree, x)
    BY <1>10, EveryRecord
  <2>2. r.err = tree.pkgs[p].err
    BY <1>7, <1>8, <1>9, <2>1
  <2> QED
    BY <1>2, <1>3, <1>4, <1>5, <2>2 DEF Sound, Supplied
<1> QED
  BY <1>3, <1>6, <1>10

\* What the test pass finds from its seeds is closed.
LEMMA FoundFacts ==
  ASSUME WellFormed(tree), NEW K, K \subseteq DOMAIN tree.pkgs, NEW B, B \subseteq DOMAIN tree.pkgs,
         NEW L, NEW T
  PROVE  /\ Seeds(B, L) \subseteq Found(K, B, L, T)
         /\ \A p \in Found(K, B, L, T) : PathLeadsTo(p, K, B, L, T) \subseteq Found(K, B, L, T)
<1> DEFINE C == Considered(K, B, L, T)
           next == [p \in C |-> PathLeadsTo(p, K, B, L, T)]
           D == DOMAIN tree.pkgs
<1>1. IsFiniteSet(D) /\ \A p \in D : tree.pkgs[p].imports \cup TestImports(tree, p) \subseteq D
  BY DEF WellFormed, TestImports
<1>2. LocalBare(B) \cup NewLocal(K, L) \cup NewThird(K, T) \subseteq D
  BY DEF LocalBare, NewLocal, NewThird
<1>3. C \subseteq D
  BY <1>1, <1>2 DEF Considered, Seeds
<1>4. IsFiniteSet(C) /\ Seeds(B, L) \subseteq C
  BY <1>1, <1>3, FS_Subset DEF Considered
<1>5. \A p \in C : PathLeadsTo(p, K, B, L, T) \subseteq C
  <2> SUFFICES ASSUME NEW p \in C PROVE PathLeadsTo(p, K, B, L, T) \subseteq C
    OBVIOUS
  <2>1. CASE p \in NewThird(K, T) \cup NewLocal(K, L)
    <3>1. tree.pkgs[p].imports \cup TestImports(tree, p) \subseteq C
      BY <2>1 DEF Considered
    <3> HIDE DEF C
    <3> QED
      BY <3>1 DEF PathLeadsTo
  <2>2. CASE p \notin NewThird(K, T) \cup NewLocal(K, L)
    BY <2>2 DEF PathLeadsTo
  <2> QED
    BY <2>1, <2>2
<1> HIDE DEF C
<1>6. DOMAIN next = C /\ ClosedUnder(C, next)
  BY <1>5 DEF ClosedUnder
<1>7. Found(K, B, L, T) = Reach(Seeds(B, L), next)
  BY DEF Found, C
<1>8. \A p \in C : next[p] = PathLeadsTo(p, K, B, L, T)
  OBVIOUS
<1> HIDE DEF next
<1>9. /\ Seeds(B, L) \subseteq Reach(Seeds(B, L), next)
      /\ Reach(Seeds(B, L), next) \subseteq C
      /\ ClosedUnder(Reach(Seeds(B, L), next), next)
  BY <1>4, <1>6, ReachFacts
<1> QED
  BY <1>7, <1>8, <1>9 DEF ClosedUnder

\* Where the build or the test pass has a package.
Accounted(K, B, L, T) ==
  {q \in DOMAIN tree.pkgs :
     \/ q \in BuildPaths \/ tree.pkgs[q].mod = NoModule
     \/ q \in Found(K, B, L, T) /\ q \in NewLocal(K, L) \cup NewThird(K, T)}

\* What the way of a test of p does not go through, and the way.
Skipped(p) ==
  {q \in DOMAIN tree.pkgs \ Linkable : ~Sound(q) \/ Last(q) = ".test" \/ q = XTest(p)}
Ways(p) == [q \in DOMAIN tree.pkgs |-> tree.pkgs[q].imports \ Skipped(p)]
Starts(p) == ({p} \cup TestImports(tree, p)) \ Skipped(p)

\* What it leads to is accounted for.
LEMMA ReachedIsAccounted ==
  ASSUME Fit, NEW P, NEW K, K = KeptPaths(ListTest(tree, P)),
         NEW B, B = BarePaths(ListTest(tree, P)),
         \A q \in BuildPaths : Sound(q), NEW p \in Matched(tree, P),
         \/ p \in BuildLocal
         \/ p \in NewLocal(K, BuildLocal) /\ p \in Found(K, B, BuildLocal, BuildThird)
  PROVE  \A q \in Reach(Starts(p), Ways(p)) :
           q \in Accounted(K, B, BuildLocal, BuildThird) /\ (q = p \/ tree.pkgs[q].files)
<1> DEFINE k     == tree.pkgs
           D     == DOMAIN k
           R     == TestReach(tree, p)
           here  == Found(K, B, BuildLocal, BuildThird)
           new   == NewLocal(K, BuildLocal) \cup NewThird(K, BuildThird)
           roots == {p} \cup TestImports(tree, p)
           O     == Skipped(p)
           found == Ways(p)
           C     == {q \in D : /\ q \in R /\ (q = p \/ k[q].files)
                               /\ q \in BuildPaths \/ k[q].mod = NoModule \/ (q \in here /\ q \in new)}
<1> /\ O = {q \in D \ Linkable : ~Sound(q) \/ Last(q) = ".test" \/ q = XTest(p)}
    /\ found = [q \in D |-> k[q].imports \ O] /\ Starts(p) = roots \ O
  BY DEF Skipped, Ways, Starts
<1> HIDE DEF O, found
<1>0. WellFormed(tree) /\ subPackages \subseteq D
  BY DEF Fit
<1>1. /\ IsFiniteSet(D) /\ p \in D
      /\ \A q \in D : /\ k[q].imports \cup TestImports(tree, q) \subseteq D
                      /\ \A x \in k[q].imports : k[x].files
                      /\ \A x \in TestImports(tree, q) : x = q \/ k[x].files
                      /\ k[q].mod = NoModule => \A x \in k[q].imports : k[x].mod = NoModule
  BY <1>0, MatchedAreListed DEF WellFormed, TestImports
<1>2. /\ roots \subseteq R /\ R \subseteq D /\ \A q \in R : k[q].imports \subseteq R
  BY <1>0, <1>1, TestReachFacts
<1>3. \A q \in BuildPaths : k[q].imports \subseteq BuildPaths
  BY <1>0, BuildPathsFacts
<1>4. Linkable = {q \in BuildPaths : k[q].mod # NoModule} /\ BuildLocal \cap BuildThird = {}
  BY <1>0, BuildKinds DEF Linkable
<1>5. K \subseteq D /\ B \subseteq K
  BY <1>0, KeptIsSound DEF KeptPaths, BarePaths, Paths
<1>6. /\ Seeds(B, BuildLocal) \subseteq here
      /\ \A q \in here : PathLeadsTo(q, K, B, BuildLocal, BuildThird) \subseteq here
  <2>1. B \subseteq D
    BY <1>5
  <2> QED
    BY <1>0, <1>5, <2>1, FoundFacts
<1>7. \A q \in D : k[q].mod # NoModule => IsLocal(k[q]) \/ IsThirdParty(k[q])
  <2>1. \A m \in DOMAIN tree.kind : tree.kind[m] \in {"main", "dir", "fetched", "fork"}
    BY <1>0 DEF WellFormed
  <2> QED
    BY <1>0, <2>1, MainFacts DEF IsLocal, IsThirdParty, Kind
<1>8. ASSUME NEW q \in R, q \notin O, q \in here
      PROVE  q \in BuildPaths \/ k[q].mod = NoModule \/ (q \in here /\ q \in new)
  <2> SUFFICES ASSUME q \notin BuildPaths, k[q].mod # NoModule PROVE q \in new
    BY <1>8
  <2>1. q \in D /\ q \notin Linkable /\ Sound(q) /\ Last(q) # ".test" /\ q # XTest(p)
    BY <1>2, <1>4, <1>8
  <2>2. q \in K
    BY <1>0, <2>1, ReachIsKept
  <2> QED
    BY <1>7, <2>1, <2>2 DEF NewLocal, NewThird, Linkable
<1>9. ASSUME NEW x \in TestImports(tree, p) PROVE x \in here
  <2>1. k[p].mod # NoModule /\ k[p].listed /\ HasTests(tree, p)
    BY <1>0, <1>1, <1>9, MatchedAreListed DEF WellFormed, TestImports, HasTests
  <2>2. Last(p) # ".test"
    BY <1>1, <2>1 DEF Fit
  <2>3. Sound(p)
    BY <1>0, KeptIsSound DEF NewLocal, BuildLocal
  <2>4. p \in B
    BY <1>0, <2>2, <2>3, MatchIsKept
  <2>5. CASE p \in BuildLocal
    <3>1. p \in LocalBare(B) \cap BuildLocal
      BY <2>4, <2>5 DEF LocalBare, BuildLocal
    <3> QED
      BY <1>6, <1>9, <3>1 DEF Seeds
  <2>6. CASE p \in NewLocal(K, BuildLocal) /\ p \in here
    <3>1. p \in LocalBare(B) /\ p \notin NewThird(K, BuildThird)
      BY <2>4, <2>6 DEF LocalBare, NewLocal, NewThird, IsLocal, IsThirdParty
    <3>2. x \in PathLeadsTo(p, K, B, BuildLocal, BuildThird)
      BY <1>9, <2>6, <3>1 DEF PathLeadsTo
    <3> QED
      BY <1>6, <2>6, <3>2
  <2> QED
    BY <2>5, <2>6
<1>10. roots \ O \subseteq C
  <2>1. p \in R /\ (p \in BuildPaths \/ (p \in here /\ p \in new))
    BY <1>2 DEF BuildLocal
  <2>2. ASSUME NEW x \in TestImports(tree, p), x \notin O PROVE x \in C
    <3>1. x \in R /\ x \in D /\ (x = p \/ k[x].files)
      BY <1>1, <1>2
    <3>2. x \in BuildPaths \/ k[x].mod = NoModule \/ (x \in here /\ x \in new)
      BY <1>8, <1>9, <2>2, <3>1
    <3> QED
      BY <3>1, <3>2
  <2> QED
    BY <1>1, <2>1, <2>2
<1>11. ASSUME NEW q \in C, NEW x \in k[q].imports, x \notin O PROVE x \in C
  <2>1. x \in R /\ x \in D /\ k[x].files
    BY <1>1, <1>2
  <2>2. CASE q \in BuildPaths
    BY <1>3, <2>1, <2>2
  <2>3. CASE k[q].mod = NoModule
    BY <1>1, <2>1, <2>3
  <2>4. CASE q \in here /\ q \in new
    <3>1. x \in PathLeadsTo(q, K, B, BuildLocal, BuildThird)
      BY <2>4 DEF PathLeadsTo
    <3>2. x \in here
      BY <1>6, <2>4, <3>1
    <3> QED
      BY <1>8, <1>11, <2>1, <3>2
  <2> QED
    BY <2>2, <2>3, <2>4
<1>12. Reach(roots \ O, found) \subseteq C
  <2>1. DOMAIN found = D /\ \A q \in D : found[q] = k[q].imports \ O
    OBVIOUS
  <2>2. ClosedUnder(D, found) /\ roots \ O \subseteq D
    BY <1>1, <1>2, <2>1 DEF ClosedUnder
  <2>3. ClosedUnder(C, found)
    BY <1>11, <2>1 DEF ClosedUnder
  <2>4. \A Z : roots \ O \subseteq Z /\ ClosedUnder(Z, found) => Reach(roots \ O, found) \subseteq Z
    <3> DEFINE S == roots \ O
    <3>1. IsFiniteSet(DOMAIN found) /\ D \subseteq DOMAIN found /\ ClosedUnder(D, found) /\ S \subseteq D
      BY <1>1, <2>1, <2>2
    <3> HIDE DEF S, D
    <3>2. \A Z : S \subseteq Z /\ ClosedUnder(Z, found) => Reach(S, found) \subseteq Z
      BY ONLY <3>1, ReachFacts
    <3> QED
      BY <3>2 DEF S
  <2> QED
    BY <1>10, <2>3, <2>4
<1>13. \A q \in C : q \in Accounted(K, B, BuildLocal, BuildThird) /\ (q = p \/ k[q].files)
  BY DEF Accounted
<1> HIDE DEF C, roots
<1> QED
  BY <1>12, <1>13 DEF O, found

\* The graph of the two passes has what tests in it import, and marks embeds.
LEMMA TestsAreServed ==
  ASSUME Fit, subPackages # {}, TwoPasses.ok, graph = TwoPasses, doCheck,
         NEW l \in graph.local \cup graph.testLocal, NEW p, p = l.path,
         InMain(tree, p), tree.pkgs[p].listed
  PROVE  /\ Reached(p) \subseteq Paths(graph.local \cup graph.testLocal) \cup Paths(graph.packages)
                                    \cup Paths(graph.testPackages)
         /\ tree.pkgs[p].testEmbeds => l.embeds
<1> DEFINE P  == TestPatterns(Siblings)
           N  == ListTest(tree, P)
           K  == KeptPaths(N)
           B  == BarePaths(N)
           X  == EmbedErrors(N)
           g  == BuildGraph({})
           tp == ClassifyTest(N, g)
           k  == tree.pkgs
           here == Found(K, B, BuildLocal, BuildThird)
           newLocal == NewLocal(K, BuildLocal)
           newThird == NewThird(K, BuildThird)
           row(q) == LocalRow(q, BuildLocal \cup newLocal, BuildThird \cup newThird,
                              Embeds(tree, P, q), q \in X)
<1>0. WellFormed(tree) /\ subPackages \subseteq DOMAIN k
  BY DEF Fit
<1>1. /\ BuildPass.ok /\ tp.ok /\ graph.packages = PackageRows
      /\ graph.local = LocalRows(tp.embeds, Unresolved \cup tp.unresolved)
      /\ graph.testPackages = tp.testPackages /\ graph.testLocal = tp.testLocal
  BY DoneGraph
<1>2. \A q \in BuildPaths : Sound(q)
  BY <1>1, BuildIsLocal
<1>3. tp = ClassifyPaths(K, B, X, P, BuildLocal, BuildThird)
  <2>1. ~\E r \in N : TestError(r, g)
    BY <1>1 DEF ClassifyTest, Failed
  <2>2. Regular(N, P)
    BY <1>0, ListingIsRegular
  <2>3. tp = ClassifyPaths(K, B, X, P, Paths(g.local), Paths(g.packages))
    BY <2>1, <2>2, ClassifyTestFacts
  <2> QED
    BY <2>3, BuildGraphFacts
<1>4. /\ graph.testPackages = {PackageRow(q) : q \in newThird}
      /\ graph.testLocal = {row(q) : q \in {x \in newLocal : k[x].files /\ x \in here}}
      /\ tp.embeds = {q \in K : IsLocal(k[q]) /\ Embeds(tree, P, q)} \cap BuildLocal
  <2> HIDE DEF tp, K, B, X, P
  <2>1. tp.testPackages = {PackageRow(q) : q \in newThird}
    BY <1>3 DEF ClassifyPaths
  <2>2. tp.testLocal = {row(q) : q \in {x \in newLocal : k[x].files /\ x \in here}}
    BY <1>3 DEF ClassifyPaths
  <2>3. tp.embeds = {q \in K : IsLocal(k[q]) /\ Embeds(tree, P, q)} \cap BuildLocal
    BY <1>3 DEF ClassifyPaths
  <2> QED
    BY <1>1, <2>1, <2>2, <2>3
<1>5. Paths(graph.local) = BuildLocal /\ Paths(graph.packages) = BuildThird
  BY <1>0, <1>1, LinksFacts
<1> HIDE DEF tp
<1>6. /\ Paths(graph.testPackages) = newThird
      /\ Paths(graph.testLocal) = {x \in newLocal : k[x].files /\ x \in here}
  <2>1. \A q : row(q).path = q /\ PackageRow(q).path = q
    BY DEF LocalRow, PackageRow
  <2> HIDE DEF row, newLocal, newThird, here
  <2> QED
    BY <1>4, <2>1 DEF Paths
<1>7. \/ l \in graph.local /\ p \in BuildLocal
      \/ l \in graph.testLocal /\ p \in newLocal /\ p \in here
  <2>1. \A S : \A x \in S : x.path \in Paths(S)
    BY DEF Paths
  <2> QED
    BY <1>5, <1>6, <2>1
<1>8. Paths(graph.local \cup graph.testLocal) = Paths(graph.local) \cup Paths(graph.testLocal)
  BY DEF Paths
<1>9. p \in DOMAIN k /\ k[p].mod # NoModule
  <2>1. p \in DOMAIN k
    BY <1>0, <1>7, BuildPathsFacts, KeptIsSound DEF BuildLocal, NewLocal
  <2> QED
    BY <1>0, <2>1, MainFacts DEF InMain
<1>10. p \in Matched(tree, P)
  <2>1. Here \in Match(tree, P, p)
    BY <1>9 DEF Match, TestPatterns
  <2> QED
    BY <1>9, <2>1 DEF Matched
<1>11. Reached(p) = {q \in Reach(Starts(p), Ways(p)) : k[q].mod # NoModule}
  <2>1. Overlooked(p) = Skipped(p)
    <3>1. \A q : Sound(q) <=> ~(k[q].err # "none" /\ ~Supplied(k[q], q))
      BY DEF Sound
    <3> QED
      BY <1>5, <3>1 DEF Overlooked, Skipped, Linkable
  <2>2. {p} \cup k[p].testImports \cup k[p].xTestImports = {p} \cup TestImports(tree, p)
    BY DEF TestImports
  <2> QED
    BY <2>1, <2>2 DEF Reached, Starts, Ways
<1>12. \A q \in Reach(Starts(p), Ways(p)) :
         q \in Accounted(K, B, BuildLocal, BuildThird) /\ (q = p \/ k[q].files)
  <2>1. \/ p \in BuildLocal
        \/ p \in NewLocal(K, BuildLocal) /\ p \in Found(K, B, BuildLocal, BuildThird)
    BY <1>7
  <2>2. K = KeptPaths(ListTest(tree, P)) /\ B = BarePaths(ListTest(tree, P))
    OBVIOUS
  <2> HIDE DEF K, B, P
  <2> QED
    BY <1>2, <1>10, <2>1, <2>2, ReachedIsAccounted
<1>13. ASSUME NEW q \in Reached(p)
       PROVE  q \in Paths(graph.local \cup graph.testLocal) \cup Paths(graph.packages)
                       \cup Paths(graph.testPackages)
  <2>1. q \in Accounted(K, B, BuildLocal, BuildThird) /\ (q = p \/ k[q].files) /\ k[q].mod # NoModule
    BY <1>11, <1>12
  <2>2. CASE q = p
    BY <1>8, <2>2 DEF Paths
  <2>3. CASE q \in BuildPaths
    BY <1>0, <1>5, <1>8, <2>1, <2>3, BuildKinds
  <2>4. CASE q # p /\ q \notin BuildPaths
    <3>1. q \in here /\ q \in newLocal \cup newThird /\ k[q].files
      BY <2>1, <2>4 DEF Accounted
    <3> HIDE DEF here, newLocal, newThird
    <3> QED
      BY <1>6, <1>8, <3>1
  <2> QED
    BY <2>2, <2>3, <2>4
<1>14. ASSUME k[p].testEmbeds PROVE l.embeds
  <2>1. Embeds(tree, P, p) /\ Last(p) # ".test"
    BY <1>9, <1>10, <1>14 DEF Embeds, Fit
  <2>2. CASE l \in graph.local /\ p \in BuildLocal
    <3>1. PICK q \in BuildLocal :
            l = LocalRow(q, BuildLocal, BuildThird, q \in tp.embeds, q \in Unresolved \cup tp.unresolved)
      BY <1>1, <2>2 DEF LocalRows
    <3>2. q = p /\ l.embeds = (p \in tp.embeds)
      BY <3>1 DEF LocalRow
    <3>3. Sound(p) /\ IsLocal(k[p])
      BY <1>2, <2>2 DEF BuildLocal
    <3>4. p \in K
      BY <1>0, <1>10, <2>1, <3>3, MatchIsKept
    <3>5. p \in tp.embeds
      BY <1>4, <2>1, <2>2, <3>3, <3>4
    <3> QED
      BY <3>2, <3>5
  <2>3. CASE l \in graph.testLocal
    <3>1. PICK q \in newLocal : l = row(q)
      BY <1>4, <2>3
    <3>2. q = p /\ l.embeds = Embeds(tree, P, p)
      BY <3>1 DEF LocalRow
    <3> QED
      BY <2>1, <3>2
  <2> QED
    BY <1>7, <2>2, <2>3
<1> QED
  BY <1>13, <1>14

\* A package that the test runner tests finds in the graph all that its tests
\* reach through whatever packages, and its embedded files, whichever way the
\* graph was obtained.
THEOREM TestsFindTheirImportsHolds == ListingSpec => []TestsFindTheirImports
<1>1. ListingInv => TestsFindTheirImports
  <2> SUFFICES ASSUME ListingInv, stage = "done", doCheck, graph.ok,
                      NEW l \in graph.local \cup graph.testLocal,
                      InMain(tree, l.path), tree.pkgs[l.path].listed
               PROVE  /\ Reached(l.path) \subseteq
                           Paths(graph.local \cup graph.testLocal) \cup Paths(graph.packages)
                             \cup Paths(graph.testPackages)
                      /\ tree.pkgs[l.path].testEmbeds => l.embeds
    BY DEF TestsFindTheirImports
  <2>1. Fit /\ subPackages # {} /\ graph = TwoPasses /\ TwoPasses.ok
    BY ListingFits DEF ListingInv
  <2> QED
    BY <2>1, TestsAreServed
<1> QED
  BY <1>1, ListingInvHolds, PTL
=============================================================================
