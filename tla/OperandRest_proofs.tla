------------------------- MODULE OperandRest_proofs -------------------------
(***************************************************************************)
(* Proofs about an operand controller at rest: whenever nothing is left    *)
(* that would start a pass, the cluster is as the CR asks and its          *)
(* conditions say so, provided others leave the labels of the objects      *)
(* alone.  Requests may fail, the process may restart, and the cache may   *)
(* lag behind.                                                             *)
(*                                                                         *)
(* The argument: a pass that ends without an error and without a           *)
(* disturbance has seen the cluster as it is.  Whatever happens meanwhile  *)
(* puts the item back into the queue, or will when its event arrives.      *)
(***************************************************************************)
EXTENDS OperandController_proofs

(***************************************************************************)
(* What a pass knows.                                                      *)
(***************************************************************************)

\* No version on its way to the cache differs from the cached one.
Settled(ch) == \A i \in DOMAIN ch : ch[i] = Cached(ch)

\* Nothing that would start a pass is under way.
Calm ==
    /\ ~queued /\ ~lost
    /\ \A i \in DOMAIN crW : ~crPredicate(crW[i], Cached(crW))
    /\ Settled(ztwimW)
    /\ \A o \in Objects : Drained(objW[o])

\* What a pass knows of a cluster that nothing has disturbed since it began.
Known ==
    /\ ~crPredicate(pass.cr, Api(crW))
    /\ pc # "initial" => pass.cr.conds["Ready"] = "Reconciling"
    /\ pc \in {"initial", "ztwim", "owner", "mode"} => pass.conds = NoConditions(CondTypes)
    /\ pc \in {"owner", "mode", "step"} => pass.ztwim = Api(ztwimW) /\ pass.ztwim # 0
    /\ pc = "owner" => pass.cr.owner # pass.ztwim
    /\ pc = "mode" => Adopted
    /\ pc = "step" => /\ Adopted /\ pass.conds["Ready"] = "None" /\ ModeKnown(pass.conds)
                      /\ StepsKnown /\ Applies(ThisStep, pass.cr.spec)
    /\ pc = "final" => pass.err \/ Verdict

\* Every event of an object is seen: its labels are as generated and no two versions in a row are
\* absent.
Noticed(ch) ==
    /\ \A i \in DOMAIN ch : ch[i].labels = "ok"
    /\ \A i \in DOMAIN ch : i > 1 => ch[i - 1].exists \/ ch[i].exists

Watched == \A o \in Objects : Noticed(objW[o])

\* The pass is about an existing CR; a copy with the stored resourceVersion is the stored CR.
Copied ==
    /\ Api(crW).uid = 0 => Api(crW).conds["Ready"] = "None"
    /\ pc # "idle" => /\ pass.cr.uid # 0
                      /\ pass.current => pass.cr.uid = Api(crW).uid

\* The inductive invariant.
RestInv ==
    /\ TypeOK /\ Watched /\ Copied
    /\ Calm => IF pc = "idle" THEN Right /\ NoFailureFor(Api(crW)) ELSE Known

(***************************************************************************)
(* What disturbs the rest.                                                 *)
(***************************************************************************)

\* A version of an object is written: the event is on its way.
LEMMA WriteObjectLemma ==
    ASSUME TypeOK, Watched, NEW o \in Objects, NEW v \in ObjectVersion, v.labels = "ok",
           v.exists \/ Api(objW[o]).exists, objW' = [objW EXCEPT ![o] = Append(@, v)]
    PROVE  Watched' /\ ~Calm'
<1>1. objW \in [Objects -> Seq(ObjectVersion)] /\ objW[o] \in Seq(ObjectVersion) /\ Len(objW[o]) > 0
  BY DEF TypeOK
<1>2. PICK n \in Nat : n = Len(objW[o])
  BY <1>1
<1>3. PICK ch : ch = Append(objW[o], v)
  OBVIOUS
<1>4. /\ DOMAIN ch = 1..(n + 1) /\ DOMAIN objW[o] = 1..n
      /\ \A i \in 1..n : ch[i] = objW[o][i]
      /\ ch[n + 1] = v /\ Len(ch) = n + 1
  BY <1>1, <1>2, <1>3, AppendLemma
<1>5. objW'[o] = ch /\ \A q \in Objects : q # o => objW'[q] = objW[q]
  BY <1>1, <1>3
<1>6. n > 0 /\ Api(objW[o]) = objW[o][n]
  BY <1>1, <1>2 DEF Api
<1>7. \A i \in DOMAIN ch : ch[i].labels = "ok"
  <2>1. \A i \in 1..(n + 1) : i \in 1..n \/ i = n + 1
    OBVIOUS
  <2>2. \A i \in 1..n : objW[o][i].labels = "ok"
    BY <1>4 DEF Watched, Noticed
  <2>3. QED
    BY <1>4, <2>1, <2>2
<1>8. \A i \in DOMAIN ch : i > 1 => ch[i - 1].exists \/ ch[i].exists
  <2>1. ASSUME NEW i \in 1..(n + 1), i > 1 PROVE ch[i - 1].exists \/ ch[i].exists
    <3>1. CASE i = n + 1
      <4>1. i - 1 = n /\ n \in 1..n
        BY <1>6, <3>1
      <4>2. QED
        BY <1>4, <1>6, <3>1, <4>1
    <3>2. CASE i # n + 1
      <4>1. i \in 1..n /\ i - 1 \in 1..n
        BY <2>1, <3>2
      <4>2. objW[o][i - 1].exists \/ objW[o][i].exists
        BY <1>4, <2>1, <4>1 DEF Watched, Noticed
      <4>3. QED
        BY <1>4, <4>1, <4>2
    <3>3. QED
      BY <3>1, <3>2
  <2>2. QED
    BY <1>4, <2>1
<1>9. Watched'
  <2>1. Noticed(ch)
    BY <1>7, <1>8 DEF Noticed
  <2>2. \A q \in Objects : Noticed(objW'[q])
    BY <1>5, <2>1 DEF Watched
  <2>3. QED
    BY <2>2 DEF Watched
<1>10. ~Drained(objW'[o])
  BY <1>4, <1>5, <1>6 DEF Drained
<1>11. QED
  BY <1>9, <1>10 DEF Calm

\* So it is when the ZTWIM CR comes or goes.
LEMMA WriteZTWIMLemma ==
    ASSUME TypeOK, NEW u \in 0..MaxUid, WriteZTWIM(u), u # Api(ztwimW)
    PROVE  ~Calm'
<1>1. ztwimW \in Seq(0..MaxUid) /\ Len(ztwimW) > 0 /\ Len(ztwimW) \in Nat
  BY DEF TypeOK
<1>2. /\ DOMAIN ztwimW' = 1..(Len(ztwimW) + 1)
      /\ \A i \in 1..Len(ztwimW) : ztwimW'[i] = ztwimW[i]
      /\ ztwimW'[Len(ztwimW) + 1] = u
  BY <1>1, AppendLemma DEF WriteZTWIM
<1>3. Len(ztwimW) \in 1..Len(ztwimW) /\ Len(ztwimW) \in DOMAIN ztwimW'
      /\ Len(ztwimW) + 1 \in DOMAIN ztwimW'
  BY <1>1, <1>2
<1>4. ztwimW'[Len(ztwimW)] = Api(ztwimW)
  BY <1>2, <1>3 DEF Api
<1>5. ~Settled(ztwimW')
  BY <1>2, <1>3, <1>4 DEF Settled
<1>6. QED
  BY <1>5 DEF Calm

\* And when the CR gets another UID, spec or owner.
LEMMA ChangedCRLemma ==
    ASSUME TypeOK, NEW v \in CRVersion, crW' = Append(crW, v), crPredicate(Api(crW), v)
    PROVE  Api(crW') = v /\ ~Calm'
<1>1. crW \in Seq(CRVersion) /\ Len(crW) > 0 /\ Len(crW) \in Nat
  BY DEF TypeOK
<1>2. /\ DOMAIN crW' = 1..(Len(crW) + 1)
      /\ \A i \in 1..Len(crW) : crW'[i] = crW[i]
      /\ crW'[Len(crW) + 1] = v /\ Api(crW') = v
  BY <1>1, AppendLemma
<1>3. Len(crW) \in 1..Len(crW) /\ Len(crW) \in DOMAIN crW' /\ Len(crW) + 1 \in DOMAIN crW'
  BY <1>1, <1>2
<1>4. crW'[Len(crW)] = Api(crW)
  BY <1>2, <1>3 DEF Api
<1>5. ASSUME Calm' PROVE FALSE
  <2>1. \A i \in DOMAIN crW' : ~crPredicate(crW'[i], Cached(crW'))
    BY <1>5 DEF Calm
  <2>2. ~crPredicate(Api(crW), Cached(crW')) /\ ~crPredicate(v, Cached(crW'))
    BY <1>2, <1>3, <1>4, <2>1
  <2>3. QED
    BY <2>2 DEF crPredicate
<1>6. QED
  BY <1>2, <1>5

\* The users and the garbage collector disturb the rest with whatever they do, as long as
\* they leave the labels alone.
LEMMA UsersDisturb ==
    ASSUME Tampering \subseteq {"content"}, TypeOK, Watched, Copied,
           Users \/ GarbageCollector, ~Restart
    PROVE  Watched' /\ Copied' /\ ~Calm'
<1> USE EmptyTypes, PartTypes
<1> DEFINE cr == Api(crW)
<1>1. pass \in Pass /\ pass.cr \in CRVersion /\ cr \in CRVersion
  OBVIOUS
<1>2. ASSUME NEW v \in CRVersion, WriteCR(v), pc' = pc, crPredicate(cr, v),
             v.uid = 0 => v.conds["Ready"] = "None"
      PROVE  Watched' /\ Copied' /\ ~Calm'
  <2>1. crW' = Append(crW, v) /\ pass' = [pass EXCEPT !.current = FALSE] /\ objW' = objW
    BY <1>2 DEF WriteCR
  <2>2. Api(crW') = v /\ ~Calm'
    BY <1>2, <2>1, ChangedCRLemma
  <2>3. pass'.cr = pass.cr /\ pass'.current = FALSE
    BY <1>1, <2>1 DEF Pass
  <2>4. Watched'
    BY <2>1 DEF Watched
  <2>5. Copied'
    BY <1>2, <2>2, <2>3 DEF Copied
  <2>6. QED
    BY <2>2, <2>4, <2>5
<1>3. ASSUME NEW u \in 0..MaxUid, WriteZTWIM(u), u # Api(ztwimW), pc' = pc
      PROVE  Watched' /\ Copied' /\ ~Calm'
  <2>1. ~Calm'
    BY <1>3, WriteZTWIMLemma
  <2>2. UNCHANGED <<crW, objW, pass, pc>>
    BY <1>3 DEF WriteZTWIM
  <2>3. Watched' /\ Copied'
    BY <2>2 DEF Watched, Copied
  <2>4. QED
    BY <2>1, <2>3
<1>4. ASSUME NEW o \in Objects, NEW v \in ObjectVersion, WriteObject(o, v), pc' = pc,
             v.labels = "ok", v.exists \/ Api(objW[o]).exists
      PROVE  Watched' /\ Copied' /\ ~Calm'
  <2>1. objW' = [objW EXCEPT ![o] = Append(@, v)] /\ UNCHANGED <<crW, pass, pc>>
    BY <1>4 DEF WriteObject
  <2>2. Watched' /\ ~Calm'
    BY <1>4, <2>1, WriteObjectLemma
  <2>3. Copied'
    BY <2>1 DEF Copied
  <2>4. QED
    BY <2>2, <2>3
<1>5. Change => pc' = pc
  BY DEF Change
<1>6. \A o \in Objects : Api(objW[o]) \in ObjectVersion /\ Api(objW[o]).labels = "ok"
  <2>1. ASSUME NEW o \in Objects PROVE Api(objW[o]).labels = "ok"
    <3>1. Len(objW[o]) \in DOMAIN objW[o]
      BY ApiLemma DEF TypeOK
    <3>2. QED
      BY <3>1 DEF Watched, Noticed, Api
  <2>2. QED
    BY <2>1
<1>7. ASSUME NEW s \in Specs, CreateCR(s) PROVE Watched' /\ Copied' /\ ~Calm'
  <2>1. PICK u \in 1..MaxUid : WriteCR(NewCR(u, s))
    BY <1>7 DEF CreateCR
  <2>2. NewCR(u, s) \in CRVersion /\ NewCR(u, s).uid = u /\ u # 0
    BY DEF NewCR
  <2>3. crPredicate(cr, NewCR(u, s))
    BY <1>7, <2>2 DEF CreateCR, crPredicate
  <2>4. QED
    BY <1>2, <1>5, <1>7, <2>1, <2>2, <2>3 DEF CreateCR
<1>8. ASSUME NEW s \in Specs, EditCR(s) PROVE Watched' /\ Copied' /\ ~Calm'
  <2>1. PICK v : v = [cr EXCEPT !.spec = s]
    OBVIOUS
  <2>2. v \in CRVersion /\ v.spec = s /\ v.uid = cr.uid
    BY <1>1, <2>1 DEF CRVersion
  <2>3. cr.uid # 0 /\ cr.spec # s /\ WriteCR(v) /\ pc' = pc
    BY <1>5, <1>8, <2>1 DEF EditCR
  <2>4. crPredicate(cr, v)
    BY <2>2, <2>3 DEF crPredicate
  <2> HIDE DEF cr
  <2>5. QED
    BY <1>2, <2>2, <2>3, <2>4
<1>9. CASE RemoveOwnerReference
  <2>1. PICK v : v = [cr EXCEPT !.owner = 0]
    OBVIOUS
  <2>2. v \in CRVersion /\ v.owner = 0 /\ v.uid = cr.uid /\ v.conds = cr.conds
    BY <1>1, <2>1 DEF CRVersion
  <2>3. cr.owner # 0 /\ WriteCR(v) /\ pc' = pc
    BY <1>5, <1>9, <2>1 DEF RemoveOwnerReference
  <2>4. crPredicate(cr, v)
    BY <2>2, <2>3 DEF crPredicate
  <2>5. v.uid = 0 => v.conds["Ready"] = "None"
    BY <2>2 DEF Copied
  <2> HIDE DEF cr
  <2>6. QED
    BY <1>2, <2>2, <2>3, <2>4, <2>5
<1>10. CASE DeleteCR \/ CollectCR
  <2>1. cr.uid # 0 /\ WriteCR(NoCR) /\ pc' = pc
    BY <1>5, <1>10 DEF DeleteCR, CollectCR
  <2>2. crPredicate(cr, NoCR)
    BY <2>1 DEF crPredicate
  <2>3. QED
    BY <1>2, <2>1, <2>2
<1>11. CASE CreateZTWIM \/ DeleteZTWIM
  <2>1. \E u \in 0..MaxUid : WriteZTWIM(u) /\ u # Api(ztwimW)
    <3>1. 0 \in 0..MaxUid /\ \A u \in 1..MaxUid : u \in 0..MaxUid /\ u # 0
      BY BoundsAssumption
    <3>2. QED
      BY <1>11, <3>1 DEF CreateZTWIM, DeleteZTWIM
  <2>2. pc' = pc
    BY <1>5, <1>11 DEF CreateZTWIM, DeleteZTWIM
  <2>3. QED
    BY <1>3, <2>1, <2>2
<1>12. ASSUME NEW o \in Objects, TamperWithObject(o) PROVE Watched' /\ Copied' /\ ~Calm'
  <2>1. PICK v : v = [Api(objW[o]) EXCEPT !.content = NoContent, !.healthy = FALSE]
    OBVIOUS
  <2>2. Tampering \ {"content"} = {}
    OBVIOUS
  <2>3. WriteObject(o, v) /\ Api(objW[o]).exists /\ pc' = pc
    BY <1>5, <1>12, <2>1, <2>2 DEF TamperWithObject
  <2>4. v \in ObjectVersion /\ v.labels = Api(objW[o]).labels
    BY <1>6, <2>1 DEF ObjectVersion, NoContent
  <2>5. QED
    BY <1>4, <1>6, <2>3, <2>4
<1>13. ASSUME NEW o \in Objects, DeleteObject(o) \/ CollectObject(o)
       PROVE  Watched' /\ Copied' /\ ~Calm'
  <2>1. WriteObject(o, NoObject) /\ Api(objW[o]).exists /\ pc' = pc
    BY <1>5, <1>13 DEF DeleteObject, CollectObject
  <2>2. NoObject.labels = "ok"
    BY DEF NoObject
  <2>3. QED
    BY <1>4, <2>1, <2>2
<1>14. ASSUME NEW o \in Objects, WorkloadStatus(o) PROVE Watched' /\ Copied' /\ ~Calm'
  <2>1. PICK v : v = [Api(objW[o]) EXCEPT !.healthy = ~@]
    OBVIOUS
  <2>2. WriteObject(o, v) /\ Api(objW[o]).exists /\ pc' = pc
    BY <1>5, <1>14, <2>1 DEF WorkloadStatus
  <2>3. v \in ObjectVersion /\ v.labels = Api(objW[o]).labels
    BY <1>6, <2>1 DEF ObjectVersion
  <2>4. QED
    BY <1>4, <1>6, <2>2, <2>3
<1>15. QED
  BY <1>7, <1>8, <1>9, <1>10, <1>11, <1>12, <1>13, <1>14 DEF Users, GarbageCollector

(***************************************************************************)
(* Watch events, the resync and restarts.                                  *)
(***************************************************************************)

\* What is right, and what a pass knows, depends on the stored CRs and not on the way of their
\* versions to the cache.
LEMMA SameView ==
    ASSUME Api(crW') = Api(crW), Api(ztwimW') = Api(ztwimW), UNCHANGED <<objW, createOnly, pc, pass>>
    PROVE  /\ Right => Right'
           /\ NoFailureFor(Api(crW)) => NoFailureFor(Api(crW))'
           /\ Known => Known'
<1>1. Right => Right'
  BY DEF Right, ExpectedReady, ObjectsRight
<1>2. NoFailureFor(Api(crW)) => NoFailureFor(Api(crW))'
  BY DEF NoFailureFor
<1>3. Adopted => Adopted'
  BY DEF Adopted
<1>4. ModeKnown(pass.conds) => ModeKnown(pass.conds)'
  BY DEF ModeKnown
<1>5. ASSUME NEW i, NEW c PROVE Done(i, c) => Done(i, c)'
  BY Zenon DEF Done, SkipsUpdate
<1>6. StepsKnown => StepsKnown'
  <2>1. \A c, n : Explained(c, n) => Explained(c, n)'
    BY Zenon DEF Explained
  <2>2. QED
    BY <1>5, <2>1 DEF StepsKnown
<1>7. Verdict => Verdict'
  BY <1>3, <1>4, <1>6 DEF Verdict
<1>8. QED
  BY <1>1, <1>2, <1>3, <1>4, <1>6, <1>7 DEF Known, ThisStep

\* A watch event puts the item into the queue, except for a status write of the controller
\* itself, which changes nothing a pass would see.
LEMMA WatchDisturbs ==
    ASSUME TypeOK, RestInv, Watch
    PROVE  Watched' /\ Copied' /\ (Calm' => IF pc' = "idle" THEN Right' /\ NoFailureFor(Api(crW))'
                                                            ELSE Known')
<1>1. CASE DeliverCR
  <2>1. PICK n \in Nat : n = Len(crW) /\ n > 1
    BY <1>1 DEF DeliverCR, TypeOK
  <2>2. /\ crW' = Deliver(crW) /\ queued' = (queued \/ crPredicate(crW[1], crW[2]))
        /\ UNCHANGED <<ztwimW, objW, pc, pass, lost, createOnly>>
    BY <1>1 DEF DeliverCR, env
  <2>3. /\ Api(crW') = Api(crW) /\ Cached(crW') = crW[2]
        /\ DOMAIN crW' = 1..(n - 1) /\ DOMAIN crW = 1..n
        /\ \A i \in 1..(n - 1) : crW'[i] = crW[i + 1]
    BY <2>1, <2>2, DeliverLemma DEF TypeOK
  <2>4. Watched' /\ Copied'
    BY <2>2, <2>3 DEF RestInv, Watched, Copied
  <2>5. ASSUME Calm' PROVE Calm
    <3>1. ~queued /\ ~crPredicate(crW[1], crW[2]) /\ ~lost
      BY <2>2, <2>5 DEF Calm
    <3>2. Settled(ztwimW) /\ \A o \in Objects : Drained(objW[o])
      BY <2>2, <2>5 DEF Calm
    <3>3. ASSUME NEW i \in 1..n PROVE ~crPredicate(crW[i], crW[1])
      <4>1. CASE i = 1
        BY <4>1 DEF crPredicate
      <4>2. CASE i # 1
        <5>1. i - 1 \in 1..(n - 1) /\ (i - 1) + 1 = i
          BY <4>2
        <5>2. crW'[i - 1] = crW[i]
          BY <2>3, <5>1
        <5>3. ~crPredicate(crW'[i - 1], Cached(crW'))
          BY <2>3, <2>5, <5>1 DEF Calm
        <5>4. ~crPredicate(crW[i], crW[2])
          BY <2>3, <5>2, <5>3
        <5>5. QED
          BY <3>1, <5>4 DEF crPredicate
      <4>3. QED
        BY <4>1, <4>2
    <3>4. QED
      BY <2>3, <3>1, <3>2, <3>3 DEF Calm, Cached
  <2>6. QED
    BY <2>2, <2>3, <2>4, <2>5, SameView DEF RestInv
<1>2. CASE DeliverZTWIM
  <2>1. PICK n \in Nat : n = Len(ztwimW) /\ n > 1
    BY <1>2 DEF DeliverZTWIM, TypeOK
  <2>2. /\ ztwimW' = Deliver(ztwimW) /\ queued' = (queued \/ ztwimW[1] # ztwimW[2])
        /\ UNCHANGED <<crW, objW, pc, pass, lost, createOnly>>
    BY <1>2 DEF DeliverZTWIM, env
  <2>3. /\ Api(ztwimW') = Api(ztwimW) /\ Cached(ztwimW') = ztwimW[2]
        /\ DOMAIN ztwimW' = 1..(n - 1) /\ DOMAIN ztwimW = 1..n
        /\ \A i \in 1..(n - 1) : ztwimW'[i] = ztwimW[i + 1]
    BY <2>1, <2>2, DeliverLemma DEF TypeOK
  <2>4. Watched' /\ Copied'
    BY <2>2 DEF RestInv, Watched, Copied
  <2>5. ASSUME Calm' PROVE Calm
    <3>1. ~queued /\ ztwimW[1] = ztwimW[2] /\ Settled(ztwimW')
      BY <2>2, <2>5 DEF Calm
    <3>2. ASSUME NEW i \in 1..n PROVE ztwimW[i] = ztwimW[1]
      <4>1. i = 1 \/ (i - 1 \in 1..(n - 1) /\ (i - 1) + 1 = i)
        OBVIOUS
      <4>2. QED
        BY <2>3, <3>1, <4>1 DEF Settled
    <3>3. Settled(ztwimW)
      BY <2>3, <3>2 DEF Settled, Cached
    <3>4. QED
      BY <2>2, <2>5, <3>1, <3>3 DEF Calm
  <2>6. QED
    BY <2>2, <2>3, <2>4, <2>5, SameView DEF RestInv
<1>3. ASSUME NEW o \in Objects, DeliverObject(o)
      PROVE  Watched' /\ Copied' /\ ~Calm'
  <2>1. objW \in [Objects -> Seq(ObjectVersion)] /\ objW[o] \in Seq(ObjectVersion)
    BY DEF TypeOK
  <2>2. PICK n \in Nat : n = Len(objW[o]) /\ n > 1
    BY <1>3, <2>1 DEF DeliverObject
  <2>3. /\ objW' = [objW EXCEPT ![o] = Deliver(@)]
        /\ queued' = (queued \/ componentPredicate(o, objW[o][1], objW[o][2]))
        /\ UNCHANGED <<crW, ztwimW, pc, pass>>
    BY <1>3 DEF DeliverObject
  <2>4. PICK ch : ch = objW[o]
    OBVIOUS
  <2>5. PICK new : new = Deliver(ch)
    OBVIOUS
  <2>6. /\ DOMAIN new = 1..(n - 1) /\ DOMAIN ch = 1..n
        /\ \A i \in 1..(n - 1) : new[i] = ch[i + 1]
    BY <2>1, <2>2, <2>4, <2>5, DeliverLemma
  <2>7. Noticed(ch)
    BY <2>4 DEF RestInv, Watched
  <2>8. Noticed(new)
    <3>1. ASSUME NEW i \in 1..(n - 1) PROVE i + 1 \in 1..n /\ (i + 1) - 1 = i
      OBVIOUS
    <3>2. \A i \in DOMAIN new : new[i].labels = "ok"
      BY <2>6, <2>7, <3>1 DEF Noticed
    <3>3. ASSUME NEW i \in 1..(n - 1), i > 1 PROVE new[i - 1].exists \/ new[i].exists
      <4>1. i - 1 \in 1..(n - 1) /\ (i - 1) + 1 = i /\ i + 1 > 1
        BY <3>3
      <4>2. new[i - 1] = ch[i] /\ new[i] = ch[i + 1]
        BY <2>6, <4>1
      <4>3. ch[(i + 1) - 1].exists \/ ch[i + 1].exists
        BY <2>6, <2>7, <3>1, <4>1 DEF Noticed
      <4>4. QED
        BY <3>1, <4>2, <4>3
    <3>4. QED
      BY <2>6, <3>2, <3>3 DEF Noticed
  <2>9. Watched'
    <3>1. objW'[o] = new /\ \A q \in Objects : q # o => objW'[q] = objW[q]
      BY <2>1, <2>3, <2>4, <2>5
    <3>2. \A q \in Objects : Noticed(objW'[q])
      BY <2>8, <3>1 DEF RestInv, Watched
    <3>3. QED
      BY <3>2 DEF Watched
  <2>10. componentPredicate(o, ch[1], ch[2])
    <3>1. 1 \in DOMAIN ch /\ 2 \in DOMAIN ch /\ 2 - 1 = 1 /\ 2 > 1
      BY <2>2, <2>6
    <3>2. ch[1].labels = "ok" /\ ch[2].labels = "ok"
      BY <2>7, <3>1 DEF Noticed
    <3>3. ch[2 - 1].exists \/ ch[2].exists
      BY <2>7, <3>1 DEF Noticed
    <3>4. ch[1].exists \/ ch[2].exists
      BY <3>1, <3>3
    <3>5. QED
      BY <3>2, <3>4 DEF componentPredicate, Visible
  <2>11. ~Calm'
    BY <2>3, <2>4, <2>10 DEF Calm
  <2>12. Copied'
    BY <2>3 DEF RestInv, Copied
  <2>13. QED
    BY <2>9, <2>11, <2>12
<1>4. QED
  BY <1>1, <1>2, <1>3 DEF Watch

\* A restarted process finds every existing CR in its first list.
LEMMA RestartIsQueued ==
    ASSUME TypeOK, Watched, Copied, Restart
    PROVE  Watched' /\ Copied' /\ pc' = "idle" /\ (Calm' => Right' /\ NoFailureFor(Api(crW))')
<1>1. /\ crW' = Relist(crW) /\ ztwimW' = Relist(ztwimW)
      /\ objW' = [o \in Objects |-> Relist(objW[o])]
      /\ queued' = SomethingListed /\ pc' = "idle" /\ pass' = NoPass
  BY DEF Restart
<1>2. Api(crW') = Api(crW)
  BY <1>1, RelistLemma DEF TypeOK
<1>3. Watched'
  <2>1. ASSUME NEW o \in Objects PROVE Noticed(Relist(objW[o]))
    <3>1. /\ DOMAIN Relist(objW[o]) = {1} /\ Relist(objW[o])[1] = Api(objW[o])
          /\ Len(objW[o]) \in DOMAIN objW[o]
      BY RelistLemma, ApiLemma DEF TypeOK
    <3>2. Api(objW[o]).labels = "ok"
      BY <3>1 DEF Watched, Noticed, Api
    <3>3. ~(1 > 1)
      OBVIOUS
    <3>4. QED
      BY <3>1, <3>2, <3>3 DEF Noticed
  <2>2. \A o \in Objects : Noticed(objW'[o])
    BY <1>1, <2>1
  <2>3. QED
    BY <2>2 DEF Watched
<1>4. Copied'
  BY <1>1, <1>2 DEF Copied
<1>5. ASSUME Calm' PROVE Right' /\ NoFailureFor(Api(crW))'
  <2>1. ~SomethingListed
    BY <1>1, <1>5 DEF Calm
  <2>2. Api(crW).uid = 0 /\ Api(crW).conds["Ready"] = "None"
    BY <2>1 DEF SomethingListed, Copied
  <2>3. QED
    BY <1>2, <2>2 DEF Right, NoFailureFor
<1>6. QED
  BY <1>1, <1>3, <1>4, <1>5

(***************************************************************************)
(* A pass.                                                                 *)
(***************************************************************************)

\* A rest after a write to the CR was a rest before it.
LEMMA CalmBefore ==
    ASSUME TypeOK, Calm', queued => queued', lost => lost', UNCHANGED <<ztwimW, objW>>,
           crW' = crW \/ \E v \in CRVersion : crW' = Store(crW, v)
    PROVE  Calm
<1>1. ~queued /\ ~lost /\ Settled(ztwimW) /\ \A o \in Objects : Drained(objW[o])
  BY DEF Calm
<1>2. CASE crW' = crW
  BY <1>1, <1>2 DEF Calm
<1>3. ASSUME NEW v \in CRVersion, crW' = Store(crW, v) PROVE Calm
  <2>1. /\ Cached(crW') = Cached(crW)
        /\ \A i \in DOMAIN crW : crW'[i] = crW[i]
    BY <1>3, StoreVersionsLemma DEF TypeOK
  <2>2. \A i \in DOMAIN crW : i \in DOMAIN crW'
    <3>1. CASE v = Api(crW)
      BY <1>3, <3>1 DEF Store
    <3>2. CASE v # Api(crW)
      <4>1. DOMAIN crW' = 1..(Len(crW) + 1) /\ DOMAIN crW = 1..Len(crW) /\ Len(crW) \in Nat
        BY <1>3, <3>2, AppendLemma DEF Store, TypeOK
      <4>2. QED
        BY <4>1
    <3>3. QED
      BY <3>1, <3>2
  <2>3. \A i \in DOMAIN crW' : ~crPredicate(crW'[i], Cached(crW'))
    BY DEF Calm
  <2>4. \A i \in DOMAIN crW : ~crPredicate(crW[i], Cached(crW))
    BY <2>1, <2>2, <2>3
  <2>5. QED
    BY <1>1, <2>4 DEF Calm
<1>4. QED
  BY <1>2, <1>3

\* At rest the cached CR is the stored one up to its conditions.
LEMMA CachedIsStored ==
    ASSUME TypeOK, Calm
    PROVE  /\ ~crPredicate(Cached(crW), Api(crW))
           /\ Cached(ztwimW) = Api(ztwimW)
           /\ \A o \in Objects : Cached(objW[o]) = Api(objW[o])
<1>1. ~crPredicate(Api(crW), Cached(crW))
  <2>1. Len(crW) \in DOMAIN crW
    BY ApiLemma DEF TypeOK
  <2>2. QED
    BY <2>1 DEF Calm, Api
<1>2. Cached(ztwimW) = Api(ztwimW)
  <2>1. Len(ztwimW) \in DOMAIN ztwimW
    BY ApiLemma DEF TypeOK
  <2>2. QED
    BY <2>1 DEF Calm, Settled, Api
<1>3. QED
  BY <1>1, <1>2 DEF Calm, Drained, Cached, Api, crPredicate

\* A pass begins with the CR as it is stored, or ends because there is none.
LEMMA ReconcileRests ==
    ASSUME TypeOK, RestInv, Reconcile
    PROVE  RestInv'
<1> DEFINE cr == Cached(crW)
<1>1. pc = "idle" /\ UNCHANGED <<crW, ztwimW, objW, createOnly>> /\ TypeOK'
  BY ReconcileLemma
<1>2. Watched'
  BY <1>1 DEF RestInv, Watched
<1>3. Api(crW').uid = 0 => Api(crW').conds["Ready"] = "None"
  BY <1>1 DEF RestInv, Copied
<1>4. CASE UNCHANGED <<pass, pc>> /\ queued' = queued
  <2>1. queued' /\ pc' = "idle"
    BY <1>1, <1>4 DEF Reconcile
  <2>2. Copied' /\ ~Calm'
    BY <1>3, <2>1 DEF Copied, Calm
  <2>3. QED
    BY <1>1, <1>2, <2>2 DEF RestInv
<1>5. CASE /\ pass' = [NoPass EXCEPT !.cr = cr, !.current = (cr.uid # 0 /\ Drained(crW))]
           /\ pc' = IF cr.uid = 0 THEN "idle" ELSE "initial"
  <2>1. /\ pass'.cr = cr /\ pass'.current = (cr.uid # 0 /\ Drained(crW))
        /\ pass'.conds = NoConditions(CondTypes)
    BY <1>5 DEF NoPass
  <2>2. Drained(crW) => cr = Api(crW)
    BY DEF Drained, Cached, Api
  <2>3. Copied'
    BY <1>1, <1>3, <1>5, <2>1, <2>2 DEF Copied
  <2>4. ASSUME Calm' PROVE ~crPredicate(cr, Api(crW))
    <3>1. ~crPredicate(Cached(crW'), Api(crW'))
      <4>1. crW' \in Seq(CRVersion) /\ Len(crW') > 0
        BY <1>1 DEF TypeOK
      <4>2. Len(crW') \in DOMAIN crW'
        BY <4>1, ApiLemma
      <4>3. ~crPredicate(Api(crW'), Cached(crW'))
        BY <2>4, <4>2 DEF Calm, Api
      <4>4. QED
        BY <4>3 DEF crPredicate
    <3>2. QED
      BY <1>1, <3>1
  <2>5. CASE cr.uid = 0
    <3>1. ASSUME Calm' PROVE Right' /\ NoFailureFor(Api(crW))'
      <4>1. Api(crW').uid = 0
        BY <1>1, <2>4, <2>5, <3>1 DEF crPredicate
      <4>2. QED
        BY <1>3, <4>1 DEF Right, NoFailureFor
    <3>2. QED
      BY <1>1, <1>2, <1>5, <2>3, <2>5, <3>1 DEF RestInv
  <2>6. CASE cr.uid # 0
    <3>1. pc' = "initial"
      BY <1>5, <2>6
    <3>2. ASSUME Calm' PROVE Known'
      BY <1>1, <2>1, <2>4, <3>1, <3>2 DEF Known
    <3>3. QED
      BY <1>1, <1>2, <2>3, <3>1, <3>2 DEF RestInv
  <2>7. QED
    BY <2>5, <2>6
<1>6. \/ UNCHANGED <<pass, pc>> /\ queued' = queued
      \/ /\ pass' = [NoPass EXCEPT !.cr = cr, !.current = (cr.uid # 0 /\ Drained(crW))]
         /\ pc' = IF cr.uid = 0 THEN "idle" ELSE "initial"
  BY DEF Reconcile
<1>7. QED
  BY <1>4, <1>5, <1>6

\* "Reconciling" is published, or at least written into the copy of the CR.
LEMMA InitialRests ==
    ASSUME TypeOK, RestInv, SetInitialReconciliationStatus
    PROVE  RestInv'
<1> DEFINE conds == [pass.cr.conds EXCEPT !["Ready"] = "Reconciling"]
           new == [uid |-> Api(crW).uid, spec |-> Api(crW).spec, owner |-> Api(crW).owner,
                   conds |-> conds]
           old == [uid |-> pass.cr.uid, spec |-> pass.cr.spec, owner |-> pass.cr.owner,
                   conds |-> conds]
<1>1. /\ pc = "initial" /\ pc' = "ztwim" /\ TypeOK'
      /\ UNCHANGED <<ztwimW, objW>>
      /\ conds["Ready"] = "Reconciling"
      /\ \/ conds = pass.cr.conds /\ UNCHANGED <<crW, pass>>
         \/ /\ CRIsCurrent
            /\ new \in CRVersion /\ crW' = Store(crW, new)
            /\ pass' = Locals(new, TRUE, pass.ztwim, pass.next, pass.conds, pass.err)
         \/ /\ UNCHANGED crW
            /\ \E c \in {pass.current, CRIsCurrent} :
                  pass' = Locals(old, c, pass.ztwim, pass.next, pass.conds, pass.err)
  BY InitialLemma
<1>2. UNCHANGED <<queued, lost>>
  BY DEF SetInitialReconciliationStatus
<1>3. Watched'
  BY <1>1 DEF RestInv, Watched
<1>4. Copied /\ pass.cr.uid # 0
  BY <1>1 DEF RestInv, Copied
<1> HIDE DEF conds
<1>5. ASSUME Calm' PROVE Calm /\ Known
  BY <1>1, <1>2, <1>5, CalmBefore DEF RestInv
<1>6. ASSUME Calm PROVE ~crPredicate(pass.cr, Api(crW)) /\ pass.conds = NoConditions(CondTypes)
  BY <1>1, <1>6 DEF RestInv, Known
<1>7. CASE conds = pass.cr.conds /\ UNCHANGED <<crW, pass>>
  <2>1. Copied'
    BY <1>1, <1>4, <1>7 DEF Copied
  <2>2. pass'.cr.conds["Ready"] = "Reconciling"
    BY <1>1, <1>7
  <2>3. Calm' => Known'
    BY <1>1, <1>5, <1>6, <1>7, <2>2 DEF Known
  <2>4. QED
    BY <1>1, <1>3, <2>1, <2>3 DEF RestInv
<1>8. CASE /\ CRIsCurrent
           /\ new \in CRVersion /\ crW' = Store(crW, new)
           /\ pass' = Locals(new, TRUE, pass.ztwim, pass.next, pass.conds, pass.err)
  <2>1. Api(crW') = new
    BY <1>8, StoreLemma DEF TypeOK
  <2>2. pass'.cr = new /\ pass'.conds = pass.conds /\ new.conds = conds /\ new.uid = pass.cr.uid
    BY <1>8 DEF Locals, CRIsCurrent
  <2> HIDE DEF new
  <2>3. Copied'
    BY <1>1, <1>4, <2>1, <2>2 DEF Copied
  <2>4. Calm' => Known'
    BY <1>1, <1>5, <1>6, <2>1, <2>2 DEF Known, crPredicate
  <2>5. QED
    BY <1>1, <1>3, <2>3, <2>4 DEF RestInv
<1>9. ASSUME NEW c \in {pass.current, CRIsCurrent}, UNCHANGED crW,
             pass' = Locals(old, c, pass.ztwim, pass.next, pass.conds, pass.err)
      PROVE  RestInv'
  <2>1. /\ pass'.cr = old /\ pass'.current = c /\ pass'.conds = pass.conds
        /\ old.conds = conds /\ old.uid = pass.cr.uid
        /\ old.spec = pass.cr.spec /\ old.owner = pass.cr.owner
    BY <1>9 DEF Locals
  <2> HIDE DEF old
  <2>2. c => pass.cr.uid = Api(crW).uid
    BY <1>1, <1>4 DEF Copied, CRIsCurrent
  <2>3. Copied'
    BY <1>1, <1>4, <1>9, <2>1, <2>2 DEF Copied
  <2>4. Calm' => Known'
    BY <1>1, <1>5, <1>6, <1>9, <2>1 DEF Known, crPredicate
  <2>5. QED
    BY <1>1, <1>3, <2>3, <2>4 DEF RestInv
<1>10. QED
  BY <1>1, <1>7, <1>8, <1>9

\* The ZTWIM CR is missing, and that is the verdict; or its UID is read.
LEMMA GetZTWIMRests ==
    ASSUME TypeOK, RestInv, GetZTWIM
    PROVE  RestInv'
<1> DEFINE failed == [pass.conds EXCEPT !["Ready"] = "False"]
<1>1. pc = "ztwim" /\ UNCHANGED <<crW, ztwimW, objW, queued, lost>>
  BY DEF GetZTWIM
<1>2. TypeOK'
  BY GetZTWIMLemma
<1>3. pass \in Pass /\ failed["Ready"] = "False"
  BY PartTypes, FailedType
<1>4. Watched'
  BY <1>1 DEF RestInv, Watched
<1>5. ASSUME Calm' PROVE Calm /\ Known /\ Cached(ztwimW) = Api(ztwimW)
  <2>1. Calm
    BY <1>1, <1>5 DEF Calm
  <2>2. QED
    BY <1>1, <2>1, CachedIsStored DEF RestInv
<1>6. ASSUME pass'.cr = pass.cr, pass'.current = pass.current, pc' # "idle" PROVE Copied'
  BY <1>1, <1>6 DEF RestInv, Copied
<1>7. CASE /\ Cached(ztwimW) = 0 /\ pc' = "final"
           /\ pass' = [pass EXCEPT !.conds["Ready"] = "False"]
  <2>1. pass'.cr = pass.cr /\ pass'.current = pass.current /\ pass'.conds = failed
    BY <1>3, <1>7 DEF Pass
  <2> HIDE DEF failed
  <2>2. Copied'
    BY <1>6, <1>7, <2>1
  <2>3. ASSUME Calm' PROVE Known'
    <3>1. Verdict'
      BY <1>1, <1>3, <1>5, <1>7, <2>1, <2>3 DEF Verdict
    <3>2. QED
      BY <1>1, <1>5, <1>7, <2>1, <2>3, <3>1 DEF Known
  <2>4. QED
    BY <1>2, <1>4, <1>7, <2>2, <2>3 DEF RestInv
<1>8. CASE /\ Cached(ztwimW) # 0 /\ pass' = [pass EXCEPT !.ztwim = Cached(ztwimW)]
           /\ pc' = IF pass.cr.owner = Cached(ztwimW) THEN "mode" ELSE "owner"
  <2>1. /\ pass'.cr = pass.cr /\ pass'.current = pass.current /\ pass'.conds = pass.conds
        /\ pass'.ztwim = Cached(ztwimW)
    BY <1>3, <1>8 DEF Pass
  <2>2. Copied'
    BY <1>6, <1>8, <2>1
  <2>3. Calm' => Known'
    BY <1>1, <1>5, <1>8, <2>1 DEF Known, Adopted
  <2>4. QED
    BY <1>2, <1>4, <1>8, <2>2, <2>3 DEF RestInv
<1>9. CASE pass' = [pass EXCEPT !.err = TRUE] /\ pc' = "final"
  <2>1. pass'.cr = pass.cr /\ pass'.current = pass.current /\ pass'.err
    BY <1>3, <1>9 DEF Pass
  <2>2. Copied'
    BY <1>6, <1>9, <2>1
  <2>3. Calm' => Known'
    BY <1>1, <1>5, <1>9, <2>1 DEF Known
  <2>4. QED
    BY <1>2, <1>4, <1>9, <2>2, <2>3 DEF RestInv
<1>10. QED
  BY <1>7, <1>8, <1>9 DEF GetZTWIM

\* At rest the CR has its owner already: adopting it would be another change.
LEMMA OwnerRests ==
    ASSUME TypeOK, RestInv, SetOwnerReference
    PROVE  RestInv'
<1> DEFINE cr == [uid |-> Api(crW).uid, spec |-> pass.cr.spec, owner |-> pass.ztwim,
                  conds |-> Api(crW).conds]
<1>1. /\ pc = "owner" /\ UNCHANGED <<ztwimW, objW>> /\ TypeOK'
      /\ \/ /\ pass.current
            /\ cr \in CRVersion /\ crW' = Store(crW, cr)
            /\ pass' = Locals(cr, pass.current, pass.ztwim, pass.next, pass.conds, pass.err)
            /\ pc' = "mode"
         \/ /\ pass' = Locals(pass.cr, pass.current, pass.ztwim, pass.next,
                              [pass.conds EXCEPT !["Ready"] = "False"], TRUE)
            /\ pc' = "final" /\ UNCHANGED crW
  BY OwnerLemma
<1>2. UNCHANGED <<queued, lost>>
  BY DEF SetOwnerReference
<1>3. Watched'
  BY <1>1 DEF RestInv, Watched
<1>4. Copied /\ pass.cr.uid # 0
  BY <1>1 DEF RestInv, Copied
<1>5. ASSUME Calm' PROVE Calm /\ Known
  BY <1>1, <1>2, <1>5, CalmBefore DEF RestInv
<1>6. CASE /\ pass.current
           /\ cr \in CRVersion /\ crW' = Store(crW, cr)
           /\ pass' = Locals(cr, pass.current, pass.ztwim, pass.next, pass.conds, pass.err)
           /\ pc' = "mode"
  <2>1. Api(crW') = cr
    BY <1>6, StoreLemma DEF TypeOK
  <2>2. pass'.cr = cr /\ cr.uid = Api(crW).uid /\ cr.owner = pass.ztwim
    BY <1>6 DEF Locals
  <2> HIDE DEF cr
  <2>3. Api(crW).uid = pass.cr.uid
    BY <1>1, <1>4, <1>6 DEF Copied
  <2>4. Copied'
    BY <1>4, <1>6, <2>1, <2>2, <2>3 DEF Copied
  <2>5. ASSUME Calm' PROVE FALSE
    <3>1. Api(crW).owner # cr.owner
      BY <1>1, <1>5, <2>2, <2>5 DEF Known, crPredicate
    <3>2. crW' = Append(crW, cr) /\ crPredicate(Api(crW), cr)
      BY <1>6, <3>1 DEF Store, crPredicate
    <3>3. QED
      BY <1>6, <2>5, <3>2, ChangedCRLemma
  <2>6. QED
    BY <1>1, <1>3, <2>4, <2>5 DEF RestInv
<1>7. CASE /\ pass' = Locals(pass.cr, pass.current, pass.ztwim, pass.next,
                             [pass.conds EXCEPT !["Ready"] = "False"], TRUE)
           /\ pc' = "final" /\ UNCHANGED crW
  <2>1. pass'.cr = pass.cr /\ pass'.current = pass.current /\ pass'.err
    BY <1>7 DEF Locals
  <2>2. Copied'
    BY <1>1, <1>4, <1>7, <2>1 DEF Copied
  <2>3. Calm' => Known'
    BY <1>1, <1>5, <1>7, <2>1 DEF Known
  <2>4. QED
    BY <1>1, <1>3, <1>7, <2>2, <2>3 DEF RestInv
<1>8. QED
  BY <1>1, <1>6, <1>7

\* The mode is looked at, and no step that applies is skipped.
LEMMA ModeRests ==
    ASSUME TypeOK, RestInv, handleCreateOnlyMode
    PROVE  RestInv'
<1> DEFINE mode == IF createOnly THEN "True"
                   ELSE IF pass.cr.conds["CreateOnlyMode"] = "True" THEN "False" ELSE "None"
           conds == [pass.conds EXCEPT !["CreateOnlyMode"] = mode]
           next == NextStep(0, pass.cr.spec)
<1>1. /\ pc = "mode" /\ pc' = "step"
      /\ UNCHANGED <<crW, ztwimW, objW, createOnly, queued, lost>>
  BY DEF handleCreateOnlyMode, env
<1>2. TypeOK' /\ pass \in Pass /\ pass.conds \in [CondTypes -> CondVal]
  BY ModeLemma, PartTypes
<1>3. pass' = [pass EXCEPT !.conds["CreateOnlyMode"] = mode, !.next = next]
  BY DEF handleCreateOnlyMode
<1> HIDE DEF mode
<1>4. pass' = Locals(pass.cr, pass.current, pass.ztwim, next, conds, pass.err)
  BY <1>2, <1>3 DEF Pass, Locals
<1>5. /\ pass'.cr = pass.cr /\ pass'.current = pass.current /\ pass'.ztwim = pass.ztwim
      /\ pass'.next = next /\ pass'.conds = conds
  BY <1>4 DEF Locals
<1>6. Watched' /\ Copied'
  BY <1>1, <1>5 DEF RestInv, Watched, Copied
<1>7. ASSUME Calm' PROVE Known'
  <2>1. Calm
    BY <1>1, <1>7 DEF Calm
  <2>2. Known
    BY <1>1, <2>1 DEF RestInv
  <2>3. pass.conds = NoConditions(CondTypes) /\ Adopted
    BY <1>1, <2>2 DEF Known
  <2>4. /\ conds["CreateOnlyMode"] = mode /\ conds["Ready"] = "None"
        /\ \A c \in CondTypes \ NotOperational : conds[c] = "None"
    BY <2>3, CondTypesLemma DEF NoConditions, NotOperational
  <2> HIDE DEF conds
  <2>5. Adopted' /\ pass'.conds["Ready"] = "None" /\ ModeKnown(pass.conds)'
    BY <1>1, <1>5, <2>3, <2>4 DEF Adopted, ModeKnown, mode
  <2>6. /\ next \in DOMAIN Steps /\ Applies(Steps[next], pass.cr.spec)
        /\ \A j \in DOMAIN Steps : j > 0 /\ j < next => ~Applies(Steps[j], pass.cr.spec)
    BY NextStepType, NextStepSkips
  <2>7. \A i \in 1..(next - 1) : ~Applies(Steps[i], pass.cr.spec)
    <3>1. DOMAIN Steps = 1..Len(Steps) /\ Len(Steps) \in Nat
      BY StepsAssumption
    <3> HIDE DEF next
    <3>2. \A i \in 1..(next - 1) : i \in DOMAIN Steps /\ i > 0 /\ i < next
      BY <2>6, <3>1
    <3>3. QED
      BY <2>6, <3>2
  <2> HIDE DEF next
  <2>8. StepsKnown'
    <3>1. Explained(pass.conds, pass.next)'
      BY <1>5, <2>4 DEF Explained, ExplainedIn
    <3>2. \A i \in 1..(pass'.next - 1) : ~Applies(Steps[i], pass'.cr.spec)
      BY <1>5, <2>7
    <3>3. QED
      BY <3>1, <3>2 DEF StepsKnown
  <2>9. Applies(ThisStep, pass.cr.spec)'
    BY <1>5, <2>6 DEF ThisStep
  <2>10. QED
    BY <1>1, <1>5, <2>2, <2>5, <2>8, <2>9 DEF Known, Adopted
<1>8. QED
  BY <1>1, <1>2, <1>6, <1>7 DEF RestInv

\* What an undisturbed pass publishes is right.
LEMMA ApplyRests ==
    ASSUME TypeOK, RestInv, ApplyStatus
    PROVE  RestInv'
<1> DEFINE conds == Published(pass.cr.conds, pass.conds)
           new == [uid |-> Api(crW).uid, spec |-> Api(crW).spec, owner |-> Api(crW).owner,
                   conds |-> conds]
<1>1. /\ pc = "final" /\ pc' = "idle" /\ TypeOK'
      /\ UNCHANGED <<ztwimW, objW, createOnly>>
      /\ queued' = (queued \/ pass.err)
  BY ApplyLemma DEF ApplyStatus
<1>2. Api(crW) \in CRVersion /\ conds \in [CondTypes -> CondVal]
  BY PartTypes, PublishedType
<1>3. \/ conds = pass.cr.conds /\ UNCHANGED <<crW, lost>>
      \/ CRIsCurrent /\ crW' = Store(crW, [Api(crW) EXCEPT !.conds = conds]) /\ UNCHANGED lost
      \/ lost' = TRUE /\ UNCHANGED crW
  BY DEF ApplyStatus
<1> HIDE DEF conds
<1>4. new \in CRVersion /\ [Api(crW) EXCEPT !.conds = conds] = new
  BY <1>2 DEF CRVersion
<1>5. new.uid = Api(crW).uid /\ new.spec = Api(crW).spec /\ new.owner = Api(crW).owner
      /\ new.conds = conds
  OBVIOUS
<1> HIDE DEF new
<1>6. Watched'
  BY <1>1 DEF RestInv, Watched
<1>7. Copied /\ pass.cr.uid # 0
  BY <1>1 DEF RestInv, Copied
<1>8. ASSUME Calm, ~pass.err PROVE Known /\ Verdict /\ pass.cr.conds["Ready"] = "Reconciling"
  BY <1>1, <1>8 DEF RestInv, Known
<1>9. CASE conds = pass.cr.conds /\ UNCHANGED <<crW, lost>>
  <2>1. Copied'
    BY <1>1, <1>7, <1>9 DEF Copied
  <2>2. ASSUME Calm' PROVE FALSE
    <3>1. ~queued' /\ ~lost'
      BY <2>2 DEF Calm
    <3>2. ~queued /\ ~pass.err
      BY <1>1, <3>1
    <3>3. Calm
      BY <1>1, <1>9, <2>2, <3>2, CalmBefore
    <3>4. QED
      BY <1>8, <1>9, <3>2, <3>3, VerdictIsNews DEF conds
  <2>3. QED
    BY <1>1, <1>6, <2>1, <2>2 DEF RestInv
<1>10. CASE CRIsCurrent /\ crW' = Store(crW, new) /\ UNCHANGED lost
  <2>1. Api(crW') = new
    BY <1>4, <1>10, StoreLemma DEF TypeOK
  <2>2. Copied'
    BY <1>1, <1>5, <1>7, <1>10, <2>1 DEF Copied, CRIsCurrent
  <2>3. ASSUME Calm' PROVE Right' /\ NoFailureFor(Api(crW))'
    <3>1. ~queued' /\ ~lost'
      BY <2>3 DEF Calm
    <3>2. ~queued /\ ~pass.err
      BY <1>1, <3>1
    <3>3. Calm
      BY <1>1, <1>4, <1>10, <2>3, <3>2, CalmBefore
    <3>4. Known /\ Verdict
      BY <1>8, <3>2, <3>3
    <3>5. new.uid = pass.cr.uid /\ new.spec = pass.cr.spec /\ new.owner = pass.cr.owner
      BY <1>5, <3>4 DEF Known, crPredicate
    <3>6. RightFor(new) /\ NoFailureFor(new)
      BY <1>5, <3>4, <3>5, VerdictIsRight DEF conds
    <3>7. Right'
      BY <1>1, <2>1, <3>6 DEF Right, RightFor, ExpectedReady, ObjectsRight
    <3>8. NoFailureFor(Api(crW))'
      BY <1>1, <2>1, <3>6 DEF NoFailureFor
    <3>9. QED
      BY <3>7, <3>8
  <2>4. QED
    BY <1>1, <1>6, <2>2, <2>3 DEF RestInv
<1>11. CASE lost' = TRUE /\ UNCHANGED crW
  <2>1. Copied' /\ ~Calm'
    BY <1>1, <1>7, <1>11 DEF Copied, Calm
  <2>2. QED
    BY <1>1, <1>6, <2>1 DEF RestInv
<1>12. QED
  BY <1>3, <1>4, <1>9, <1>10, <1>11

(***************************************************************************)
(* The steps of a pass.                                                    *)
(***************************************************************************)

\* The steps other than checks and marks are about an object.
LEMMA StepIsAboutObject ==
    ASSUME TypeOK, pc = "step", ThisStep.kind \notin {"validate", "mark"}
    PROVE  ThisStep.obj \in Objects
<1>1. pass.next \in DOMAIN Steps
  BY DEF TypeOK
<1>2. ThisStep.obj # "none"
  BY <1>1, StepsOrderAssumption DEF ThisStep
<1>3. QED
  BY <1>1, <1>2 DEF Objects, ThisStep

\* A step that writes an object has disturbed the rest.
LEMMA StepDisturbs ==
    ASSUME TypeOK, Watched, AStep
    PROVE  Watched' /\ (Calm' => objW' = objW)
<1> DEFINE o == ThisStep.obj
           desired == Desired(ThisStep, pass.cr, pass.ztwim)
           updated == Updated(Api(objW[o]), desired)
<1>1. pc = "step"
  BY StepKeeps
<1>2. CASE objW' = objW
  BY <1>2 DEF Watched
<1>3. CASE /\ ThisStep.kind \notin {"validate", "mark"}
           /\ \/ objW' = [objW EXCEPT ![o] = Append(@, desired)]
              \/ objW' = [objW EXCEPT ![o] = Store(@, updated)]
  <2>1. o \in Objects
    BY <1>1, <1>3, StepIsAboutObject
  <2>2. /\ desired \in ObjectVersion /\ updated \in ObjectVersion
    <3>1. ThisStep \in StepType /\ pass.cr \in CRVersion /\ pass.ztwim \in 0..MaxUid
      BY <1>1, ReportType, PartTypes DEF Pass
    <3>2. QED
      BY <2>1, <3>1, DesiredType, PartTypes
  <2>3. desired.labels = "ok" /\ desired.exists
    BY DEF Desired
  <2>4. updated.labels = "ok" /\ updated.exists
    BY DEF Desired, Updated
  <2> HIDE DEF desired, updated
  <2>5. CASE objW' = [objW EXCEPT ![o] = Append(@, desired)]
    BY <2>1, <2>2, <2>3, <2>5, WriteObjectLemma
  <2>6. CASE objW' = [objW EXCEPT ![o] = Store(@, updated)]
    <3>1. CASE updated = Api(objW[o])
      <4>1. objW' = [objW EXCEPT ![o] = objW[o]]
        BY <2>6, <3>1 DEF Store
      <4>2. objW' = objW
        BY <4>1 DEF TypeOK
      <4>3. QED
        BY <1>2, <4>2
    <3>2. CASE updated # Api(objW[o])
      <4>1. objW' = [objW EXCEPT ![o] = Append(@, updated)]
        BY <2>6, <3>2 DEF Store
      <4>2. QED
        BY <2>1, <2>2, <2>4, <4>1, WriteObjectLemma
    <3>3. QED
      BY <3>1, <3>2
  <2>7. QED
    BY <1>3, <2>5, <2>6
<1>4. CASE Validate \/ Mark \/ CheckHealth
  BY <1>2, <1>4 DEF Validate, Mark, CheckHealth
<1>5. CASE ReconcileObject
  BY <1>2, <1>3, <1>5, Zenon DEF ReconcileObject, CreateSucceeds, CreateFails,
     UpdateSucceeds, UpdateFails
<1>6. CASE CreateOnce
  BY <1>2, <1>3, <1>6, Zenon DEF CreateOnce, CreateSucceeds
<1>7. CASE ReconcileRoute
  BY <1>2, <1>3, <1>7, Zenon DEF ReconcileRoute, CreateSucceeds, CreateFails,
     UpdateSucceeds, UpdateFails
<1>8. QED
  BY <1>4, <1>5, <1>6, <1>7 DEF AStep

\* What a step adds to the conditions: nothing, or its own, for which a disabled Route or a
\* workload that is not healthy accounts.
Reported(c) ==
    \/ c = pass.conds
    \/ \E v \in CondVal \ {"None", "Reconciling"} :
          /\ c = [pass.conds EXCEPT ![ThisStep.cond] = v]
          /\ v = "False" => ThisStep.kind = "route" /\ "managedRoute" \notin pass.cr.spec.enabled
          /\ v = "Progressing" => ThisStep.kind = "health" /\ ~Api(objW[ThisStep.obj]).healthy

\* Nothing is reported after the health of a workload or a Route in the same condition.
LEMMA ReportedLast ==
    ASSUME NEW i \in DOMAIN Steps, NEW j \in DOMAIN Steps, i < j,
           Steps[i].kind \in {"health", "route"}
    PROVE  Steps[j].cond # Steps[i].cond
<1>1. DOMAIN Steps = 1..Len(Steps) /\ Len(Steps) \in Nat
  BY StepsAssumption
<1>2. j \in (i + 1)..Len(Steps)
  BY <1>1
<1>3. \A k \in (i + 1)..Len(Steps) : Steps[k].cond # Steps[i].cond
  BY StepsOrderAssumption
<1>4. QED
  BY <1>2, <1>3

\* A step leaves the outcome of the earlier ones standing.
LEMMA DoneIsKept ==
    ASSUME TypeOK, pc = "step", NEW c, Reported(c),
           NEW i \in 1..(pass.next - 1), Done(i, pass.conds)
    PROVE  Done(i, c)
<1>1. /\ DOMAIN Steps = 1..Len(Steps) /\ Len(Steps) \in Nat
      /\ pass.next \in DOMAIN Steps /\ pass.next \in Nat
  BY StepsAssumption DEF TypeOK
<1>2. i \in DOMAIN Steps /\ i < pass.next
  BY <1>1
<1>3. pass.conds \in [CondTypes -> CondVal] /\ Steps[i].cond \in CondTypes
  BY <1>2, PartTypes, CondTypesLemma
<1>4. CASE c[Steps[i].cond] = pass.conds[Steps[i].cond]
  BY <1>4, Zenon DEF Done, DoneIn
<1>5. CASE c[Steps[i].cond] # pass.conds[Steps[i].cond]
  <2>1. PICK v \in CondVal \ {"None", "Reconciling"} : c = [pass.conds EXCEPT ![ThisStep.cond] = v]
    BY <1>5 DEF Reported
  <2>2. Steps[i].cond = ThisStep.cond /\ c[Steps[i].cond] = v
    BY <1>3, <1>5, <2>1
  <2>3. Steps[i].kind \notin {"health", "route"}
    BY <1>1, <1>2, <2>2, ReportedLast DEF ThisStep
  <2>4. c[Steps[i].cond] # "None"
    BY <2>2
  <2>5. Steps[i].kind # "health" /\ Steps[i].kind # "route"
    BY <2>3
  <2>6. QED
    BY <2>4, <2>5, Zenon DEF Done, DoneIn
<1>6. QED
  BY <1>4, <1>5

\* The conditions stay accounted for.
LEMMA ExplainedIsKept ==
    ASSUME TypeOK, pc = "step", NEW c, Reported(c), NEW next \in Nat, next > pass.next,
           Explained(pass.conds, pass.next), Applies(ThisStep, pass.cr.spec)
    PROVE  Explained(c, next)
<1>1. pass.next \in Nat /\ pass.next \in 1..(next - 1) /\ \A i \in 1..(pass.next - 1) : i \in 1..(next - 1)
  <2>1. pass.next \in 1..Len(Steps) /\ Len(Steps) \in Nat
    BY StepsAssumption DEF TypeOK
  <2>2. QED
    BY <2>1
<1>2. pass.conds \in [CondTypes -> CondVal]
  BY PartTypes
<1> SUFFICES ASSUME NEW d \in CondTypes \ NotOperational
             PROVE  /\ c[d] # "Reconciling"
                    /\ c[d] = "False" =>
                          \E i \in 1..(next - 1) :
                             /\ Steps[i].cond = d /\ Steps[i].kind = "route"
                             /\ Applies(Steps[i], pass.cr.spec)
                             /\ "managedRoute" \notin pass.cr.spec.enabled
                    /\ c[d] = "Progressing" =>
                          \E i \in 1..(next - 1) :
                             /\ Steps[i].cond = d /\ Steps[i].kind = "health"
                             /\ ~Api(objW[Steps[i].obj]).healthy
  BY DEF Explained, ExplainedIn
<1>3. CASE c[d] = pass.conds[d]
  <2>1. /\ pass.conds[d] # "Reconciling"
        /\ pass.conds[d] = "False" =>
              \E i \in 1..(pass.next - 1) :
                 /\ Steps[i].cond = d /\ Steps[i].kind = "route"
                 /\ Applies(Steps[i], pass.cr.spec) /\ "managedRoute" \notin pass.cr.spec.enabled
        /\ pass.conds[d] = "Progressing" =>
              \E i \in 1..(pass.next - 1) :
                 /\ Steps[i].cond = d /\ Steps[i].kind = "health"
                 /\ ~Api(objW[Steps[i].obj]).healthy
    BY Zenon DEF Explained, ExplainedIn
  <2>2. QED
    BY <1>1, <1>3, <2>1, Zenon
<1>4. CASE c[d] # pass.conds[d]
  <2>1. PICK v \in CondVal \ {"None", "Reconciling"} :
           /\ c = [pass.conds EXCEPT ![ThisStep.cond] = v]
           /\ v = "False" => ThisStep.kind = "route" /\ "managedRoute" \notin pass.cr.spec.enabled
           /\ v = "Progressing" => ThisStep.kind = "health" /\ ~Api(objW[ThisStep.obj]).healthy
    BY <1>4 DEF Reported
  <2>2. d = ThisStep.cond /\ c[d] = v /\ v # "Reconciling"
    BY <1>2, <1>4, <2>1
  <2>3. QED
    BY <1>1, <2>1, <2>2 DEF ThisStep
<1>5. QED
  BY <1>3, <1>4

\* A step that is done and goes on adds itself to what the pass knows.
LEMMA GoesOn ==
    ASSUME TypeOK, pc = "step", Known, UNCHANGED <<crW, ztwimW, objW, createOnly>>,
           NEW c \in [CondTypes -> CondVal], Continue(c), Reported(c), Done(pass.next, c)
    PROVE  Known'
<1> DEFINE next == NextStep(pass.next, pass.cr.spec)
<1>1. /\ pass' = [cr |-> pass.cr, current |-> pass.current, ztwim |-> pass.ztwim,
                  next |-> next, conds |-> c, err |-> pass.err]
      /\ \/ pc' = "final" /\ pass'.next = Len(Steps) + 1
         \/ pc' = "step" /\ pass'.next \in DOMAIN Steps
  BY OutcomeLemma
<1>2. /\ DOMAIN Steps = 1..Len(Steps) /\ Len(Steps) \in Nat
      /\ pass.next \in DOMAIN Steps /\ pass.next \in Nat
  BY StepsAssumption DEF TypeOK
<1>3. /\ next \in Nat /\ next > pass.next
      /\ next \in DOMAIN Steps => Applies(Steps[next], pass.cr.spec)
      /\ \A j \in DOMAIN Steps : j > pass.next /\ j < next => ~Applies(Steps[j], pass.cr.spec)
  BY <1>2, NextStepSkips
<1>4. next \in 1..(Len(Steps) + 1)
  BY <1>2, NextStepType
<1> HIDE DEF next
<1>5. /\ pass'.cr = pass.cr /\ pass'.ztwim = pass.ztwim /\ pass'.next = next
      /\ pass'.conds = c /\ pass'.err = pass.err
  BY <1>1
<1>6. /\ Adopted /\ pass.conds["Ready"] = "None" /\ ModeKnown(pass.conds)
      /\ StepsKnown /\ Applies(ThisStep, pass.cr.spec)
  BY DEF Known
<1>7. c["Ready"] = pass.conds["Ready"] /\ c["CreateOnlyMode"] = pass.conds["CreateOnlyMode"]
  <2>1. ThisStep.cond # "Ready" /\ ThisStep.cond # "CreateOnlyMode"
    BY <1>2, CondTypesLemma DEF ThisStep, NotOperational
  <2>2. pass.conds \in [CondTypes -> CondVal]
    BY PartTypes
  <2>3. QED
    BY <2>1, <2>2, CondTypesLemma DEF Reported
<1>8. Adopted' /\ pass'.conds["Ready"] = "None" /\ ModeKnown(pass.conds)'
  BY <1>5, <1>6, <1>7 DEF Adopted, ModeKnown
<1>9. Explained(c, next)
  BY <1>3, <1>6, ExplainedIsKept DEF StepsKnown
<1>10. Explained(pass.conds, pass.next)'
  BY <1>5, <1>9, Zenon DEF Explained
<1>11. ASSUME NEW i \in 1..(next - 1), Applies(Steps[i], pass.cr.spec) PROVE Done(i, c)
  <2>1. i \in DOMAIN Steps /\ i \in Nat /\ i < next
    BY <1>2, <1>4
  <2>2. CASE i < pass.next
    <3>1. i \in 1..(pass.next - 1)
      BY <1>2, <2>2
    <3>2. Done(i, pass.conds)
      BY <1>6, <1>11, <3>1 DEF StepsKnown
    <3>3. QED
      BY <3>1, <3>2, DoneIsKept
  <2>3. CASE i = pass.next
    BY <2>3
  <2>4. CASE i > pass.next
    BY <1>3, <1>11, <2>1, <2>4
  <2>5. QED
    BY <1>2, <2>1, <2>2, <2>3, <2>4
<1>12. ASSUME NEW i, Done(i, c) PROVE Done(i, pass.conds)'
  <2>1. /\ pass'.cr = pass.cr /\ pass'.ztwim = pass.ztwim /\ pass'.conds = c
        /\ objW' = objW /\ createOnly' = createOnly
    BY <1>5
  <2>2. SkipsUpdate(Steps[i])' = SkipsUpdate(Steps[i])
    BY <2>1 DEF SkipsUpdate
  <2>3. QED
    BY <1>12, <2>1, <2>2, Zenon DEF Done
<1>13. StepsKnown'
  BY <1>5, <1>10, <1>11, <1>12 DEF StepsKnown
<1>14. ~crPredicate(pass.cr, Api(crW))' /\ pass'.cr.conds["Ready"] = "Reconciling"
  BY <1>5 DEF Known
<1>15. CASE pc' = "final" /\ pass'.next = Len(Steps) + 1
  BY <1>8, <1>13, <1>14, <1>15 DEF Known, Verdict
<1>16. CASE pc' = "step" /\ pass'.next \in DOMAIN Steps
  <2>1. Applies(ThisStep, pass.cr.spec)'
    BY <1>3, <1>5, <1>16 DEF ThisStep
  <2>2. QED
    BY <1>8, <1>13, <1>14, <1>16, <2>1 DEF Known, Adopted
<1>17. QED
  BY <1>1, <1>15, <1>16

\* A step that stops has found the spec invalid or puts the item back into the queue.
LEMMA Stops ==
    ASSUME TypeOK, pc = "step", Known, UNCHANGED <<crW, ztwimW, objW, createOnly>>,
           NEW v \in CondVal, NEW e \in BOOLEAN, Stop(v, e),
           e \/ (v = "False" /\ Invalid(pass.cr.spec))
    PROVE  Known'
<1> DEFINE c == [pass.conds EXCEPT ![ThisStep.cond] = v]
<1>1. /\ pass' = [cr |-> pass.cr, current |-> pass.current, ztwim |-> pass.ztwim,
                  next |-> pass.next, conds |-> c, err |-> e]
      /\ pc' = "final"
  BY OutcomeLemma
<1>2. /\ pass'.cr = pass.cr /\ pass'.ztwim = pass.ztwim /\ pass'.conds = c /\ pass'.err = e
  BY <1>1
<1>3. ThisStep.cond \in CondTypes \ NotOperational /\ pass.conds \in [CondTypes -> CondVal]
  BY PartTypes, CondTypesLemma DEF ThisStep, TypeOK
<1>4. /\ c[ThisStep.cond] = v /\ c["Ready"] = pass.conds["Ready"]
      /\ c["CreateOnlyMode"] = pass.conds["CreateOnlyMode"]
  BY <1>3, CondTypesLemma DEF NotOperational
<1> HIDE DEF c
<1>5. ~crPredicate(pass.cr, Api(crW))' /\ pass'.cr.conds["Ready"] = "Reconciling"
  BY <1>2 DEF Known
<1>6. CASE e
  BY <1>1, <1>2, <1>5, <1>6 DEF Known
<1>7. CASE v = "False" /\ Invalid(pass.cr.spec)
  <2>1. Adopted /\ pass.conds["Ready"] = "None" /\ ModeKnown(pass.conds)
    BY DEF Known
  <2>2. Adopted' /\ pass'.conds["Ready"] = "None" /\ ModeKnown(pass.conds)'
    BY <1>2, <1>4, <2>1 DEF Adopted, ModeKnown
  <2>3. Invalid(pass.cr.spec)' /\ \E d \in CondTypes \ NotOperational : pass'.conds[d] = "False"
    BY <1>2, <1>3, <1>4, <1>7 DEF Invalid
  <2>4. QED
    BY <1>1, <1>5, <2>2, <2>3 DEF Known, Verdict
<1>8. QED
  BY <1>6, <1>7

\* The object of the step is there and, unless left to others, as generated.
InPlace ==
    LET v == Api(objW[ThisStep.obj])
    IN  /\ v.exists
        /\ \/ SkipsUpdate(ThisStep)
           \/ ThisStep.kind = "createonce"
           \/ ~Differs(v, Desired(ThisStep, pass.cr, pass.ztwim))

\* A step that found its object in place, or has none, is done when it succeeds.
LEMMA SuccessGoesOn ==
    ASSUME TypeOK, pc = "step", Known, UNCHANGED <<crW, ztwimW, objW, createOnly>>, Success,
           ThisStep.kind \notin {"validate", "health"},
           ThisStep.kind = "route" => "managedRoute" \in pass.cr.spec.enabled,
           ThisStep.kind = "mark" \/ InPlace
    PROVE  Known'
<1> DEFINE c == IF ThisStep.marks THEN [pass.conds EXCEPT ![ThisStep.cond] = "True"]
                ELSE pass.conds
<1>1. pass.next \in DOMAIN Steps /\ ThisStep = Steps[pass.next] /\ ThisStep.cond \in CondTypes
  BY CondTypesLemma DEF TypeOK, ThisStep
<1>2. "True" \in CondVal \ {"None", "Reconciling"} /\ pass.conds \in [CondTypes -> CondVal]
  BY PartTypes DEF CondVal
<1>3. c \in [CondTypes -> CondVal]
  BY <1>2, ReportType
<1>4. Reported(c)
  <2>1. CASE ThisStep.marks
    <3>1. c = [pass.conds EXCEPT ![ThisStep.cond] = "True"]
      BY <2>1
    <3>2. QED
      BY <1>2, <3>1 DEF Reported
  <2>2. CASE ~ThisStep.marks
    BY <2>2 DEF Reported
  <2>3. QED
    BY <2>1, <2>2
<1>5. ThisStep.marks => c[ThisStep.cond] = "True"
  BY <1>1, <1>2
<1>6. Continue(c)
  BY DEF Success
<1> HIDE DEF c
<1>7. ThisStep.kind = "route" => ThisStep.marks
  BY <1>1, StepsOrderAssumption
<1>8. ThisStep.kind = "mark" => ThisStep.obj = "none"
  BY <1>1, StepsOrderAssumption
<1>9. Says(ThisStep) => ThisStep.marks
  BY DEF Says
<1>10. ThisStep.kind # "validate" /\ ThisStep.kind # "health"
  OBVIOUS
<1>11. Deploys(pass.next, pass.cr.spec) => InPlace
  BY <1>1, <1>8 DEF Deploys
<1>12. ThisStep.marks => c[ThisStep.cond] # "None"
  BY <1>5
<1>13. Done(pass.next, c)
  BY <1>1, <1>5, <1>7, <1>9, <1>10, <1>11, <1>12, Zenon DEF Done, DoneIn, InPlace
<1>14. QED
  BY <1>3, <1>4, <1>6, <1>13, GoesOn

\* At rest the cache shows the object as it is.
LEMMA ViewIsStored ==
    ASSUME TypeOK, Watched, Calm, NEW o \in Objects
    PROVE  View(o) = Api(objW[o])
<1>1. Cached(objW[o]) = Api(objW[o]) /\ 1 \in DOMAIN objW[o]
  BY CachedIsStored, ApiLemma DEF TypeOK
<1>2. Cached(objW[o]).labels = "ok"
  BY <1>1 DEF Watched, Noticed, Cached
<1>3. QED
  BY <1>1, <1>2 DEF View, Visible

\* validateConfiguration and the like have read the spec that is stored.
LEMMA ValidateKnown ==
    ASSUME TypeOK, Known, Validate
    PROVE  Known'
<1>1. pc = "step" /\ ThisStep.kind = "validate" /\ UNCHANGED <<crW, ztwimW, objW, createOnly>>
  BY DEF Validate, env
<1>2. pass.next \in DOMAIN Steps /\ ThisStep = Steps[pass.next] /\ ThisStep.cond \in CondTypes
  BY <1>1, CondTypesLemma DEF TypeOK, ThisStep
<1>3. "True" \in CondVal \ {"None", "Reconciling"} /\ "False" \in CondVal
  BY DEF CondVal
<1>4. CASE ThisStep.cond \in pass.cr.spec.invalid
  <2>1. Stop("False", FALSE)
    BY <1>4 DEF Validate
  <2>2. Invalid(pass.cr.spec)
    BY <1>1, <1>2, <1>4 DEF Invalid
  <2>3. QED
    BY <1>1, <1>3, <2>1, <2>2, Stops
<1>5. CASE ThisStep.cond \notin pass.cr.spec.invalid
  <2> DEFINE c == [pass.conds EXCEPT ![ThisStep.cond] = "True"]
  <2>1. Continue(c)
    BY <1>5 DEF Validate
  <2>2. c \in [CondTypes -> CondVal]
    BY <1>1, <1>3, ReportType
  <2>3. Reported(c)
    BY <1>3 DEF Reported
  <2>4. c[ThisStep.cond] # "None"
    BY <1>2, PartTypes
  <2> HIDE DEF c
  <2>5. ThisStep.obj = "none" /\ ThisStep.kind # "route" /\ ThisStep.kind # "health"
    BY <1>1, <1>2, StepsOrderAssumption
  <2>6. Done(pass.next, c)
    BY <1>2, <1>5, <2>4, <2>5, Zenon DEF Done, DoneIn, Deploys
  <2>7. QED
    BY <1>1, <2>1, <2>2, <2>3, <2>6, GoesOn
<1>6. QED
  BY <1>4, <1>5

\* A write that left the object alone, by creation or update, was no creation, and the update
\* found the object as generated.
LEMMA NoWrite ==
    ASSUME TypeOK, pc = "step", ThisStep.obj \in Objects, objW' = objW
    PROVE  LET o == ThisStep.obj
               desired == Desired(ThisStep, pass.cr, pass.ztwim)
           IN  /\ ~CreateSucceeds(o, desired)
               /\ UpdateSucceeds(o, desired) /\ Api(objW[o]).exists => InPlace
<1> DEFINE o == ThisStep.obj
           desired == Desired(ThisStep, pass.cr, pass.ztwim)
           updated == Updated(Api(objW[o]), desired)
<1>1. objW[o] \in Seq(ObjectVersion) /\ o \in DOMAIN objW
  BY DEF TypeOK
<1>2. desired \in ObjectVersion /\ updated \in ObjectVersion
  <2>1. ThisStep \in StepType /\ pass.cr \in CRVersion /\ pass.ztwim \in 0..MaxUid
    BY ReportType, PartTypes DEF Pass
  <2>2. Api(objW[o]) \in ObjectVersion
    BY PartTypes
  <2>3. QED
    BY <2>1, <2>2, DesiredType
<1>3. \A v \in ObjectVersion : Append(objW[o], v) # objW[o]
  <2> HIDE DEF o
  <2>1. \A v \in ObjectVersion : Len(Append(objW[o], v)) = Len(objW[o]) + 1 /\ Len(objW[o]) \in Nat
    BY <1>1
  <2>2. QED
    BY <2>1
<1>4. ~CreateSucceeds(o, desired)
  <2> HIDE DEF desired, o
  <2>1. ASSUME CreateSucceeds(o, desired) PROVE objW'[o] = Append(objW[o], desired)
    BY <1>1, <2>1 DEF CreateSucceeds
  <2>2. QED
    BY <1>1, <1>2, <1>3, <2>1
<1>5. ASSUME UpdateSucceeds(o, desired), Api(objW[o]).exists PROVE InPlace
  <2>1. objW'[o] = Store(objW[o], updated)
    <3> HIDE DEF desired
    <3> QED BY <1>1, <1>5 DEF UpdateSucceeds
  <2>2. updated = Api(objW[o])
    <3> HIDE DEF updated
    <3> QED BY <1>2, <1>3, <2>1 DEF Store
  <2>3. updated.content = desired.content /\ updated.labels = "ok"
    BY DEF Updated, Desired
  <2>4. ~Differs(Api(objW[o]), desired)
    BY <2>2, <2>3 DEF Differs
  <2>5. QED
    BY <1>5, <2>4 DEF InPlace
<1>6. QED
  BY <1>4, <1>5

\* A step of a single object that wrote nothing has found it in place.
LEMMA ObjectKnown ==
    ASSUME TypeOK, Watched, Calm, Known, objW' = objW, ReconcileObject
    PROVE  Known'
<1> DEFINE o == ThisStep.obj
           desired == Desired(ThisStep, pass.cr, pass.ztwim)
<1>1. /\ pc = "step" /\ ThisStep.kind \in {"managed", "unguarded"}
      /\ UNCHANGED <<crW, ztwimW, objW, createOnly>>
  BY DEF ReconcileObject, env
<1>2. o \in Objects /\ View(o) = Api(objW[o])
  BY <1>1, StepIsAboutObject, ViewIsStored
<1>3. "False" \in CondVal /\ pass.conds[ThisStep.cond] \in CondVal
  BY <1>1, PartTypes, CondTypesLemma DEF CondVal, TypeOK, ThisStep
<1>4. ~CreateSucceeds(o, desired) /\ (UpdateSucceeds(o, desired) /\ Api(objW[o]).exists => InPlace)
  BY <1>1, <1>2, NoWrite
<1>5. ASSUME Success, InPlace PROVE Known'
  BY <1>1, <1>5, SuccessGoesOn
<1>6. ASSUME NEW v \in CondVal, Stop(v, TRUE) PROVE Known'
  BY <1>1, <1>6, Stops
<1>7. ASSUME View(o).exists, ~NeedsUpdate(ThisStep, View(o), desired) \/ SkipsUpdate(ThisStep)
      PROVE  InPlace
  BY <1>2, <1>7, Zenon DEF InPlace, NeedsUpdate
<1>8. Stop(IF ThisStep.silent THEN pass.conds[ThisStep.cond] ELSE "False", TRUE) => Known'
  BY <1>3, <1>6
<1>9. Stop("False", TRUE) => Known'
  BY <1>3, <1>6
<1>10. \/ CreateSucceeds(o, desired)
       \/ Stop("False", TRUE)
       \/ Success /\ View(o).exists /\ (~NeedsUpdate(ThisStep, View(o), desired) \/ SkipsUpdate(ThisStep))
       \/ Success /\ View(o).exists /\ UpdateSucceeds(o, desired)
       \/ Stop(IF ThisStep.silent THEN pass.conds[ThisStep.cond] ELSE "False", TRUE)
  BY Zenon DEF ReconcileObject
<1> HIDE DEF desired
<1>11. QED
  BY <1>2, <1>4, <1>5, <1>7, <1>8, <1>9, <1>10, Zenon

\* reconcileSpireBundleConfigMap that created nothing was told that the ConfigMap exists.
LEMMA OnceKnown ==
    ASSUME TypeOK, Known, objW' = objW, CreateOnce
    PROVE  Known'
<1>1. /\ pc = "step" /\ ThisStep.kind = "createonce"
      /\ UNCHANGED <<crW, ztwimW, objW, createOnly>>
  BY DEF CreateOnce, env
<1>2. ThisStep.obj \in Objects
  BY <1>1, StepIsAboutObject
<1>3. ~CreateSucceeds(ThisStep.obj, Desired(ThisStep, pass.cr, pass.ztwim))
  BY <1>1, <1>2, NoWrite
<1>4. CASE Api(objW[ThisStep.obj]).exists /\ Success
  <2>1. InPlace
    BY <1>1, <1>4 DEF InPlace
  <2>2. QED
    BY <1>1, <1>4, <2>1, SuccessGoesOn
<1>5. CASE Stop("False", TRUE)
  <2>1. "False" \in CondVal
    BY DEF CondVal
  <2>2. QED
    BY <1>1, <1>5, <2>1, Stops
<1>6. QED
  BY <1>3, <1>4, <1>5, Zenon DEF CreateOnce

\* reconcileRBAC and the like have nothing to write.
LEMMA MarkKnown ==
    ASSUME TypeOK, Known, Mark
    PROVE  Known'
<1>1. /\ pc = "step" /\ ThisStep.kind = "mark" /\ Success
      /\ UNCHANGED <<crW, ztwimW, objW, createOnly>>
  BY DEF Mark, env
<1>2. QED
  BY <1>1, SuccessGoesOn

\* The health check finds the workload that an earlier step has seen.
LEMMA HealthKnown ==
    ASSUME TypeOK, Watched, Calm, Known, ~lost', CheckHealth
    PROVE  Known'
<1> DEFINE v == Api(objW[ThisStep.obj])
           health == IF v.healthy THEN "True" ELSE "Progressing"
           c == [pass.conds EXCEPT ![ThisStep.cond] = health]
<1>1. /\ pc = "step" /\ ThisStep.kind = "health"
      /\ UNCHANGED <<crW, ztwimW, objW, createOnly>>
  BY DEF CheckHealth, env
<1>2. pass.next \in DOMAIN Steps /\ ThisStep = Steps[pass.next] /\ ThisStep.cond \in CondTypes
  BY <1>1, CondTypesLemma DEF TypeOK, ThisStep
<1>3. ThisStep.obj \in Objects /\ View(ThisStep.obj) = v /\ ThisStep.obj # "none"
  BY <1>1, StepIsAboutObject, ViewIsStored DEF Objects
<1>4. v.exists
  <2>1. PICK j \in 1..(pass.next - 1) : /\ Steps[j].kind = "managed" /\ Steps[j].obj = ThisStep.obj
                                        /\ Steps[j].when = "always"
    BY <1>1, <1>2, StepsOrderAssumption
  <2>2. Applies(Steps[j], pass.cr.spec)
    BY <2>1 DEF Applies
  <2>3. Done(j, pass.conds)
    BY <1>1, <2>2 DEF Known, StepsKnown
  <2>4. Deploys(j, pass.cr.spec)
    BY <1>3, <2>1, <2>2 DEF Deploys
  <2>5. QED
    BY <2>1, <2>3, <2>4 DEF Done, DoneIn
<1>5. Continue(c)
  <2> DEFINE seen == View(ThisStep.obj)
             told == IF ~seen.exists THEN "False" ELSE IF seen.healthy THEN "True" ELSE "Progressing"
  <2>1. Continue([pass.conds EXCEPT ![ThisStep.cond] = told]) \/ lost'
    BY Zenon DEF CheckHealth
  <2>2. told = health
    BY <1>3, <1>4
  <2>3. QED
    BY <2>1, <2>2
<1>6. health \in CondVal \ {"None", "Reconciling"} /\ health # "False"
  BY DEF CondVal
<1>7. health = "Progressing" => ~v.healthy
  OBVIOUS
<1> HIDE DEF health
<1>8. c \in [CondTypes -> CondVal]
  BY <1>1, <1>6, ReportType
<1>9. Reported(c)
  BY <1>1, <1>6, <1>7 DEF Reported
<1>10. c[ThisStep.cond] = health
  BY <1>2, PartTypes
<1> HIDE DEF c
<1>11. Done(pass.next, c)
  <2>1. c[ThisStep.cond] = IF v.healthy THEN "True" ELSE "Progressing"
    BY <1>10 DEF health
  <2>2. c[ThisStep.cond] # "None"
    BY <1>6, <1>10
  <2>3. ThisStep.kind # "route" /\ ThisStep.kind # "validate" /\ ThisStep.kind \in {"createonce", "health"}
    BY <1>1
  <2>4. QED
    BY <1>2, <1>4, <2>1, <2>2, <2>3, Zenon DEF Done, DoneIn
<1>12. QED
  BY <1>1, <1>5, <1>8, <1>9, <1>11, GoesOn

\* The Route step, if it says nothing, leaves a condition that nobody has set.
LEMMA RouteIsUnset ==
    ASSUME TypeOK, Known, pc = "step", ThisStep.kind = "route",
           "managedRoute" \in pass.cr.spec.enabled
    PROVE  pass.conds[ThisStep.cond] \in {"None", "True"}
<1>1. /\ pass.next \in DOMAIN Steps /\ ThisStep = Steps[pass.next]
      /\ ThisStep.cond \in CondTypes \ NotOperational
  BY CondTypesLemma DEF TypeOK, ThisStep
<1>2. Explained(pass.conds, pass.next)
  BY DEF Known, StepsKnown
<1>3. pass.conds[ThisStep.cond] # "Reconciling" /\ pass.conds[ThisStep.cond] # "False"
  BY <1>1, <1>2 DEF Explained, ExplainedIn
<1>4. pass.conds[ThisStep.cond] # "Progressing"
  <2>1. ASSUME NEW i \in 1..(pass.next - 1), Steps[i].kind = "health"
        PROVE  Steps[i].cond # ThisStep.cond
    <3>1. DOMAIN Steps = 1..Len(Steps) /\ Len(Steps) \in Nat
      BY StepsAssumption
    <3>2. i \in DOMAIN Steps /\ i < pass.next
      BY <1>1, <3>1
    <3>3. QED
      BY <1>1, <2>1, <3>2, ReportedLast
  <2>2. QED
    BY <1>1, <1>2, <2>1 DEF Explained, ExplainedIn
<1>5. pass.conds[ThisStep.cond] \in CondVal
  BY <1>1, PartTypes
<1>6. QED
  BY <1>3, <1>4, <1>5 DEF CondVal

\* reconcileRoute that wrote nothing has found the Route disabled, in place or left to others.
LEMMA RouteKnown ==
    ASSUME TypeOK, Watched, Calm, Known, objW' = objW, ReconcileRoute
    PROVE  Known'
<1> DEFINE o == ThisStep.obj
           managed == "managedRoute" \in pass.cr.spec.enabled
           desired == Desired(ThisStep, pass.cr, pass.ztwim)
           off == [pass.conds EXCEPT ![ThisStep.cond] = "False"]
<1>1. /\ pc = "step" /\ ThisStep.kind = "route" /\ UNCHANGED <<crW, ztwimW, objW, createOnly>>
  BY DEF ReconcileRoute, env
<1>2. pass.next \in DOMAIN Steps /\ ThisStep = Steps[pass.next] /\ ThisStep.cond \in CondTypes
  BY <1>1, CondTypesLemma DEF TypeOK, ThisStep
<1>3. o \in Objects /\ View(o) = Api(objW[o])
  BY <1>1, StepIsAboutObject, ViewIsStored
<1>4. "False" \in CondVal \ {"None", "Reconciling"} /\ pass.conds \in [CondTypes -> CondVal]
  BY PartTypes DEF CondVal
<1>5. ~CreateSucceeds(o, desired) /\ (UpdateSucceeds(o, desired) /\ Api(objW[o]).exists => InPlace)
  BY <1>1, <1>3, NoWrite
<1>6. ThisStep.kind # "validate" /\ ThisStep.kind # "health" /\ ~Says(ThisStep)
  BY <1>1 DEF Says
<1>7. ASSUME ~managed, Continue(off) PROVE Known'
  <2>1. off \in [CondTypes -> CondVal] /\ off[ThisStep.cond] = "False"
    BY <1>2, <1>4
  <2>2. Reported(off)
    BY <1>1, <1>4, <1>7 DEF Reported
  <2> HIDE DEF off
  <2>3. Done(pass.next, off)
    BY <1>1, <1>2, <1>6, <1>7, <2>1, Zenon DEF Done, DoneIn, Deploys
  <2>4. QED
    BY <1>1, <1>7, <2>1, <2>2, <2>3, GoesOn
<1>8. ASSUME managed, Success, InPlace PROVE Known'
  BY <1>1, <1>8, SuccessGoesOn
<1>9. Stop("False", TRUE) => Known'
  BY <1>1, <1>4, Stops
<1>10. ASSUME managed, InPlace, Continue(pass.conds),
              createOnly \/ pass.cr.conds[ThisStep.cond] = "True"
       PROVE  Known'
  <2>1. pass.conds[ThisStep.cond] = "None" \/ pass.conds[ThisStep.cond] = "True"
    BY <1>1, <1>10, RouteIsUnset
  <2>2. Done(pass.next, pass.conds)
    BY <1>2, <1>6, <1>10, <2>1, Zenon DEF Done, DoneIn, InPlace
  <2>3. Reported(pass.conds)
    BY DEF Reported
  <2>4. QED
    BY <1>1, <1>4, <1>10, <2>2, <2>3, GoesOn
<1>11. ASSUME View(o).exists, createOnly \/ ~NeedsUpdate(ThisStep, View(o), desired) PROVE InPlace
  <2>1. createOnly => SkipsUpdate(ThisStep)
    BY <1>1 DEF SkipsUpdate
  <2>2. QED
    BY <1>3, <1>11, <2>1, Zenon DEF InPlace, NeedsUpdate
<1> HIDE DEF desired, off
<1>12. \/ ~managed /\ Continue(off)
       \/ CreateSucceeds(o, desired)
       \/ Stop("False", TRUE)
       \/ managed /\ View(o).exists /\ createOnly /\ Continue(pass.conds)
       \/ managed /\ View(o).exists /\ UpdateSucceeds(o, desired) /\ Success
       \/ /\ managed /\ View(o).exists /\ ~NeedsUpdate(ThisStep, View(o), desired)
          /\ RouteFound(pass.cr.conds[ThisStep.cond])
  BY Zenon DEF ReconcileRoute, desired, off
<1>13. RouteFound(pass.cr.conds[ThisStep.cond]) =>
          \/ pass.cr.conds[ThisStep.cond] = "True" /\ Continue(pass.conds)
          \/ Success
  BY DEF RouteFound
<1>14. QED
  BY <1>3, <1>5, <1>7, <1>8, <1>9, <1>10, <1>11, <1>12, <1>13, Zenon

\* The steps of a pass.
LEMMA StepRests ==
    ASSUME TypeOK, RestInv, AStep
    PROVE  RestInv'
<1>1. pc = "step" /\ UNCHANGED <<crW, ztwimW, queued, createOnly>> /\ TypeOK'
  BY StepKeeps, TypeStep
<1>2. Watched /\ Watched' /\ (Calm' => objW' = objW)
  BY StepDisturbs DEF RestInv
<1>3. pass'.cr = pass.cr /\ pass'.current = pass.current /\ pc' \in {"step", "final"}
  <2>1. ASSUME NEW c \in [CondTypes -> CondVal], Continue(c)
        PROVE  pass'.cr = pass.cr /\ pass'.current = pass.current /\ pc' \in {"step", "final"}
    <3>1. /\ pass' = [cr |-> pass.cr, current |-> pass.current, ztwim |-> pass.ztwim,
                       next |-> NextStep(pass.next, pass.cr.spec), conds |-> c,
                       err |-> pass.err]
          /\ pc' = "final" \/ pc' = "step"
      BY <1>1, <2>1, OutcomeLemma, Zenon
    <3>2. QED
      BY <3>1
  <2>2. ASSUME NEW v \in CondVal, NEW e \in BOOLEAN, Stop(v, e)
        PROVE  pass'.cr = pass.cr /\ pass'.current = pass.current /\ pc' \in {"step", "final"}
    <3>1. /\ pass' = [cr |-> pass.cr, current |-> pass.current, ztwim |-> pass.ztwim,
                       next |-> pass.next,
                       conds |-> [pass.conds EXCEPT ![ThisStep.cond] = v], err |-> e]
          /\ pc' = "final"
      BY <1>1, <2>2, OutcomeLemma, Zenon
    <3>2. QED
      BY <3>1
  <2>3. StepOutcome
    BY StepHasOutcome
  <2>4. QED
    BY <2>1, <2>2, <2>3, Zenon DEF StepOutcome
<1>4. Copied'
  BY <1>1, <1>3 DEF RestInv, Copied
<1>5. ASSUME Calm' PROVE Known'
  <2>1. objW' = objW /\ ~lost'
    BY <1>2, <1>5 DEF Calm
  <2>2. lost' = lost \/ lost' = TRUE
    <3>1. Validate \/ Mark => lost' = lost
      BY DEF Validate, Mark
    <3>2. ReconcileObject => lost' = lost
      BY Zenon DEF ReconcileObject
    <3>3. CreateOnce => lost' = lost
      BY Zenon DEF CreateOnce
    <3>4. ReconcileRoute => lost' = lost
      BY Zenon DEF ReconcileRoute
    <3>5. CheckHealth => lost' = lost \/ lost' = TRUE
      BY Zenon DEF CheckHealth
    <3>6. QED
      BY <3>1, <3>2, <3>3, <3>4, <3>5 DEF AStep
  <2>3. Calm
    BY <1>1, <1>5, <2>1, <2>2 DEF Calm
  <2>4. Known
    BY <1>1, <2>3 DEF RestInv
  <2>5. QED
    BY <1>2, <2>1, <2>3, <2>4, ValidateKnown, MarkKnown, ObjectKnown, OnceKnown, HealthKnown,
       RouteKnown DEF AStep
<1>6. QED
  BY <1>1, <1>2, <1>3, <1>4, <1>5 DEF RestInv

(***************************************************************************)
(* The theorems.                                                           *)
(***************************************************************************)

\* Without a CR there is nothing to be right about.
LEMMA NoCRIsRight ==
    ASSUME Api(crW).uid = 0, Copied
    PROVE  Right /\ NoFailureFor(Api(crW))
BY DEF Right, Copied, NoFailureFor

\* A process that finds a CR when it starts has it in the queue.
LEMMA InitRests == Init => RestInv
<1> SUFFICES ASSUME Init PROVE RestInv
  OBVIOUS
<1>1. TypeOK /\ pc = "idle" /\ queued = SomethingListed
  BY TypeInit DEF Init
<1>2. ASSUME NEW o \in Objects PROVE \E v : objW[o] = <<v>> /\ v.labels = "ok"
  <2>1. NoObject.labels = "ok"
    BY DEF NoObject
  <2>2. \A s : Deployed(o, s).labels = "ok"
    BY <2>1 DEF Deployed, Desired
  <2>3. CASE objW = [p \in Objects |-> <<NoObject>>]
    BY <2>1, <2>3
  <2>4. CASE \E s \in Specs : objW = [p \in Objects |-> <<Deployed(p, s)>>]
    BY <2>2, <2>4
  <2>5. QED
    BY <2>3, <2>4 DEF Init
<1>3. Watched
  <2>1. ASSUME NEW v, v.labels = "ok" PROVE Noticed(<<v>>)
    <3>1. DOMAIN <<v>> = {1} /\ <<v>>[1] = v
      OBVIOUS
    <3>2. QED
      BY <2>1, <3>1 DEF Noticed
  <2>2. QED
    BY <1>2, <2>1 DEF Watched
<1>4. Api(crW).uid = 0 => Api(crW).conds["Ready"] = "None"
  <2>1. \A v : Api(<<v>>) = v
    BY DEF Api
  <2>2. CASE crW = <<NoCR>>
    BY <2>1, <2>2, EmptyTypes
  <2>3. CASE \E s \in Specs : crW = <<NewCR(1, s)>>
    BY <2>1, <2>3 DEF NewCR
  <2>4. CASE \E s \in Specs :
               crW = <<[uid |-> 1, spec |-> s, owner |-> 1, conds |-> DeployedConds(s)]>>
    BY <2>1, <2>4
  <2>5. QED
    BY <2>2, <2>3, <2>4 DEF Init
<1>5. Copied
  BY <1>1, <1>4 DEF Copied
<1>6. Calm => Right /\ NoFailureFor(Api(crW))
  <2>1. Calm => Api(crW).uid = 0
    BY <1>1 DEF Calm, SomethingListed
  <2>2. QED
    BY <1>5, <2>1, NoCRIsRight
<1>7. QED
  BY <1>1, <1>3, <1>5, <1>6 DEF RestInv

\* Every step keeps the invariant, provided others leave the labels alone: an object that is
\* relabelled and then deleted goes without an event.
LEMMA RestNext ==
    ASSUME Tampering \subseteq {"content"}
    PROVE  RestInv /\ [Next]_vars => RestInv'
<1> SUFFICES ASSUME RestInv, [Next]_vars PROVE RestInv'
  OBVIOUS
<1>1. TypeOK /\ TypeOK' /\ Watched /\ Copied
  BY TypeNext DEF RestInv
<1>2. CASE Restart
  BY <1>1, <1>2, RestartIsQueued DEF RestInv
<1>3. CASE (Users \/ GarbageCollector) /\ ~Restart
  BY <1>1, <1>3, UsersDisturb DEF RestInv
<1>4. CASE Watch
  BY <1>1, <1>4, WatchDisturbs DEF RestInv
<1>5. CASE Resync
  <2>1. ~Calm' /\ UNCHANGED <<crW, objW, pc, pass>>
    BY <1>5 DEF Resync, Calm
  <2>2. Watched' /\ Copied'
    BY <1>1, <2>1 DEF Watched, Copied
  <2>3. QED
    BY <1>1, <2>1, <2>2 DEF RestInv
<1>6. CASE Worker
  BY <1>1, <1>6, WorkerCases, ReconcileRests, InitialRests, GetZTWIMRests, OwnerRests, ModeRests,
     StepRests, ApplyRests
<1>7. CASE UNCHANGED vars
  <2>1. /\ UNCHANGED <<crW, ztwimW, objW, createOnly, queued, pc, pass, lost>>
        /\ Api(crW') = Api(crW)
    BY <1>7 DEF vars
  <2>2. Watched' /\ Copied' /\ (Calm' => Calm)
    BY <1>1, <2>1 DEF Watched, Copied, Calm
  <2>3. (Right => Right') /\ (NoFailureFor(Api(crW)) => NoFailureFor(Api(crW))') /\ (Known => Known')
    BY <2>1, SameView
  <2>4. QED
    BY <1>1, <2>1, <2>2, <2>3 DEF RestInv
<1>8. QED
  BY <1>2, <1>3, <1>4, <1>5, <1>6, <1>7 DEF Next

\* What the ZTWIM controller does (see Operator) is none of the controller's business: the event of
\* a status write to the ZTWIM CR passes no predicate, and nothing depends on it.
LEMMA ZTWIMStatusRests ==
    ASSUME RestInv, ztwimW' = ztwimW \/ ztwimW' = Append(ztwimW, Api(ztwimW)),
           UNCHANGED <<crW, objW, createOnly, queued, pc, pass, lost, changes>>,
           faults' \in 0..MaxFaults
    PROVE  RestInv'
<1>1. /\ TypeOK /\ Watched /\ Copied
      /\ ztwimW \in Seq(0..MaxUid) /\ Len(ztwimW) > 0 /\ Len(ztwimW) \in Nat
  BY DEF RestInv, TypeOK
<1>2. /\ ztwimW' \in Seq(0..MaxUid) /\ Len(ztwimW') > 0
      /\ Cached(ztwimW') = Cached(ztwimW) /\ Api(ztwimW') = Api(ztwimW)
      /\ \A i \in DOMAIN ztwimW : i \in DOMAIN ztwimW' /\ ztwimW'[i] = ztwimW[i]
  <2>1. CASE ztwimW' = ztwimW
    BY <1>1, <2>1
  <2>2. CASE ztwimW' = Append(ztwimW, Api(ztwimW))
    <3> DEFINE S == 0..MaxUid
               new == Append(ztwimW, Api(ztwimW))
    <3> HIDE DEF S
    <3>1. ztwimW \in Seq(S)
      BY <1>1 DEF S
    <3>2. Api(ztwimW) \in S
      BY <1>1, <3>1, ApiLemma
    <3>3. /\ new \in Seq(S) /\ Len(new) > 0
          /\ Cached(new) = Cached(ztwimW) /\ Api(new) = Api(ztwimW)
          /\ DOMAIN new = 1..(Len(ztwimW) + 1) /\ DOMAIN ztwimW = 1..Len(ztwimW)
          /\ \A i \in 1..Len(ztwimW) : new[i] = ztwimW[i]
      BY <1>1, <3>1, <3>2, AppendLemma
    <3> HIDE DEF new
    <3>4. \A i \in DOMAIN ztwimW : i \in DOMAIN new /\ new[i] = ztwimW[i]
      BY <1>1, <3>3
    <3>5. ztwimW' = new
      BY <2>2 DEF new
    <3>6. QED
      BY <3>3, <3>4, <3>5 DEF S
  <2>3. QED
    BY <2>1, <2>2
<1>3. TypeOK'
  BY <1>1, <1>2 DEF TypeOK
<1>4. Watched' /\ Copied'
  BY <1>1 DEF Watched, Copied
<1>5. ASSUME Calm' PROVE Calm
  <2>1. Settled(ztwimW')
    BY <1>5 DEF Calm
  <2>2. Settled(ztwimW)
    BY <1>2, <2>1 DEF Settled
  <2>3. QED
    BY <1>5, <2>2 DEF Calm
<1>6. (Right => Right') /\ (NoFailureFor(Api(crW)) => NoFailureFor(Api(crW))') /\ (Known => Known')
  BY <1>2, SameView
<1>7. QED
  BY <1>3, <1>4, <1>5, <1>6 DEF RestInv

\* Whenever nothing is left that would start a pass, the objects of the operand are as the CR
\* asks, the CR belongs to the ZTWIM CR, and Ready says what the cluster calls for: Reconcile
\* misses no change by users, workloads or the garbage collector, whatever requests fail and
\* whenever the process restarts, as long as others leave the labels of the objects alone.
THEOREM RestIsRight ==
    ASSUME Tampering \subseteq {"content"}
    PROVE  Spec => []QuietIsRight
<1>1. Init => RestInv
  BY InitRests
<1>2. RestInv /\ [Next]_vars => RestInv'
  BY RestNext
<1>3. RestInv => QuietIsRight
  BY DEF RestInv, QuietIsRight, Quiet, Calm, Settled
<1>4. QED
  BY <1>1, <1>2, <1>3, PTL DEF Spec

\* Nor does Ready=True then stand next to a condition that an earlier pass left at a failure,
\* although ApplyStatus merges the conditions of a pass over the published ones.
THEOREM ReadyIsClean ==
    ASSUME Tampering \subseteq {"content"}
    PROVE  Spec => []ReadyHasNoFailure
<1>1. Init => RestInv
  BY InitRests
<1>2. RestInv /\ [Next]_vars => RestInv'
  BY RestNext
<1>3. RestInv => ReadyHasNoFailure
  BY DEF RestInv, ReadyHasNoFailure, NoFailureFor, Quiet, Calm, Settled
<1>4. QED
  BY <1>1, <1>2, <1>3, PTL DEF Spec
=============================================================================
