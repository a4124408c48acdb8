-------------------------- MODULE InformerTheorems --------------------------
(***************************************************************************)
(* What the operations of a watched object keep and change, for the        *)
(* controller proofs.                                                      *)
(***************************************************************************)
EXTENDS Informer, TLAPS

LOCAL INSTANCE WellFoundedInduction

\* A set of naturals that is not empty has a least element (NextStep of OperandController
\* looks for one).
LEMMA LeastElement ==
    ASSUME NEW T \in SUBSET Nat, T # {}
    PROVE  \E j \in T : \A k \in T : j <= k
<1> DEFINE R == OpToRel(<, Nat)
<1>1. \E x \in T : \A y \in T : ~(<<y, x>> \in R)
  <2>1. IsWellFoundedOn(R, Nat)
    BY NatLessThanWellFounded
  <2> HIDE DEF R
  <2> QED BY <2>1, WFMin
<1>2. \A x \in Nat, y \in Nat : y < x => <<y, x>> \in R
  BY DEF OpToRel
<1> HIDE DEF R
<1>3. PICK x \in T : \A y \in T : ~(<<y, x>> \in R)
  BY <1>1
<1>4. ASSUME NEW y \in T PROVE x <= y
  <2>1. x \in Nat /\ y \in Nat
    OBVIOUS
  <2>2. ~(y < x)
    BY <1>2, <1>3, <2>1, Zenon
  <2>3. QED
    BY <2>1, <2>2
<1>5. QED
  BY <1>4

\* A write reaches the API server and leaves the cache, and every version on its
\* way to the cache, as they were.
LEMMA AppendLemma ==
    ASSUME NEW S, NEW ch \in Seq(S), Len(ch) > 0, NEW v \in S
    PROVE  /\ Append(ch, v) \in Seq(S)
           /\ Len(Append(ch, v)) > 0
           /\ Cached(Append(ch, v)) = Cached(ch)
           /\ Api(Append(ch, v)) = v
           /\ DOMAIN Append(ch, v) = 1..(Len(ch) + 1)
           /\ DOMAIN ch = 1..Len(ch)
           /\ \A i \in 1..Len(ch) : Append(ch, v)[i] = ch[i]
           /\ Append(ch, v)[Len(ch) + 1] = v
BY DEF Cached, Api

\* The API server holds the newest of the versions.
LEMMA ApiLemma ==
    ASSUME NEW S, NEW ch \in Seq(S), Len(ch) > 0
    PROVE  /\ Cached(ch) \in S
           /\ Api(ch) \in S
           /\ DOMAIN ch = 1..Len(ch)
           /\ 1 \in DOMAIN ch
           /\ Len(ch) \in DOMAIN ch
BY DEF Cached, Api

\* An object nothing is undelivered of.
LEMMA SingletonLemma ==
    ASSUME NEW S, NEW v \in S
    PROVE  /\ <<v>> \in Seq(S)
           /\ Len(<<v>>) = 1
           /\ Cached(<<v>>) = v
           /\ Api(<<v>>) = v
           /\ DOMAIN <<v>> = {1}
BY DEF Cached, Api

\* A write that may turn out to change nothing (StatusUpdateWithRetry).
LEMMA StoreLemma ==
    ASSUME NEW S, NEW ch \in Seq(S), Len(ch) > 0, NEW v \in S
    PROVE  /\ Store(ch, v) \in Seq(S)
           /\ Len(Store(ch, v)) > 0
           /\ Cached(Store(ch, v)) = Cached(ch)
           /\ Api(Store(ch, v)) = v
<1>1. CASE v = Api(ch)
  BY <1>1 DEF Store
<1>2. CASE v # Api(ch)
  BY <1>2, AppendLemma DEF Store
<1>3. QED
  BY <1>1, <1>2

\* Such a write adds at most the version written.
LEMMA StoreVersionsLemma ==
    ASSUME NEW S, NEW ch \in Seq(S), Len(ch) > 0, NEW v \in S
    PROVE  /\ Cached(Store(ch, v)) = Cached(ch)
           /\ \A i \in DOMAIN Store(ch, v) : i \in DOMAIN ch \/ Store(ch, v)[i] = v
           /\ \A i \in DOMAIN ch : Store(ch, v)[i] = ch[i]
<1>1. CASE v = Api(ch)
  BY <1>1 DEF Store
<1>2. CASE v # Api(ch)
  BY <1>2, AppendLemma DEF Store
<1>3. QED
  BY <1>1, <1>2

\* A watch event moves the cache one version on and changes nothing else.
LEMMA DeliverLemma ==
    ASSUME NEW S, NEW ch \in Seq(S), Len(ch) > 1
    PROVE  /\ Deliver(ch) \in Seq(S)
           /\ Len(Deliver(ch)) > 0
           /\ Cached(Deliver(ch)) = ch[2]
           /\ Cached(Deliver(ch)) \in S
           /\ Api(Deliver(ch)) = Api(ch)
           /\ DOMAIN Deliver(ch) = 1..(Len(ch) - 1)
           /\ \A i \in 1..(Len(ch) - 1) : Deliver(ch)[i] = ch[i + 1]
           /\ DOMAIN ch = 1..Len(ch)
<1>1. /\ Tail(ch) \in Seq(S)
      /\ Len(Tail(ch)) = Len(ch) - 1
      /\ \A i \in 1..(Len(ch) - 1) : Tail(ch)[i] = ch[i + 1]
      /\ Len(ch) \in Nat
  OBVIOUS
<1>2. QED
  BY <1>1 DEF Deliver, Cached, Api

\* After a relist the cache holds what the API server holds.
LEMMA RelistLemma ==
    ASSUME NEW S, NEW ch \in Seq(S), Len(ch) > 0
    PROVE  /\ Relist(ch) \in Seq(S)
           /\ Len(Relist(ch)) = 1
           /\ Cached(Relist(ch)) = Api(ch)
           /\ Api(Relist(ch)) = Api(ch)
           /\ DOMAIN Relist(ch) = {1}
           /\ Relist(ch)[1] = Api(ch)
BY ApiLemma DEF Relist, Cached, Api
=============================================================================
