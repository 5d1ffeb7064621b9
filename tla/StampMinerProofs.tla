-------------------------- MODULE StampMinerProofs --------------------------
(***************************************************************************)
(* Theorems about StampMiner, for any number of processors, any width of a *)
(* digest and any costs.                                                   *)
(***************************************************************************)
EXTENDS StampMiner, FiniteSetTheorems, TLAPS

\* There is a worker, so that "all workers are gone" says something.
LEMMA WorkersPositive == Workers \in Nat \ {0} /\ 1 \in Worker /\ Workers \in Worker
BY MinerAssumption DEF MinerAssumption, Workers, Worker

LEMMA PlaceSize == Bits \in Nat \ {0} /\ IsFiniteSet(Place) /\ Cardinality(Place) = Bits
<1>1. Bits \in Nat \ {0}
  BY MinerAssumption DEF MinerAssumption
<1> QED
  BY <1>1, FS_Interval DEF Place

\* The places that StampValue counts.
Zeros(d) == {u \in Place : \A v \in 0..u : d[v] = 0}

\* The value of a digest is at most its width.
LEMMA ValueInRange == \A d : /\ IsFiniteSet(Zeros(d)) /\ StampValue(d) = Cardinality(Zeros(d))
                            /\ StampValue(d) \in 0..Bits
<1> SUFFICES ASSUME NEW d
             PROVE  /\ IsFiniteSet(Zeros(d)) /\ StampValue(d) = Cardinality(Zeros(d))
                    /\ StampValue(d) \in 0..Bits
  OBVIOUS
<1>1. Zeros(d) \subseteq Place
  BY DEF Zeros
<1>2. IsFiniteSet(Zeros(d)) /\ Cardinality(Zeros(d)) <= Bits
  BY <1>1, PlaceSize, FS_Subset
<1>3. Cardinality(Zeros(d)) \in Nat
  BY <1>2, FS_CardinalityType
<1> QED
  BY <1>2, <1>3, PlaceSize DEF StampValue, Zeros

\* A digest that begins with n zeros has at least the value n.
LEMMA LeadingZeros ==
  ASSUME NEW d, NEW n \in 0..Bits, \A i \in 0..(n - 1) : d[i] = 0
  PROVE  StampValue(d) >= n
<1>1. IsFiniteSet(0..(n - 1)) /\ Cardinality(0..(n - 1)) = n
  BY FS_Interval, PlaceSize
<1>2. 0..(n - 1) \subseteq Zeros(d)
  BY PlaceSize DEF Zeros, Place
<1>3. Cardinality(0..(n - 1)) <= Cardinality(Zeros(d))
  BY <1>2, ValueInRange, FS_Subset
<1> QED
  BY <1>1, <1>3, ValueInRange

\* The target itself has one zero less than the cost.
LEMMA TargetValue ==
  ASSUME NEW cost \in 1..(Bits - 1)
  PROVE  StampValue(Target(cost)) = cost - 1
<1>1. Zeros(Target(cost)) = 0..(cost - 2)
  <2>1. ASSUME NEW u \in Place PROVE u \in Zeros(Target(cost)) <=> u <= cost - 2
    <3>1. \A v \in 0..u : v \in Place /\ (Target(cost)[v] = 0 <=> v # cost - 1)
      BY PlaceSize DEF Place, Target
    <3> QED
      BY <3>1, PlaceSize DEF Zeros, Place
  <2> QED
    BY <2>1, PlaceSize DEF Zeros, Place
<1>2. Cardinality(0..(cost - 2)) = cost - 1
  BY FS_Interval, PlaceSize
<1> QED
  BY <1>1, <1>2, ValueInRange

\* A stamp that is valid begins with zeros up to the place before the target's bit.
LEMMA ValidBegins ==
  ASSUME NEW d \in Digest, NEW cost, StampValid(d, cost)
  PROVE  /\ cost \in 1..(Bits - 1)
         /\ \A j \in 0..(cost - 2) : d[j] = 0
         /\ d # Target(cost) => d[cost - 1] = 0
<1>1. cost \in 1..(Bits - 1)
  BY DEF StampValid
<1>2. \A j \in 0..(cost - 2) : Target(cost)[j] = 0
  BY <1>1, PlaceSize DEF Target, Place
<1>3. CASE d # Target(cost)
  <2>1. PICK i \in Place : /\ d[i] < Target(cost)[i]
                           /\ \A j \in 0..(i - 1) : d[j] = Target(cost)[j]
    BY <1>3 DEF StampValid, AtMost
  <2>2. i = cost - 1 /\ d[i] = 0
    BY <2>1 DEF Target, Digest
  <2> QED
    BY <1>1, <1>2, <2>1, <2>2
<1> QED
  BY <1>1, <1>2, <1>3

\* A digest below the target has all the zeros that the cost asks for.
LEMMA ValidIsWorth ==
  ASSUME NEW d \in Digest, NEW cost, StampValid(d, cost)
  PROVE  \/ StampValue(d) >= cost
         \/ d = Target(cost) /\ StampValue(d) = cost - 1
<1>1. cost \in 1..(Bits - 1)
  BY DEF StampValid
<1>2. CASE d = Target(cost)
  BY <1>1, <1>2, TargetValue
<1>3. CASE d # Target(cost)
  <2>1. \A j \in 0..(cost - 1) : d[j] = 0
    BY <1>1, <1>3, ValidBegins
  <2>2. cost \in 0..Bits
    BY <1>1, PlaceSize
  <2> QED
    BY <2>1, <2>2, LeadingZeros
<1> QED
  BY <1>2, <1>3

\* A stamp that StampValid accepts at a cost it accepts at every lower one
\* (stamper.go:119), so that the work in a stamp is told by one number, the
\* greatest cost at which it is valid.
THEOREM LowerCostsAccept ==
  ASSUME NEW d \in Digest, NEW cost, StampValid(d, cost), NEW lower \in 1..cost
  PROVE  StampValid(d, lower)
<1>1. cost \in 1..(Bits - 1) /\ lower \in 1..(Bits - 1)
  BY ValidBegins, PlaceSize
<1>2. CASE lower = cost
  BY <1>2
<1>3. CASE lower < cost
  <2>1. \A j \in 0..(lower - 1) : d[j] = 0 /\ j \in Place
    BY <1>1, <1>3, ValidBegins, PlaceSize DEF Place
  <2>2. lower - 1 \in Place /\ Target(lower)[lower - 1] = 1
    BY <1>1, PlaceSize DEF Target, Place
  <2>3. \A j \in 0..(lower - 2) : Target(lower)[j] = 0
    BY <1>1, PlaceSize DEF Target, Place
  <2>4. d[lower - 1] < Target(lower)[lower - 1]
    BY <1>1, <2>1, <2>2
  <2>5. \A j \in 0..((lower - 1) - 1) : d[j] = Target(lower)[j]
    BY <1>1, <2>1, <2>3
  <2> QED
    BY <1>1, <2>2, <2>4, <2>5 DEF StampValid, AtMost
<1> QED
  BY <1>1, <1>2, <1>3

LEMMA MinerInit == Init => MinerInv
BY WorkersPositive
   DEF Init, MinerInv, TypeOK, StampsAreValid, FoundIsCarried, FinderHasStamp, ClosedLast,
   GoneForCause

\* One case per action; a worker's steps change its own place only.
LEMMA MinerStep == MinerInv /\ [Next]_vars => MinerInv'
<1> SUFFICES ASSUME MinerInv, [Next]_vars PROVE MinerInv'
  OBVIOUS
<1> USE DEF MinerInv, TypeOK, StampsAreValid, FoundIsCarried, FinderHasStamp, ClosedLast,
   GoneForCause
<1>1. CASE CallerCancels
  BY <1>1 DEF CallerCancels
<1>2. CASE Return
  <2>1. \A d \in Digest : [stamp |-> d, value |-> StampValue(d)] \in Mined
    BY ValueInRange DEF Mined
  <2>2. None \notin Mined
    BY MinerAssumption DEF MinerAssumption
  <2> QED
    BY <1>2, <2>1, <2>2, WorkersPositive DEF Return
<1>3. CASE CloseResults
  BY <1>3 DEF CloseResults
<1>4. ASSUME NEW w \in Worker, StartWorker(w) PROVE MinerInv'
  BY <1>4 DEF StartWorker
<1>5. ASSUME NEW w \in Worker, CheckContext(w) PROVE MinerInv'
  BY <1>5 DEF CheckContext, Goto, Done
<1>6. ASSUME NEW w \in Worker, NEW d \in Digest, Draw(w, d) PROVE MinerInv'
  BY <1>6, MinerAssumption DEF Draw, Goto, MinerAssumption
<1>7. ASSUME NEW w \in Worker, SendResult(w) PROVE MinerInv'
  BY <1>7 DEF SendResult, Goto, HasRoom
<1>8. ASSUME NEW w \in Worker, Cancel(w) PROVE MinerInv'
  BY <1>8 DEF Cancel, Goto
<1>9. CASE UNCHANGED vars
  BY <1>9 DEF vars
<1> QED
  BY <1>1, <1>2, <1>3, <1>4, <1>5, <1>6, <1>7, <1>8, <1>9 DEF Next, Step

\* The invariant of GenerateStamp's goroutines (stamper.go:165-206): a stamp that
\* was found is carried, and the channel closed last.
THEOREM MinerInvariant == Spec => []MinerInv
BY MinerInit, MinerStep, PTL DEF Spec

\* The caller is told that there is no stamp (stamper.go:207) only if its context
\* ended and no worker had found one.
THEOREM NoStampIsLost == Spec => []ErrorMeansNoneFound
<1>1. MinerInv => ErrorMeansNoneFound
  BY WorkersPositive DEF MinerInv, TypeOK, FoundIsCarried, FinderHasStamp, ClosedLast,
   GoneForCause,
     ErrorMeansNoneFound
<1> QED
  BY <1>1, MinerInvariant, PTL

\* The value that GenerateStamp returns with a stamp (stamper.go:211) is at least
\* the cost, but for the one digest that equals the target (stamper.go:119).
THEOREM ValueIsEnough == Spec => []ValueMeetsCost
<1>1. MinerInv => ValueMeetsCost
  <2>1. SUFFICES ASSUME MinerInv, result # None PROVE ValueMeetsCost
    BY DEF ValueMeetsCost
  <2>2. /\ result.stamp \in Digest /\ StampValid(result.stamp, stampCost)
        /\ result.value = StampValue(result.stamp)
    BY <2>1 DEF MinerInv, TypeOK, StampsAreValid, Mined
  <2> QED
    BY <2>2, ValidIsWorth DEF ValueMeetsCost
<1> QED
  BY <1>1, MinerInvariant, PTL
=============================================================================
