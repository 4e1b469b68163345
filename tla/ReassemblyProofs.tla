---------------------------- MODULE ReassemblyProofs ---------------------------
(***************************************************************************)
(* For every wire and every pair of limits: the loop invariant, the answer *)
(* of a call, the bound on the buffer, the stability of answers, and that  *)
(* Reassembly implements HandshakeContract.                                *)
(***************************************************************************)
EXTENDS Reassembly, TLAPS

\* The inductive invariant: what the loop knows, what the last call returned
\* and how much is in the buffer.
IInv == TypeOK /\ LoopInv /\ AnswerIsPromise /\ AnswerHolds /\ BufferBound

--------------------------------------------------------------------------------
\* The payload grows from record to record.
LEMMA CutMonotone ==
    ASSUME TypeOK, NEW i \in 0..Records, NEW j \in 0..Records, i <= j
    PROVE  cut[i] \in Nat /\ cut[j] \in Nat /\ cut[i] <= cut[j] /\ cut[0] = 0
BY WireAssumption DEF TypeOK

\* The record after the first p.
LEMMA FragmentAfter ==
    ASSUME NEW p \in Nat
    PROVE  Fragment(p + 1) = cut[p + 1] - cut[p]
<1>1. ASSUME NEW q \in Nat, q = p + 1
      PROVE  q - 1 = p
  BY <1>1
<1>2. QED
  BY <1>1 DEF Fragment

\* The handshake is at least its header, and None is not a length.
LEMMA TotalNat ==
    ASSUME TypeOK
    PROVE  Total \in Nat /\ Total >= HeaderLen /\ Total # None
BY WireAssumption, SizesAssumption DEF TypeOK, Total, HeaderLen

\* A record that completes the handshake comes after every prefix that is
\* shorter than the handshake.
LEMMA CompletesLater ==
    ASSUME TypeOK, NEW p \in 0..Records, cut[p] < Total,
           NEW k \in 1..Records, CompletedBy(k)
    PROVE  p + 1 <= k
<1>1. k \in 0..Records
  OBVIOUS
<1>2. Total <= cut[k]
  BY DEF CompletedBy
<1>3. SUFFICES ASSUME k <= p PROVE FALSE
  BY SizesAssumption
<1>4. cut[k] <= cut[p] /\ cut[k] \in Nat /\ cut[p] \in Nat
  BY <1>1, <1>3, CutMonotone
<1>5. QED
  BY <1>2, <1>4, TotalNat

\* More records never change a promise that is not None.
LEMMA PromiseStable ==
    ASSUME NEW m \in 0..Records, NEW n \in 0..Records, m <= n, Promise(m) # None
    PROVE  Promise(n) = Promise(m)
<1>1. 1..m \subseteq 1..n
  BY SizesAssumption
<1>2. QED
  BY <1>1 DEF Promise, CarriesHandshake

\* A promise is None or the handshake's length.
LEMMA PromiseType ==
    ASSUME TypeOK, NEW n \in 0..Records
    PROVE  Promise(n) \in (HeaderLen..MaxHandshakeBytes) \cup {None}
BY TotalNat, SizesAssumption DEF Promise, CarriesHandshake, HeaderLen

--------------------------------------------------------------------------------
\* A call on a first record that holds the whole handshake.
LEMMA FastHitAnswer ==
    ASSUME TypeOK, SingleRecord
    PROVE  Promise(arrived) = Total
<1>1. 1 \in 1..arrived /\ 1 \in 1..Records
  BY SizesAssumption DEF TypeOK, SingleRecord
<1>2. cut[0] = 0 /\ cut[1] = Fragment(1) /\ cut[1] \in Nat
  BY <1>1, CutMonotone, SizesAssumption DEF Fragment
<1>3. CompletedBy(1)
  BY <1>2, TotalNat DEF CompletedBy, SingleRecord, HeaderLen
<1>4. Assemblable(1)
  BY DEF Assemblable, SingleRecord
<1>5. cut[1] <= MaxHandshakeBytes
  BY <1>2, SizesAssumption DEF SingleRecord, HeaderLen
<1>6. QED
  BY <1>1, <1>3, <1>4, <1>5 DEF Promise, CarriesHandshake, SingleRecord

\* What the loop knows of the payload it has read.
LEMMA NotYetComplete ==
    ASSUME TypeOK, LoopInv, pc = "slow"
    PROVE  cut[pos] < Total /\ cut[pos] = buf /\ pos <= arrived
BY TotalNat DEF LoopInv, TypeOK, HeaderLen

\* What the loop knows of the record it reads next.
LEMMA ReadingFacts ==
    ASSUME TypeOK, LoopInv, Reading
    PROVE  /\ pos + 1 \in 1..arrived
           /\ pos + 1 \in 1..Records
           /\ pos + 1 \in 0..Records
           /\ Fragment(pos + 1) \in Nat
           /\ cut[pos + 1] = Extended
           /\ Extended \in Nat
           /\ cut[pos] < Total
<1>1. pos + 1 \in 1..arrived /\ pos + 1 \in 1..Records
  BY SizesAssumption DEF TypeOK, Reading
<1>2. cut[pos] < Total /\ cut[pos] = buf
  BY NotYetComplete DEF Reading
<1>3. pos \in 0..Records /\ cut[pos] \in Nat /\ cut[pos + 1] \in Nat
      /\ cut[pos] <= cut[pos + 1]
  BY <1>1, CutMonotone, SizesAssumption DEF TypeOK
<1>4. Fragment(pos + 1) = cut[pos + 1] - cut[pos]
  BY FragmentAfter DEF TypeOK
<1>5. QED
  BY <1>1, <1>2, <1>3, <1>4 DEF Extended, TypeOK

\* The need computed for the extended buffer.
LEMMA NeedFacts ==
    ASSUME TypeOK, LoopInv, Appending
    PROVE  NeedAfter = IF Extended < HeaderLen THEN None ELSE Total
<1>1. Reading /\ pc = "slow"
  BY DEF Appending, Reading
<1>2. Extended \in Nat /\ Extended >= buf /\ buf \in Nat
  BY <1>1, ReadingFacts DEF Extended, TypeOK
<1>3. need = IF buf < HeaderLen THEN None ELSE Total
  BY <1>1 DEF LoopInv
<1>4. QED
  BY <1>2, <1>3, TotalNat DEF NeedAfter, HeaderLen

\* The records read so far and the next one may be concatenated.
LEMMA AppendAssemblable ==
    ASSUME TypeOK, LoopInv, Reading, hs[pos + 1],
           Fragment(pos + 1) <= MaxRecordFragment
    PROVE  Assemblable(pos + 1)
<1>1. Assemblable(pos)
  BY DEF LoopInv, Reading
<1>2. \A i \in 1..(pos + 1) : i \in 1..pos \/ i = pos + 1
  BY DEF TypeOK
<1>3. QED
  BY <1>1, <1>2 DEF Assemblable

\* A record that the loop cannot admit keeps the promise at None.
LEMMA BadNextRecord ==
    ASSUME TypeOK, LoopInv, Reading,
           \/ ~hs[pos + 1]
           \/ Fragment(pos + 1) > MaxRecordFragment
           \/ cut[pos + 1] > MaxHandshakeBytes
           \/ Total > MaxHandshakeBytes
    PROVE  Promise(arrived) = None
<1>1. CASE Total > MaxHandshakeBytes
  BY <1>1, TotalNat, SizesAssumption DEF Promise, CarriesHandshake
<1>2. ASSUME NEW k \in 1..arrived, CompletedBy(k)
      PROVE  k \in 1..Records /\ pos + 1 \in 1..k /\ cut[pos + 1] <= cut[k]
                               /\ cut[k] \in Nat
  <2>1. k \in 1..Records /\ k \in 0..Records /\ pos \in 0..Records
    BY SizesAssumption DEF TypeOK
  <2>2. pos + 1 <= k
    BY <1>2, <2>1, ReadingFacts, CompletesLater
  <2>3. pos + 1 \in 0..Records /\ pos + 1 \in 1..k
    BY <2>1, <2>2, SizesAssumption
  <2>4. QED
    BY <2>1, <2>2, <2>3, CutMonotone
<1>3. CASE ~hs[pos + 1] \/ Fragment(pos + 1) > MaxRecordFragment
  <2>1. ASSUME NEW k \in 1..arrived, CompletedBy(k), Assemblable(k)
        PROVE  FALSE
    <3>1. hs[pos + 1] /\ Fragment(pos + 1) <= MaxRecordFragment
      BY <1>2, <2>1 DEF Assemblable
    <3>2. Fragment(pos + 1) \in Nat
      BY ReadingFacts
    <3>3. QED
      BY <1>3, <3>1, <3>2, SizesAssumption
  <2>2. QED
    BY <2>1 DEF Promise, CarriesHandshake
<1>4. CASE cut[pos + 1] > MaxHandshakeBytes
  <2>1. ASSUME NEW k \in 1..arrived, CompletedBy(k), cut[k] <= MaxHandshakeBytes
        PROVE  FALSE
    <3>1. cut[pos + 1] <= cut[k] /\ cut[k] \in Nat /\ cut[pos + 1] \in Nat
      BY <1>2, <2>1, ReadingFacts
    <3>2. QED
      BY <1>4, <2>1, <3>1, SizesAssumption
  <2>2. QED
    BY <2>1 DEF Promise
<1>5. QED
  BY <1>1, <1>3, <1>4

\* A slice that ends before the handshake does keeps the promise at None.
LEMMA IncompleteSlice ==
    ASSUME TypeOK, LoopInv, pc = "slow", pos = arrived
    PROVE  Promise(arrived) = None
<1>1. ASSUME NEW k \in 1..arrived, CompletedBy(k)
      PROVE  FALSE
  <2>1. k \in 1..Records /\ pos \in 0..Records
    BY SizesAssumption DEF TypeOK
  <2>2. pos + 1 <= k
    BY <1>1, <2>1, NotYetComplete, CompletesLater
  <2>3. QED
    BY <2>1, <2>2 DEF TypeOK
<1>2. QED
  BY <1>1 DEF Promise

\* The record that completes the handshake delivers what is promised.
LEMMA CompleteAnswer ==
    ASSUME TypeOK, LoopInv, Admitted, NeedAfter # None, Extended >= NeedAfter
    PROVE  Promise(arrived) = Total /\ NeedAfter = Total
<1>1. /\ Reading /\ hs[pos + 1] /\ pc = "slow"
      /\ Fragment(pos + 1) <= MaxRecordFragment
  BY ReadingFacts, SizesAssumption DEF Admitted, Appending, Reading
<1>2. NeedAfter = Total
  BY NeedFacts DEF Admitted
<1>3. cut[pos] < Total /\ Total <= cut[pos + 1] /\ cut[pos + 1] <= MaxHandshakeBytes
  BY <1>1, <1>2, ReadingFacts DEF Admitted
<1>4. CompletedBy(pos + 1)
  <2>1. ASSUME NEW q \in Nat, q = pos + 1
        PROVE  q - 1 = pos
    BY <2>1 DEF TypeOK
  <2>2. pos + 1 \in Nat
    BY DEF TypeOK
  <2>3. QED
    BY <1>3, <2>1, <2>2 DEF CompletedBy
<1>5. Assemblable(pos + 1)
  BY <1>1, AppendAssemblable
<1>6. pos + 1 \in 1..arrived /\ Total <= MaxHandshakeBytes
  BY <1>1, <1>2, ReadingFacts DEF Admitted
<1>7. QED
  BY <1>2, <1>3, <1>4, <1>5, <1>6 DEF Promise, CarriesHandshake

\* Whatever a call returns is what the contract promises for its slice.
LEMMA ReturnIsPromise ==
    ASSUME IInv, CallStep, pc' = "done"
    PROVE  answer' = Promise(arrived) /\ arrived' = arrived /\ UNCHANGED wire
<1>0. TypeOK /\ LoopInv
  BY DEF IInv
<1>1. CASE FastHit
  BY <1>0, <1>1, FastHitAnswer DEF FastHit, Return
<1>2. CASE FastMiss
  BY <1>2 DEF FastMiss
<1>3. CASE RejectIncomplete
  BY <1>0, <1>3, IncompleteSlice DEF RejectIncomplete, Return
<1>4. CASE RejectContentType
  BY <1>0, <1>4, BadNextRecord DEF RejectContentType, Return
<1>5. CASE RejectOversizeRecord
  BY <1>0, <1>5, BadNextRecord DEF RejectOversizeRecord, Return
<1>6. CASE SkipEmptyRecord
  BY <1>6 DEF SkipEmptyRecord, Reading
<1>7. CASE RejectOverCap
  <2>1. Reading /\ cut[pos + 1] > MaxHandshakeBytes
    BY <1>0, <1>7, ReadingFacts DEF RejectOverCap, Appending
  <2>2. QED
    BY <1>0, <1>7, <2>1, BadNextRecord DEF RejectOverCap, Return
<1>8. CASE RejectClaim
  <2>1. Reading /\ Total > MaxHandshakeBytes
    BY <1>0, <1>8, NeedFacts DEF RejectClaim, Appending
  <2>2. QED
    BY <1>0, <1>8, <2>1, BadNextRecord DEF RejectClaim, Return
<1>9. CASE Complete
  BY <1>0, <1>9, CompleteAnswer DEF Complete, Return
<1>10. CASE Accumulate
  BY <1>10 DEF Accumulate, Admitted, Appending, Reading
<1>11. QED
  BY <1>1, <1>2, <1>3, <1>4, <1>5, <1>6, <1>7, <1>8, <1>9, <1>10 DEF CallStep

--------------------------------------------------------------------------------
\* Every step keeps the variables in their types.
LEMMA TypeStep ==
    ASSUME IInv, [Next]_vars
    PROVE  TypeOK'
<1> USE DEF IInv
<1>1. ASSUME CallStep, pc' = "done"
      PROVE  answer' \in (HeaderLen..MaxHandshakeBytes) \cup {None} /\ UNCHANGED <<wire, arrived>>
  BY <1>1, ReturnIsPromise, PromiseType DEF TypeOK
<1>2. CASE FastHit
  BY <1>1, <1>2 DEF CallStep, FastHit, Return, TypeOK, wire
<1>3. CASE FastMiss
  BY <1>3, SizesAssumption DEF FastMiss, TypeOK, wire
<1>4. CASE RejectIncomplete \/ RejectContentType \/ RejectOversizeRecord
  BY <1>1, <1>4 DEF CallStep, RejectIncomplete, RejectContentType,
                    RejectOversizeRecord, Return, TypeOK, wire
<1>5. ASSUME Reading
      PROVE  pos + 1 \in 0..Records /\ Extended \in Nat
  BY <1>5, ReadingFacts
<1>6. CASE SkipEmptyRecord
  BY <1>5, <1>6 DEF SkipEmptyRecord, TypeOK, wire
<1>7. CASE RejectOverCap \/ RejectClaim
  <2>1. Reading
    BY <1>7 DEF RejectOverCap, RejectClaim, Appending
  <2>2. QED
    BY <1>1, <1>5, <1>7, <2>1 DEF CallStep, RejectOverCap, RejectClaim, Return,
                                  TypeOK, wire
<1>8. CASE Complete
  <2>1. Reading /\ NeedAfter \in HeaderLen..MaxHandshakeBytes
    BY <1>8, CompleteAnswer, TotalNat, SizesAssumption
       DEF Complete, Admitted, Appending, HeaderLen
  <2>2. QED
    BY <1>1, <1>5, <1>8, <2>1 DEF CallStep, Complete, Return, TypeOK, HeaderLen, wire
<1>9. CASE Accumulate
  <2>1. Reading /\ NeedAfter \in (HeaderLen..MaxHandshakeBytes) \cup {None}
    BY <1>9, NeedFacts, TotalNat, SizesAssumption
       DEF Accumulate, Admitted, Appending, HeaderLen
  <2>2. QED
    BY <1>5, <1>9, <2>1 DEF Accumulate, TypeOK, wire
<1>10. CASE Deliver
  BY <1>10, SizesAssumption DEF Deliver, TypeOK, wire
<1>11. CASE UNCHANGED vars
  BY <1>11 DEF vars, wire, TypeOK
<1>12. QED
  BY <1>2, <1>3, <1>4, <1>6, <1>7, <1>8, <1>9, <1>10, <1>11 DEF Next, CallStep

\* Every step keeps what the loop knows.
LEMMA LoopStep ==
    ASSUME IInv, [Next]_vars
    PROVE  LoopInv'
<1>0. TypeOK /\ LoopInv
  BY DEF IInv
<1>1. SUFFICES ASSUME pc' = "slow" PROVE LoopInv'
  BY DEF LoopInv
<1>2. CASE FastMiss
  <2>1. cut[0] = 0
    BY <1>0, CutMonotone, SizesAssumption
  <2>2. QED
    BY <1>0, <1>2, <2>1, SizesAssumption
       DEF FastMiss, LoopInv, Assemblable, TypeOK, HeaderLen, wire
<1>3. CASE SkipEmptyRecord
  <2>1. Reading /\ hs[pos + 1] /\ Fragment(pos + 1) = 0
    BY <1>3 DEF SkipEmptyRecord
  <2>2. Assemblable(pos + 1) /\ pos + 1 <= arrived /\ cut[pos + 1] = buf
    BY <1>0, <2>1, ReadingFacts, AppendAssemblable, SizesAssumption
       DEF Extended, TypeOK
  <2>3. QED
    BY <1>0, <1>3, <2>1, <2>2
       DEF SkipEmptyRecord, LoopInv, Assemblable, Fragment, Total, Reading, wire
<1>4. CASE Accumulate
  <2>1. Reading /\ Appending /\ hs[pos + 1] /\ Fragment(pos + 1) <= MaxRecordFragment
    BY <1>0, <1>4, SizesAssumption DEF Accumulate, Admitted, Appending
  <2>2. Assemblable(pos + 1) /\ pos + 1 <= arrived /\ cut[pos + 1] = Extended
    BY <1>0, <2>1, ReadingFacts, AppendAssemblable
  <2>3. NeedAfter = IF Extended < HeaderLen THEN None ELSE Total
    BY <1>0, <2>1, NeedFacts
  <2>4. NeedAfter # None => Extended < NeedAfter /\ NeedAfter <= MaxHandshakeBytes
    BY <1>4 DEF Accumulate, Admitted
  <2>5. Extended < MaxHandshakeBytes
    BY <1>0, <2>1, <2>3, <2>4, ReadingFacts, TotalNat, SizesAssumption DEF HeaderLen
  <2>6. /\ pos' = pos + 1 /\ buf' = Extended /\ need' = NeedAfter
        /\ UNCHANGED <<wire, arrived>>
    BY <1>4 DEF Accumulate
  <2>7. QED
    BY <2>2, <2>3, <2>4, <2>5, <2>6 DEF LoopInv, Assemblable, Fragment, Total, wire
<1>5. CASE UNCHANGED vars
  BY <1>0, <1>5 DEF vars, wire, LoopInv, Assemblable, Fragment, Total
<1>6. ~FastHit /\ ~RejectIncomplete /\ ~RejectContentType /\ ~RejectOversizeRecord
      /\ ~RejectOverCap /\ ~RejectClaim /\ ~Complete /\ ~Deliver
  BY <1>1 DEF FastHit, RejectIncomplete, RejectContentType, RejectOversizeRecord,
              RejectOverCap, RejectClaim, Complete, Deliver, Return
<1>7. QED
  BY <1>2, <1>3, <1>4, <1>5, <1>6 DEF Next, CallStep

\* Every step keeps the buffer under the cap and one record more.
LEMMA BufferStep ==
    ASSUME IInv, [Next]_vars
    PROVE  BufferBound'
<1>0. /\ TypeOK /\ LoopInv /\ BufferBound
      /\ buf \in Nat /\ MaxHandshakeBytes \in Nat /\ MaxRecordFragment \in Nat
  BY SizesAssumption DEF IInv, TypeOK
<1>1. CASE UNCHANGED buf
  BY <1>0, <1>1 DEF BufferBound
<1>2. CASE FastMiss
  BY <1>0, <1>2 DEF FastMiss, BufferBound
<1>3. ASSUME Appending
      PROVE  Extended < MaxHandshakeBytes + MaxRecordFragment /\ MaxRecordFragment >= 1
  BY <1>0, <1>3 DEF Appending, Reading, LoopInv, Extended
<1>4. CASE RejectOverCap \/ RejectClaim \/ Accumulate
  BY <1>3, <1>4 DEF RejectOverCap, RejectClaim, Accumulate, Admitted, BufferBound
<1>5. CASE Complete
  <2>1. NeedAfter <= MaxHandshakeBytes /\ NeedAfter \in Nat /\ buf' = NeedAfter
    BY <1>0, <1>5, CompleteAnswer, TotalNat DEF Complete, Admitted
  <2>2. MaxRecordFragment >= 1
    BY <1>3, <1>5 DEF Complete, Admitted
  <2>3. QED
    BY <1>0, <2>1, <2>2 DEF BufferBound
<1>6. QED
  BY <1>1, <1>2, <1>4, <1>5
     DEF Next, CallStep, FastHit, RejectIncomplete, RejectContentType,
         RejectOversizeRecord, SkipEmptyRecord, Deliver, vars

\* A step of a call that does not return, and a step that takes none, shows the
\* caller nothing: the wire, the slice and the last answer stay as they are.
LEMMA QuietStep ==
    ASSUME (CallStep /\ pc' # "done") \/ UNCHANGED vars
    PROVE  UNCHANGED <<wire, arrived, answer>>
<1>1. CASE UNCHANGED vars
  BY <1>1 DEF vars, wire
<1>2. CASE CallStep /\ pc' # "done"
  BY <1>2 DEF CallStep, FastHit, FastMiss, RejectIncomplete, RejectContentType,
              RejectOversizeRecord, SkipEmptyRecord, RejectOverCap, RejectClaim,
              Complete, Accumulate, Return
<1>3. QED
  BY <1>1, <1>2

\* Every step keeps the answer equal to the promise for the slice.
LEMMA AnswerStep ==
    ASSUME IInv, [Next]_vars
    PROVE  AnswerIsPromise' /\ AnswerHolds'
<1>0. TypeOK /\ AnswerIsPromise /\ AnswerHolds
  BY DEF IInv
<1>1. CASE CallStep /\ pc' = "done"
  <2>1. answer' = Promise(arrived) /\ UNCHANGED <<wire, arrived>>
    BY <1>1, ReturnIsPromise
  <2>2. Promise(arrived)' = Promise(arrived)
    BY <2>1 DEF Promise, CarriesHandshake, CompletedBy, Assemblable, Fragment, Total, wire
  <2>3. QED
    BY <2>1, <2>2 DEF AnswerIsPromise, AnswerHolds
<1>2. CASE CallStep /\ pc' # "done"
  <2>1. UNCHANGED <<wire, arrived, answer>>
    BY <1>2, QuietStep
  <2>2. Promise(arrived)' = Promise(arrived)
    BY <2>1 DEF Promise, CarriesHandshake, CompletedBy, Assemblable, Fragment, Total, wire
  <2>3. QED
    BY <1>0, <1>2, <2>1, <2>2 DEF AnswerIsPromise, AnswerHolds
<1>3. CASE Deliver
  <2>1. /\ arrived \in 0..Records /\ arrived' \in 0..Records /\ arrived <= arrived'
        /\ UNCHANGED <<wire, answer>> /\ pc' # "done"
    BY <1>0, <1>3, SizesAssumption DEF Deliver, TypeOK
  <2>2. QED
    BY <1>0, <2>1, PromiseStable
       DEF AnswerIsPromise, AnswerHolds, Promise, CarriesHandshake, CompletedBy,
           Assemblable, Fragment, Total, wire
<1>4. CASE UNCHANGED vars
  BY <1>0, <1>4 DEF vars, wire, AnswerIsPromise, AnswerHolds, Promise, CarriesHandshake,
                    CompletedBy, Assemblable, Fragment, Total
<1>5. QED
  BY <1>1, <1>2, <1>3, <1>4 DEF Next

--------------------------------------------------------------------------------
\* The invariant holds of every reachable state, for every set of wires and
\* every pair of limits with MaxRecordFragment <= MaxHandshakeBytes.
THEOREM InvariantHolds == Spec => []IInv
<1>1. Init => IInv
  BY SizesAssumption, WireAssumption
     DEF Init, ContractInit, IInv, TypeOK, LoopInv, AnswerIsPromise, AnswerHolds,
         BufferBound, HeaderLen
<1>2. IInv /\ [Next]_vars => IInv'
  BY TypeStep, LoopStep, AnswerStep, BufferStep DEF IInv
<1>3. QED
  BY <1>1, <1>2, PTL DEF Spec

\* The variables stay in their types.
THEOREM TypeCorrect == Spec => []TypeOK
BY InvariantHolds, PTL DEF IInv

\* What the accumulation loop of reassemble_handshake_owned relies on.
THEOREM LoopInvariant == Spec => []LoopInv
BY InvariantHolds, PTL DEF IInv

\* Every call of reassemble_handshake returns what the multi-record contract,
\* with its cap on the completing record, promises for the slice.
THEOREM CallsKeepPromise == Spec => []AnswerIsPromise
BY InvariantHolds, PTL DEF IInv

\* handshake_buf stays within MAX_HANDSHAKE_BYTES + MAX_RECORD_FRAGMENT.
THEOREM BufferBounded == Spec => []BufferBound
BY InvariantHolds, PTL DEF IInv

\* A handshake once returned is returned by every later call on a longer slice.
THEOREM AnswersAreStable == Spec => AnswerStable
<1>1. IInv /\ IInv' /\ [Next]_vars => [answer # None => answer' = answer]_vars
  <2>1. SUFFICES ASSUME IInv, [Next]_vars, answer # None
                 PROVE  answer' = answer
    OBVIOUS
  <2>2. CASE CallStep /\ pc' = "done"
    BY <2>1, <2>2, ReturnIsPromise DEF IInv, AnswerHolds
  <2>3. CASE (CallStep /\ pc' # "done") \/ UNCHANGED vars
    BY <2>3, QuietStep
  <2>4. CASE Deliver
    BY <2>4 DEF Deliver
  <2>5. QED
    BY <2>1, <2>2, <2>3, <2>4 DEF Next
<1>2. QED
  BY <1>1, InvariantHolds, PTL DEF Spec, AnswerStable

\* To its caller a step is the contract's: the return of a call is the contract's
\* answer, an arrival is its arrival, and every other step is invisible.
LEMMA StepImplements ==
    ASSUME IInv, [Next]_vars
    PROVE  [ContractNext]_<<wire, arrived, answer>>
<1>1. CASE Deliver
  BY <1>1 DEF Deliver, MoreArrives, ContractNext
<1>2. CASE CallStep /\ pc' = "done"
  BY <1>2, ReturnIsPromise DEF Answer, ContractNext
<1>3. CASE (CallStep /\ pc' # "done") \/ UNCHANGED vars
  BY <1>3, QuietStep
<1>4. QED
  BY <1>1, <1>2, <1>3 DEF Next

\* The fast path and the loop together implement the contract: every step of a
\* call is a contract step or invisible to the caller.
THEOREM ImplementsContract == Spec => ContractSpec
<1>1. Init => ContractInit
  BY DEF Init
<1>2. IInv /\ [Next]_vars => [ContractNext]_<<wire, arrived, answer>>
  BY StepImplements
<1>3. QED
  BY <1>1, <1>2, InvariantHolds, PTL DEF Spec, ContractSpec

================================================================================
