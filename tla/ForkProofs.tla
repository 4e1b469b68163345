------------------------------ MODULE ForkProofs -------------------------------
(***************************************************************************)
(* The walk of ClientHello, for every set of extension types and every     *)
(* block: what it knows, the meaning of its outcome, and the ECH mask of   *)
(* DECISIONS.C14.  And the pipeline of Fork around that walk, for every    *)
(* allow-cache, dictionary and parent: it carries out the policy of        *)
(* ForkPolicy, the native path is taken for a visible, cached host only,   *)
(* and the isolate path with all the evidence.                             *)
(***************************************************************************)
EXTENDS Fork, TLAPS

--------------------------------------------------------------------------------
(* The walk: theorems of Spec. *)

\* The inductive invariant.
IInv == TypeOK /\ WalkInv

--------------------------------------------------------------------------------
\* What is known of the extension that is being read.
LEMMA ReadingFacts ==
    ASSUME IInv, Reading
    PROVE  /\ i \in 1..Len(exts)
           /\ i \in DOMAIN exts
           /\ exts[i] \in Extension
           /\ exts[i].type \in ExtTypes
           /\ pc = "walk"
           /\ ~psk_seen
           /\ GoodPrelude
<1>1. i \in 1..Len(exts) /\ i \in DOMAIN exts /\ exts[i] \in Extension
  BY DEF IInv, TypeOK, Reading
<1>2. exts[i].type \in ExtTypes
  BY <1>1 DEF Extension, ExtTypes
<1>3. QED
  BY <1>1, <1>2 DEF IInv, WalkInv, Reading, InLoop

\* The types recorded are those of the extensions read.
LEMMA SeenTypes ==
    ASSUME IInv, NEW t
    PROVE  t \in Seen <=> \E j \in 1..(i - 1) : exts[j].type = t
<1>1. /\ Len(order) = i - 1
      /\ \A j \in 1..(i - 1) : order[j] = exts[j].type
  BY DEF IInv, WalkInv
<1>2. QED
  BY <1>1 DEF Seen

\* Recording a new type keeps the walk's rules and what it knows of types.
LEMMA NewTypeKeeps ==
    ASSUME IInv, NewType, UNCHANGED pc \/ pc' = "rejected"
    PROVE  /\ i' \in 1..(Len(exts) + 1)
           /\ order' \in Seq(ExtTypes)
           /\ psk_seen' \in BOOLEAN
           /\ Len(order') = i' - 1
           /\ \A j \in 1..(i' - 1) : order'[j] = exts[j].type
           /\ psk_seen' <=> \E j \in 1..(i' - 1) : j = i' - 1 /\ exts[j].type = PSK
<1>1. Reading /\ i' = i + 1 /\ order' = Append(order, exts[i].type)
      /\ psk_seen' = (exts[i].type = PSK)
  BY DEF NewType
<1>2. i \in 1..Len(exts) /\ exts[i].type \in ExtTypes
  BY <1>1, ReadingFacts
<1>3. order \in Seq(ExtTypes) /\ Len(order) = i - 1
      /\ \A j \in 1..(i - 1) : order[j] = exts[j].type
  BY DEF IInv, TypeOK, WalkInv
<1>4. i' \in 1..(Len(exts) + 1) /\ i' - 1 = i /\ Len(exts) \in Nat
  BY <1>1, <1>2 DEF IInv, TypeOK
<1>5. order' \in Seq(ExtTypes) /\ Len(order') = i
  BY <1>1, <1>2, <1>3
<1>6. ASSUME NEW j \in 1..i
      PROVE  order'[j] = exts[j].type
  BY <1>1, <1>2, <1>3
<1>7. psk_seen' \in BOOLEAN
      /\ (psk_seen' <=> \E j \in 1..i : j = i /\ exts[j].type = PSK)
  <2>1. psk_seen' \in BOOLEAN /\ (psk_seen' <=> exts[i].type = PSK)
    BY <1>1, Zenon
  <2>2. exts[i].type = PSK <=> \E j \in 1..i : j = i /\ exts[j].type = PSK
    BY <1>2
  <2>3. QED
    BY <2>1, <2>2, Zenon
<1>8. QED
  BY <1>4, <1>5, <1>6, <1>7

\* A new extension with a good body leaves a good prefix.
LEMMA PrefixGrows ==
    ASSUME IInv, NewType, exts[i].body # "bad", UNCHANGED exts
    PROVE  PrefixOK'
<1>1. Reading /\ i' = i + 1 /\ exts[i].type \notin Seen
  BY DEF NewType
<1>2. i \in 1..Len(exts) /\ ~psk_seen /\ PrefixOK
  BY <1>1, ReadingFacts DEF IInv, WalkInv
<1>3. \A j \in 1..(i - 1) : exts[j].type # exts[i].type
  BY <1>1, SeenTypes
<1>4. \A j \in 1..(i - 1) : exts[j].type # PSK
  BY <1>2 DEF PrefixOK, IInv, WalkInv
<1>5. \A j \in 1..(i' - 1) : j \in 1..(i - 1) \/ j = i
  BY <1>1, <1>2
<1>6. ASSUME NEW j \in 1..(i' - 1)
      PROVE  /\ exts[j].body # "bad"
             /\ exts[j].type = PSK => j = i' - 1
             /\ \A k \in 1..(i' - 1) : exts[j].type = exts[k].type => j = k
  BY <1>1, <1>2, <1>3, <1>4, <1>5, <1>6 DEF PrefixOK
<1>7. QED
  BY <1>6 DEF PrefixOK

--------------------------------------------------------------------------------
\* The rules a rejected message breaks.
LEMMA RejectionIsJustified ==
    ASSUME IInv,
           \/ RejectAfterPsk \/ RejectOverrun \/ RejectDuplicate \/ RejectBody
           \/ ReadPrelude /\ pc' = "rejected"
    PROVE  ~WellFormed
<1>1. CASE RejectAfterPsk
  <2>1. tail = "overrun" \/ i <= Len(exts)
    BY <1>1 DEF RejectAfterPsk, InLoop
  <2>2. i \in 1..(Len(exts) + 1) /\ i - 1 \in 1..(i - 1) /\ exts[i - 1].type = PSK
    BY <1>1 DEF RejectAfterPsk, IInv, WalkInv, TypeOK
  <2>3. exts \in Seq(Extension)
    BY DEF IInv, TypeOK
  <2>4. QED
    BY <2>1, <2>2, <2>3 DEF WellFormed
<1>2. CASE RejectOverrun
  BY <1>2 DEF RejectOverrun, InLoop, WellFormed, IInv, TypeOK
<1>3. CASE RejectDuplicate
  <2>1. Reading /\ exts[i].type \in Seen
    BY <1>3 DEF RejectDuplicate
  <2>2. PICK j \in 1..(i - 1) : exts[j].type = exts[i].type
    BY <2>1, SeenTypes
  <2>3. j \in DOMAIN exts /\ i \in DOMAIN exts /\ j # i
    BY <2>1, ReadingFacts DEF IInv, TypeOK
  <2>4. QED
    BY <2>2, <2>3 DEF WellFormed
<1>4. CASE RejectBody
  <2>1. i \in DOMAIN exts /\ exts[i].body = "bad"
    BY <1>4, ReadingFacts DEF RejectBody, NewType
  <2>2. QED
    BY <2>1 DEF WellFormed
<1>5. CASE ReadPrelude /\ pc' = "rejected"
  BY <1>5 DEF ReadPrelude, WellFormed
<1>6. QED
  BY <1>1, <1>2, <1>3, <1>4, <1>5

\* A rejection that changes pc alone keeps the invariant.
LEMMA RejectStep ==
    ASSUME IInv, ~WellFormed, pc \notin {"accepted"}, pc' = "rejected",
           UNCHANGED <<input, i, meta>>
    PROVE  IInv'
BY DEF IInv, TypeOK, WalkInv, WellFormed, GoodPrelude, input, meta, Preludes

--------------------------------------------------------------------------------
\* What a body can be, by type.
LEMMA ExtensionFacts ==
    ASSUME NEW e \in Extension
    PROVE  /\ e.type = ECH => e.body = "ok"
           /\ \A h : e = [type |-> SNI, body |-> h] <=> e.type = SNI /\ e.body = h
           /\ e.body \in Hosts \/ e.body \in {"skip", "bad", "ok"}
           /\ e.body \in Hosts => e.type = SNI
BY TypesAssumption DEF Extension

\* The steps that read an extension: what they have in common.
LEMMA ReadStep ==
    ASSUME IInv, NewType,
           ech_present' = (ech_present \/ exts[i].type = ECH),
           \A h \in Hosts : sni_host' = h
                <=> sni_host = h \/ (exts[i].type = SNI /\ exts[i].body = h),
           sni_host' \in Hosts \cup {None},
           exts[i].body # "bad" => UNCHANGED pc,
           exts[i].body = "bad" => pc' = "rejected" /\ ~WellFormed
    PROVE  IInv'
<1>1. /\ Reading /\ i' = i + 1 /\ UNCHANGED <<prelude, exts, tail, host>>
      /\ i \in 1..Len(exts) /\ exts[i] \in Extension /\ pc = "walk" /\ GoodPrelude
  BY ReadingFacts DEF NewType, input
<1>2. /\ i' \in 1..(Len(exts) + 1)
      /\ order' \in Seq(ExtTypes)
      /\ psk_seen' \in BOOLEAN
      /\ Len(order') = i' - 1
      /\ \A j \in 1..(i' - 1) : order'[j] = exts[j].type
      /\ psk_seen' <=> \E j \in 1..(i' - 1) : j = i' - 1 /\ exts[j].type = PSK
  BY NewTypeKeeps
<1>3. \A j : j \in 1..(i' - 1) <=> j \in 1..(i - 1) \/ j = i
  BY <1>1
<1>4. ech_present' \in BOOLEAN
      /\ (ech_present' <=> \E j \in 1..(i' - 1) : exts[j].type = ECH)
  <2>1. ech_present \in BOOLEAN /\ (ech_present <=> \E j \in 1..(i - 1) : exts[j].type = ECH)
    BY DEF IInv, TypeOK, WalkInv
  <2>2. (\E j \in 1..(i' - 1) : exts[j].type = ECH)
            <=> (\E j \in 1..(i - 1) : exts[j].type = ECH) \/ exts[i].type = ECH
    BY <1>3
  <2>3. ech_present' \in BOOLEAN /\ (ech_present' <=> ech_present \/ exts[i].type = ECH)
    BY Zenon
  <2>4. QED
    BY <2>1, <2>2, <2>3, Zenon
<1>5. ASSUME NEW h \in Hosts
      PROVE  sni_host' = h
                <=> \E j \in 1..(i' - 1) : exts[j] = [type |-> SNI, body |-> h]
  <2>1. sni_host = h <=> \E j \in 1..(i - 1) : exts[j] = [type |-> SNI, body |-> h]
    BY DEF IInv, WalkInv
  <2>2. exts[i] = [type |-> SNI, body |-> h] <=> exts[i].type = SNI /\ exts[i].body = h
    BY <1>1, ExtensionFacts
  <2>3. QED
    BY <1>3, <2>1, <2>2
<1>6. exts[i].body # "bad" => PrefixOK'
  BY <1>1, PrefixGrows
<1>7. host' = None /\ pc' \in {"walk", "rejected"}
  BY <1>1 DEF IInv, WalkInv
<1>8. GoodPrelude' /\ (~WellFormed => ~WellFormed')
  BY <1>1 DEF GoodPrelude, WellFormed
<1>9. TypeOK'
  BY <1>1, <1>2, <1>4, <1>7 DEF IInv, TypeOK
<1>10. pc' \in {"walk", "accepted"} => exts[i].body # "bad"
  BY <1>7, <1>1
<1>11. WalkInv'
  BY <1>1, <1>2, <1>4, <1>5, <1>6, <1>7, <1>8, <1>10 DEF WalkInv
<1>12. QED
  BY <1>9, <1>11 DEF IInv

\* Every step keeps the invariant.
LEMMA InvariantStep ==
    ASSUME IInv, [Next]_vars
    PROVE  IInv'
<1>0. TypeOK /\ WalkInv
  BY DEF IInv
<1>1. CASE ReadPrelude
  <2>1. CASE pc' = "rejected"
    <3>1. ~WellFormed /\ pc = "start"
      BY <1>1, <2>1, RejectionIsJustified DEF ReadPrelude
    <3>2. QED
      BY <1>1, <2>1, <3>1, RejectStep DEF ReadPrelude
  <2>2. CASE pc' = "walk"
    <3>1. GoodPrelude /\ i = 1 /\ PrefixOK
      BY <1>0, <1>1, <2>2 DEF ReadPrelude, WalkInv, PrefixOK
    <3>2. QED
      BY <1>0, <1>1, <2>2, <3>1
         DEF ReadPrelude, IInv, TypeOK, WalkInv, PrefixOK, GoodPrelude, input, meta
  <2>3. QED
    BY <1>1, <2>1, <2>2 DEF ReadPrelude
<1>2. CASE RejectAfterPsk \/ RejectOverrun \/ RejectDuplicate
  <2>1. ~WellFormed
    BY <1>2, RejectionIsJustified
  <2>2. pc = "walk" /\ pc' = "rejected" /\ UNCHANGED <<input, i, meta>>
    BY <1>2 DEF RejectAfterPsk, RejectOverrun, RejectDuplicate, Reading, InLoop
  <2>3. QED
    BY <2>1, <2>2, RejectStep
<1>3. ASSUME Reading
      PROVE  /\ exts[i] \in Extension /\ i \in 1..Len(exts)
             /\ \A h \in Hosts : sni_host = h =>
                    \E j \in 1..(i - 1) : exts[j] = [type |-> SNI, body |-> h]
             /\ ech_present \in BOOLEAN /\ sni_host \in Hosts \cup {None}
  BY <1>0, <1>3, ReadingFacts DEF WalkInv, TypeOK
<1>4. CASE ReadEch
  <2>1. NewType /\ Reading /\ exts[i].type = ECH /\ exts[i].body = "ok"
        /\ UNCHANGED <<pc, sni_host>> /\ ech_present' = TRUE
    BY <1>3, <1>4, ExtensionFacts DEF ReadEch, NewType
  <2>2. ech_present' = (ech_present \/ exts[i].type = ECH)
    BY <2>1, Zenon
  <2>3. \A h \in Hosts : sni_host' = h
            <=> sni_host = h \/ (exts[i].type = SNI /\ exts[i].body = h)
    BY <2>1, TypesAssumption
  <2>4. sni_host' \in Hosts \cup {None} /\ exts[i].body # "bad"
    BY <1>3, <2>1
  <2>5. QED
    BY <2>1, <2>2, <2>3, <2>4, ReadStep
<1>5. CASE ReadHost
  <2>1. NewType /\ Reading /\ exts[i].type = SNI /\ exts[i].body \in Hosts
        /\ sni_host' = exts[i].body /\ UNCHANGED <<pc, ech_present>>
    BY <1>5 DEF ReadHost, NewType
  <2>2. ech_present' = (ech_present \/ exts[i].type = ECH)
    <3>1. exts[i].type # ECH /\ ech_present \in BOOLEAN
      BY <1>3, <2>1, TypesAssumption
    <3>2. QED
      BY <2>1, <3>1, Zenon
  <2>3. sni_host \notin Hosts
    <3>1. SUFFICES ASSUME sni_host \in Hosts PROVE FALSE
      OBVIOUS
    <3>2. PICK j \in 1..(i - 1) : exts[j] = [type |-> SNI, body |-> sni_host]
      BY <1>3, <2>1, <3>1
    <3>3. SNI \in Seen
      BY <3>2, SeenTypes
    <3>4. QED
      BY <2>1, <3>3 DEF NewType
  <2>4. exts[i].body # "bad"
    BY <2>1, TypesAssumption
  <2>5. \A h \in Hosts : sni_host' = h
            <=> sni_host = h \/ (exts[i].type = SNI /\ exts[i].body = h)
    BY <2>1, <2>3
  <2>6. QED
    BY <2>1, <2>2, <2>4, <2>5, ReadStep
<1>6. CASE RejectBody
  <2>1. NewType /\ Reading /\ exts[i].body = "bad" /\ pc' = "rejected" /\ ~WellFormed
        /\ UNCHANGED <<ech_present, sni_host>>
    BY <1>6, RejectionIsJustified DEF RejectBody, NewType
  <2>2. exts[i].type # ECH /\ exts[i].body \notin Hosts
    BY <1>3, <2>1, ExtensionFacts, TypesAssumption
  <2>3. ech_present' = (ech_present \/ exts[i].type = ECH)
    BY <1>3, <2>1, <2>2, Zenon
  <2>4. QED
    BY <1>3, <2>1, <2>2, <2>3, ReadStep
<1>7. CASE ReadOther
  <2>1. NewType /\ Reading /\ exts[i].body \in {"skip", "ok"} /\ exts[i].type # ECH
        /\ UNCHANGED <<pc, ech_present, sni_host>>
    BY <1>7 DEF ReadOther, NewType
  <2>2. exts[i].body \notin Hosts /\ exts[i].body # "bad"
    BY <2>1, TypesAssumption
  <2>3. ech_present' = (ech_present \/ exts[i].type = ECH)
    BY <1>3, <2>1, Zenon
  <2>4. \A h \in Hosts : sni_host' = h
            <=> sni_host = h \/ (exts[i].type = SNI /\ exts[i].body = h)
    BY <2>1, <2>2
  <2>5. sni_host' \in Hosts \cup {None}
    BY <1>3, <2>1
  <2>6. QED
    BY <2>1, <2>2, <2>3, <2>4, <2>5, ReadStep
<1>8. CASE Finish
  <2>1. i = Len(exts) + 1 /\ tail # "overrun"
    BY <1>0, <1>8 DEF Finish, InLoop, TypeOK
  <2>2. GoodPrelude /\ PrefixOK
    BY <1>0, <1>8 DEF Finish, WalkInv
  <2>3. TypeOK'
    BY <1>0, <1>8 DEF Finish, TypeOK, input
  <2>4. WalkInv'
    BY <1>0, <1>8, <2>1, <2>2 DEF Finish, WalkInv, TypeOK, input, GoodPrelude, PrefixOK
  <2>5. QED
    BY <2>3, <2>4 DEF IInv
<1>9. CASE UNCHANGED vars
  BY <1>0, <1>9 DEF vars, input, meta, IInv, TypeOK, WalkInv, GoodPrelude, PrefixOK, WellFormed
<1>10. QED
  BY <1>1, <1>2, <1>4, <1>5, <1>6, <1>7, <1>8, <1>9 DEF Next, ParseStep

--------------------------------------------------------------------------------
\* Before the first byte is read the invariant holds.
LEMMA InvariantStart == Init => IInv
<1> SUFFICES ASSUME Init PROVE IInv
  OBVIOUS
<1>1. exts \in Seq(Extension) /\ Len(exts) \in Nat
  BY BlocksAssumption DEF Init
<1>2. TypeOK
  <2>1. psk_seen \in BOOLEAN /\ ech_present \in BOOLEAN
    BY Zenon DEF Init
  <2>2. i \in 1..(Len(exts) + 1) /\ order \in Seq(ExtTypes)
    BY <1>1 DEF Init
  <2>3. QED
    BY <1>1, <2>1, <2>2 DEF Init, TypeOK
<1>3. i = 1 /\ i - 1 = 0 /\ 1..(i - 1) = {} /\ Len(order) = i - 1
  BY DEF Init
<1>4. ~psk_seen /\ ~ech_present /\ pc = "start" /\ host = None
  BY DEF Init
<1>5. \A h \in Hosts : sni_host # h
  BY TypesAssumption DEF Init
<1>6. WalkInv
  BY <1>3, <1>4, <1>5 DEF WalkInv
<1>7. QED
  BY <1>2, <1>6 DEF IInv

\* What the walk knows once it has read the whole block.
LEMMA WholeBlock ==
    ASSUME IInv, pc = "accepted"
    PROVE  /\ WellFormed
           /\ ech_present <=> Present(ECH)
           /\ \A h \in Hosts : sni_host = h <=> NamesHost(h)
<1>1. /\ GoodPrelude /\ PrefixOK /\ tail # "overrun" /\ i = Len(exts) + 1
      /\ ech_present <=> \E j \in 1..(i - 1) : exts[j].type = ECH
      /\ \A h \in Hosts :
            sni_host = h <=> \E j \in 1..(i - 1) : exts[j] = [type |-> SNI, body |-> h]
  BY DEF IInv, WalkInv
<1>2. 1..(i - 1) = DOMAIN exts /\ i - 1 = Len(exts)
  <2>1. exts \in Seq(Extension) /\ Len(exts) \in Nat
    BY DEF IInv, TypeOK
  <2>2. i = Len(exts) + 1
    BY <1>1
  <2>3. i - 1 = Len(exts)
    BY <2>1, <2>2
  <2>4. QED
    BY <2>1, <2>3
<1>3. WellFormed
  BY <1>1, <1>2 DEF WellFormed, PrefixOK
<1>4. QED
  BY <1>1, <1>2, <1>3 DEF Present, NamesHost

\* The invariant gives the outcome its meaning.
LEMMA InvariantGivesMeaning == IInv => OutcomeIsMeaning
<1> SUFFICES ASSUME IInv, Done PROVE Outcome = Meaning
  BY DEF OutcomeIsMeaning
<1>1. CASE pc = "rejected"
  BY <1>1 DEF IInv, WalkInv, Outcome, Meaning
<1>2. CASE pc = "accepted"
  <2>1. /\ WellFormed
        /\ ech_present <=> Present(ECH)
        /\ \A h \in Hosts : sni_host = h <=> NamesHost(h)
    BY <1>2, WholeBlock
  <2>2. host = (IF ech_present THEN None ELSE sni_host) /\ sni_host \in Hosts \cup {None}
    BY <1>2 DEF IInv, TypeOK, WalkInv
  <2>3. CASE Present(ECH)
    BY <1>2, <2>1, <2>3 DEF Outcome, Meaning
  <2>4. CASE ~Present(ECH) /\ host # None
    <3>1. host \in Hosts /\ \A h \in Hosts : NamesHost(h) <=> h = host
      BY <2>1, <2>2, <2>4
    <3>2. host = CHOOSE h \in Hosts : NamesHost(h)
      BY <3>1
    <3>3. QED
      BY <1>2, <2>1, <2>4, <3>1, <3>2 DEF Outcome, Meaning
  <2>5. CASE ~Present(ECH) /\ host = None
    <3>1. \A h \in Hosts : ~NamesHost(h)
      BY <2>1, <2>2, <2>5, TypesAssumption
    <3>2. QED
      BY <1>2, <2>1, <2>5, <3>1 DEF Outcome, Meaning
  <2>6. QED
    BY <2>3, <2>4, <2>5
<1>3. QED
  BY <1>1, <1>2 DEF Done

\* A host is published only over a block without encrypted_client_hello.
LEMMA InvariantMasksHost == IInv => EchMasksHost
<1> SUFFICES ASSUME IInv, Done, Outcome.kind = "cleartext" PROVE ~Present(ECH)
  BY DEF EchMasksHost
<1>1. pc = "accepted" /\ ~ech_present
  BY DEF Done, Outcome, Malformed, Encrypted
<1>2. QED
  BY <1>1, WholeBlock

--------------------------------------------------------------------------------
\* The inductive invariant holds of every walk.
THEOREM InvariantHolds == Spec => []IInv
<1>1. Init => IInv
  BY InvariantStart
<1>2. IInv /\ [Next]_vars => IInv'
  BY InvariantStep
<1>3. QED
  BY <1>1, <1>2, PTL DEF Spec

\* The state of parse_handshake_message_full stays in its types: a host is
\* never anything but a name the server_name parser accepted.
THEOREM TypeCorrect == Spec => []TypeOK
<1>1. IInv => TypeOK
  BY DEF IInv
<1>2. QED
  BY <1>1, InvariantHolds, PTL

\* What the walk has collected is what the extensions it has read say.
THEOREM WalkInvariant == Spec => []WalkInv
<1>1. IInv => WalkInv
  BY DEF IInv
<1>2. QED
  BY <1>1, InvariantHolds, PTL

\* The outcome is the meaning of the block, whatever the order it is read in.
THEOREM OutcomeHasMeaning == Spec => []OutcomeIsMeaning
BY InvariantHolds, InvariantGivesMeaning, PTL

\* DECISIONS.C14: encrypted_client_hello anywhere in the block hides the host.
THEOREM EchAlwaysMasks == Spec => []EchMasksHost
BY InvariantHolds, InvariantMasksHost, PTL

--------------------------------------------------------------------------------
(* The pipeline: theorems of ForkSpec. *)

\* The host that is assessed would be taken for a brand.
Squatting == Observed.kind = "cleartext" /\ IsSquat(Observed.host)

\* What the pipeline knows before each call.
PipelineInv ==
    /\ at = "parse" => assembled
    /\ at \notin {"reassemble", "parse"} => outcome = Observed
    /\ at \notin {"route", "done"} => level = None
    /\ at # "done" => path = None
    /\ at \in {"typosquat", "context", "evaluate"} => ~Trusted
    /\ at = "typosquat" => signals = {Signal("not_in_safe_cache")}
                           /\ Observed.kind = "cleartext"
    /\ at \in {"context", "evaluate"} =>
        ((\E s \in signals : s.kind = "typosquat") <=> Squatting)
    /\ at = "context" => \A s \in signals : s.kind # "risky_launch_context"
    /\ at = "evaluate" =>
        ((\E s \in signals : s.kind = "risky_launch_context") <=> parent \in Elevated)
    /\ at \in {"route", "done"} => level = PolicyLevel
    /\ at = "done" => path = IF Trusted THEN "native" ELSE "isolate"

\* Where the pipeline is.
AtOK == at \in {"reassemble", "parse", "cache", "typosquat", "context", "evaluate", "route", "done"}

\* The inductive invariant of the pipeline.
ForkInv == IInv /\ AtOK /\ PipelineInv

--------------------------------------------------------------------------------
\* Nothing in the pipeline changes the connection.
LEMMA ConnectionFixed ==
    ASSUME [AssessStep]_forkvars
    PROVE  UNCHANGED connection
<1>1. CASE Parse
  BY <1>1 DEF Parse, ParseStep, ReadPrelude, RejectAfterPsk, RejectOverrun, RejectDuplicate,
              ReadEch, ReadHost, RejectBody, ReadOther, NewType, Finish, connection, input
<1>2. CASE AssessStep /\ ~Parse
  BY <1>2 DEF AssessStep, Reassemble, Extract, CacheHit, CacheMiss, IntoSignals,
              CheckTyposquat, AssessContext, Evaluate, Route, connection, vars
<1>3. CASE UNCHANGED forkvars
  BY <1>3 DEF forkvars, vars, connection
<1>4. QED
  BY <1>1, <1>2, <1>3

\* So what a reader of the connection sees and what the policy says stay.
LEMMA PolicyFixed ==
    ASSUME UNCHANGED connection
    PROVE  /\ Observed' = Observed
           /\ Trusted' = Trusted
           /\ PolicyLevel' = PolicyLevel
           /\ Squatting' = Squatting
<1>1. Observed' = Observed
  BY DEF connection, input, Observed, Meaning, WellFormed, GoodPrelude, Present, NamesHost
<1>2. QED
  BY <1>1 DEF connection, Trusted, PolicyLevel, Squatting

\* The pipeline walks a block as ClientHello does.
LEMMA WalkKept ==
    ASSUME IInv, [AssessStep]_forkvars
    PROVE  IInv'
<1>1. [Next]_vars
  BY DEF AssessStep, Reassemble, Parse, Extract, CacheHit, CacheMiss, IntoSignals,
         CheckTyposquat, AssessContext, Evaluate, Route, forkvars, Next
<1>2. QED
  BY <1>1, InvariantStep

\* The kinds of outcome, and the policy's levels.
LEMMA PolicyLevels == PolicyLevel \in {"safe", "unknown", "suspicious", "high_risk"}
BY DEF PolicyLevel

\* The verdict is the severity of the worst signal.
LEMMA WorstSignal ==
    ASSUME NEW S
    PROVE  Worst(S) =
              IF \E s \in S : s.kind = "risky_launch_context" THEN "high_risk"
              ELSE IF \E s \in S : s.kind = "typosquat" THEN "suspicious"
              ELSE "unknown"
<1> DEFINE Top(s) == \A t \in S : Rank[Severity(t)] <= Rank[Severity(s)]
<1>1. \A s : /\ Severity(s) \in {"unknown", "suspicious", "high_risk"}
             /\ Severity(s) = "high_risk" <=> s.kind = "risky_launch_context"
             /\ Severity(s) = "suspicious" <=> s.kind = "typosquat"
  BY DEF Severity
<1>2. Rank["unknown"] = 1 /\ Rank["suspicious"] = 2 /\ Rank["high_risk"] = 3
  BY DEF Rank
<1>3. CASE S = {}
  BY <1>3 DEF Worst
<1>4. CASE S # {}
  <2>1. \E s \in S : Top(s)
    <3>1. CASE \E s \in S : s.kind = "risky_launch_context"
      BY <1>1, <1>2, <3>1
    <3>2. CASE (\A s \in S : s.kind # "risky_launch_context") /\ \E s \in S : s.kind = "typosquat"
      BY <1>1, <1>2, <3>2
    <3>3. CASE \A s \in S : s.kind # "risky_launch_context" /\ s.kind # "typosquat"
      BY <1>1, <1>2, <1>4, <3>3
    <3>4. QED
      BY <3>1, <3>2, <3>3
  <2>2. PICK w \in S : Top(w) /\ w = CHOOSE s \in S : Top(s)
    BY <2>1
  <2>3. Worst(S) = Severity(w)
    BY <1>4, <2>2 DEF Worst
  <2>4. QED
    BY <1>1, <1>2, <2>2, <2>3
<1>5. QED
  BY <1>3, <1>4

--------------------------------------------------------------------------------
\* Before the first call the pipeline knows nothing.
LEMMA PipelineStart == ForkInit => ForkInv
<1> SUFFICES ASSUME ForkInit PROVE ForkInv
  OBVIOUS
<1>1. IInv
  BY InvariantStart DEF ForkInit
<1>2. QED
  BY <1>1 DEF ForkInit, ForkInv, AtOK, PipelineInv

\* Every call keeps what the pipeline knows.
LEMMA PipelineStep ==
    ASSUME ForkInv, [AssessStep]_forkvars
    PROVE  ForkInv'
<1>0. /\ IInv /\ AtOK /\ PipelineInv /\ IInv'
      /\ UNCHANGED connection
      /\ Observed' = Observed /\ Trusted' = Trusted
      /\ PolicyLevel' = PolicyLevel /\ Squatting' = Squatting
      /\ parent' = parent /\ assembled' = assembled
  BY WalkKept, ConnectionFixed, PolicyFixed DEF ForkInv, connection
<1>1. SUFFICES AtOK' /\ PipelineInv'
  BY <1>0 DEF ForkInv
<1>2. CASE Reassemble
  BY <1>0, <1>2 DEF Reassemble, PipelineInv, AtOK, Observed
<1>3. CASE Parse
  BY <1>0, <1>3 DEF Parse, assessment, PipelineInv, AtOK
<1>4. CASE Extract
  <2>1. Outcome = Observed
    BY <1>0, <1>4, InvariantGivesMeaning DEF Extract, OutcomeIsMeaning, PipelineInv, Observed
  <2>2. QED
    BY <1>0, <1>4, <2>1 DEF Extract, PipelineInv, AtOK
<1>5. CASE CacheHit
  <2>1. Trusted
    BY <1>0, <1>5 DEF CacheHit, PipelineInv, Trusted
  <2>2. PolicyLevel = "safe"
    BY <2>1 DEF PolicyLevel
  <2>3. QED
    BY <1>0, <1>5, <2>2 DEF CacheHit, PipelineInv, AtOK
<1>6. CASE CacheMiss
  <2>1. ~Trusted /\ outcome = Observed
    BY <1>0, <1>6 DEF CacheMiss, PipelineInv, Trusted
  <2>2. QED
    BY <1>0, <1>6, <2>1 DEF CacheMiss, PipelineInv, AtOK
<1>7. CASE IntoSignals
  <2>1. ~Trusted /\ ~Squatting /\ outcome = Observed
    BY <1>0, <1>7 DEF IntoSignals, PipelineInv, Trusted, Squatting
  <2>2. Observed.kind \in {"cleartext", "encrypted", "not_found", "malformed"}
    BY DEF Observed, Meaning, Cleartext, Encrypted, NotFound, Malformed
  <2>3. \A s \in signals' : s.kind # "typosquat" /\ s.kind # "risky_launch_context"
    BY <1>7, <2>1, <2>2 DEF IntoSignals, Signal
  <2>4. QED
    BY <1>0, <1>7, <2>1, <2>3 DEF IntoSignals, PipelineInv, AtOK
<1>8. CASE CheckTyposquat
  <2>1. /\ signals = {Signal("not_in_safe_cache")} /\ outcome = Observed
        /\ Observed.kind = "cleartext" /\ ~Trusted
    BY <1>0, <1>8 DEF CheckTyposquat, PipelineInv
  <2>2. (\E s \in signals' : s.kind = "typosquat") <=> Squatting
    <3>1. CASE Squatting
      <4>1. PICK n \in DOMAIN Brands : signals' = signals \cup {Typosquat(outcome.host, n)}
        BY <1>8, <2>1, <3>1 DEF CheckTyposquat, Squatting
      <4>2. Typosquat(outcome.host, n).kind = "typosquat"
        BY DEF Typosquat
      <4>3. QED
        BY <3>1, <4>1, <4>2
    <3>2. CASE ~Squatting
      <4>1. signals' = {Signal("not_in_safe_cache")}
        BY <1>8, <2>1, <3>2 DEF CheckTyposquat, Squatting
      <4>2. QED
        BY <3>2, <4>1 DEF Signal
    <3>3. QED
      BY <3>1, <3>2
  <2>3. \A s \in signals' : s.kind # "risky_launch_context"
    BY <1>8, <2>1 DEF CheckTyposquat, Signal, Typosquat
  <2>4. QED
    BY <1>0, <1>8, <2>1, <2>2, <2>3 DEF CheckTyposquat, PipelineInv, AtOK
<1>9. CASE AssessContext
  <2>1. /\ (\E s \in signals : s.kind = "typosquat") <=> Squatting
        /\ \A s \in signals : s.kind # "risky_launch_context"
    BY <1>0, <1>9 DEF AssessContext, PipelineInv
  <2>2. /\ signals \subseteq signals'
        /\ \A s \in signals' : s \in signals \/ s = Signal("risky_launch_context")
    BY <1>9 DEF AssessContext
  <2>3. (\E s \in signals' : s.kind = "typosquat") <=> Squatting
    <3>1. Signal("risky_launch_context").kind # "typosquat"
      BY DEF Signal
    <3>2. QED
      BY <2>1, <2>2, <3>1
  <2>4. (\E s \in signals' : s.kind = "risky_launch_context") <=> parent \in Elevated
    <3>1. CASE parent \in Elevated
      <4>1. Signal("risky_launch_context") \in signals'
        BY <1>9, <3>1 DEF AssessContext
      <4>2. QED
        BY <3>1, <4>1 DEF Signal
    <3>2. CASE parent \notin Elevated
      <4>1. signals' = signals
        BY <1>9, <3>2 DEF AssessContext
      <4>2. QED
        BY <2>1, <3>2, <4>1
    <3>3. QED
      BY <3>1, <3>2
  <2>5. QED
    BY <1>0, <1>9, <2>3, <2>4 DEF AssessContext, PipelineInv, AtOK
<1>10. CASE Evaluate
  <2>1. /\ (\E s \in signals : s.kind = "typosquat") <=> Squatting
        /\ (\E s \in signals : s.kind = "risky_launch_context") <=> parent \in Elevated
        /\ ~Trusted
    BY <1>0, <1>10 DEF Evaluate, PipelineInv
  <2>2. Worst(signals) = PolicyLevel
    BY <2>1, WorstSignal DEF PolicyLevel, Squatting
  <2>3. QED
    BY <1>0, <1>10, <2>2 DEF Evaluate, PipelineInv, AtOK
<1>11. CASE Route
  <2>1. level = PolicyLevel
    BY <1>0, <1>11 DEF Route, PipelineInv
  <2>2. level = "safe" <=> Trusted
    BY <2>1 DEF PolicyLevel
  <2>3. QED
    BY <1>0, <1>11, <2>1, <2>2 DEF Route, PipelineInv, AtOK
<1>12. CASE UNCHANGED forkvars
  BY <1>0, <1>12 DEF forkvars, assessment, PipelineInv, AtOK
<1>13. QED
  BY <1>2, <1>3, <1>4, <1>5, <1>6, <1>7, <1>8, <1>9, <1>10, <1>11, <1>12 DEF AssessStep

\* The pipeline knows all this in every state.
THEOREM PipelineInvariant == ForkSpec => []ForkInv
<1>1. ForkInv /\ [AssessStep]_forkvars => ForkInv'
  BY PipelineStep
<1>2. QED
  BY <1>1, PipelineStart, PTL DEF ForkSpec

--------------------------------------------------------------------------------
\* A call of the pipeline is a step of the policy, or none.
LEMMA StepIsPolicyStep ==
    ASSUME ForkInv, ForkInv', [AssessStep]_forkvars
    PROVE  [Judge \/ TakePath]_policyvars
<1>0. /\ UNCHANGED connection /\ PolicyLevel' = PolicyLevel /\ Trusted' = Trusted
      /\ PipelineInv /\ PipelineInv' /\ AtOK
  BY ConnectionFixed, PolicyFixed DEF ForkInv
<1>1. CASE CacheHit \/ Evaluate
  <2>1. at \in {"cache", "evaluate"} /\ at' = "route" /\ UNCHANGED path
    BY <1>1 DEF CacheHit, Evaluate
  <2>2. level = None /\ level' = PolicyLevel
    BY <1>0, <2>1 DEF PipelineInv
  <2>3. QED
    BY <1>0, <2>1, <2>2 DEF Judge
<1>2. CASE Route
  <2>1. at = "route" /\ at' = "done" /\ UNCHANGED level
    BY <1>2 DEF Route
  <2>2. path = None /\ level = PolicyLevel /\ path' = IF Trusted THEN "native" ELSE "isolate"
    BY <1>0, <2>1 DEF PipelineInv
  <2>3. level # None
    BY <2>2, PolicyLevels, HeuristicsAssumption
  <2>4. QED
    BY <1>0, <2>1, <2>2, <2>3 DEF TakePath
<1>3. CASE \/ Reassemble \/ Parse \/ Extract \/ CacheMiss \/ IntoSignals
           \/ CheckTyposquat \/ AssessContext \/ UNCHANGED forkvars
  <2>1. UNCHANGED <<level, path>>
    BY <1>3 DEF Reassemble, Parse, Extract, CacheMiss, IntoSignals, CheckTyposquat,
                AssessContext, forkvars, assessment
  <2>2. QED
    BY <1>0, <2>1 DEF policyvars
<1>4. QED
  BY <1>1, <1>2, <1>3 DEF AssessStep

\* The pipeline implements the policy: whatever the order of extensions and
\* of heuristics, the path is the one that the whole connection calls for.
THEOREM ImplementsPolicy == ForkSpec => PolicySpec
<1>1. ForkInit => PolicyInit
  BY DEF ForkInit, Init, PolicyInit
<1>2. ForkInv /\ ForkInv' /\ [AssessStep]_forkvars => [Judge \/ TakePath]_policyvars
  BY StepIsPolicyStep
<1>3. QED
  BY <1>1, <1>2, PipelineInvariant, PTL DEF ForkSpec, PolicySpec

\* Condition A of the fork (docs/PRD.md): the native path is for a host that
\* the ClientHello shows and the allow-cache holds.
THEOREM NativePathIsTrusted == ForkSpec => []NativeIsVisibleAndCached
<1>1. ForkInv => NativeIsVisibleAndCached
  <2> SUFFICES ASSUME ForkInv, path = "native" PROVE NativeIsVisibleAndCached
    BY DEF NativeIsVisibleAndCached
  <2>1. Trusted
    BY HeuristicsAssumption DEF ForkInv, PipelineInv
  <2>2. assembled /\ Meaning.kind = "cleartext" /\ HostInCache(Meaning.host)
    BY <2>1 DEF Trusted, Observed, Malformed
  <2>3. /\ WellFormed /\ ~Present(ECH) /\ \E h \in Hosts : NamesHost(h)
        /\ Meaning = Cleartext(CHOOSE h \in Hosts : NamesHost(h))
    BY <2>2 DEF Meaning, Malformed, Encrypted, NotFound
  <2>4. PICK h \in Hosts : NamesHost(h) /\ h = CHOOSE g \in Hosts : NamesHost(g)
    BY <2>3
  <2>5. Meaning.host = h
    BY <2>3, <2>4 DEF Cleartext
  <2>6. QED
    BY <2>2, <2>3, <2>4, <2>5 DEF NativeIsVisibleAndCached
<1>2. QED
  BY <1>1, PipelineInvariant, PTL

--------------------------------------------------------------------------------
(* The evidence. *)

\* Signals are told apart by their kind, and those of a brand by the brand.
LEMMA SignalsApart ==
    /\ \A k, l : Signal(k) = Signal(l) <=> k = l
    /\ \A k, h, n : k # "typosquat" => Signal(k) # Typosquat(h, n)
    /\ \A g, h, m, n : Typosquat(g, m) = Typosquat(h, n) => m = n
<1>1. /\ \A k : Signal(k).kind = k
      /\ \A h, n : Typosquat(h, n).kind = "typosquat" /\ Typosquat(h, n).looks_like = n
  BY DEF Signal, Typosquat
<1>2. QED
  BY <1>1

\* What a reader of the connection sees is an outcome.
LEMMA ObservedIsOutcome == Observed \in Outcomes
<1>1. CASE (\E h \in Hosts : NamesHost(h))
  <2>1. (CHOOSE h \in Hosts : NamesHost(h)) \in Hosts
    BY <1>1
  <2>2. QED
    BY <2>1 DEF Observed, Meaning, Outcomes
<1>2. CASE ~(\E h \in Hosts : NamesHost(h))
  BY <1>2 DEF Observed, Meaning, Outcomes
<1>3. QED
  BY <1>1, <1>2

\* The types, kept by every call.
LEMMA ForkTypesKept ==
    ASSUME ForkInv, ForkTypeOK, [AssessStep]_forkvars
    PROVE  ForkTypeOK'
<1>0. /\ PipelineInv /\ AtOK' /\ parent' = parent /\ assembled' = assembled
  BY PipelineStep, ConnectionFixed DEF ForkInv, connection
<1>1. CASE Reassemble
  BY <1>0, <1>1 DEF Reassemble, ForkTypeOK, AtOK, Outcomes
<1>2. CASE Parse
  BY <1>0, <1>2 DEF Parse, assessment, ForkTypeOK, AtOK
<1>3. CASE Extract
  <2>1. outcome' = Observed
    BY <1>3, InvariantGivesMeaning DEF Extract, ForkInv, OutcomeIsMeaning, PipelineInv, Observed
  <2>2. QED
    BY <1>0, <1>3, <2>1, ObservedIsOutcome DEF Extract, ForkTypeOK, AtOK
<1>4. CASE CacheHit
  BY <1>0, <1>4 DEF CacheHit, ForkTypeOK, AtOK, Rank
<1>5. CASE CacheMiss
  <2>1. signals' \subseteq SignalSet
    BY <1>5 DEF CacheMiss, Signal, SignalSet, SignalKinds
  <2>2. QED
    BY <1>0, <1>5, <2>1 DEF CacheMiss, ForkTypeOK, AtOK
<1>6. CASE IntoSignals
  <2>1. outcome = Observed /\ outcome.kind # "cleartext"
    BY <1>0, <1>6 DEF IntoSignals, PipelineInv
  <2>2. outcome.kind \in {"encrypted", "not_found", "malformed"}
    BY <2>1, ObservedIsOutcome DEF Outcomes, Cleartext, Encrypted, NotFound, Malformed
  <2>3. signals' \subseteq SignalSet
    BY <1>6, <2>2 DEF IntoSignals, Signal, SignalSet, SignalKinds
  <2>4. QED
    BY <1>0, <1>6, <2>3 DEF IntoSignals, ForkTypeOK, AtOK
<1>7. CASE CheckTyposquat
  <2>1. outcome = Observed /\ outcome.kind = "cleartext"
    BY <1>0, <1>7 DEF CheckTyposquat, PipelineInv
  <2>2. outcome.host \in Hosts
    BY <2>1, ObservedIsOutcome DEF Outcomes, Cleartext, Encrypted, NotFound, Malformed
  <2>3. \A n \in DOMAIN Brands : Typosquat(outcome.host, n) \in SignalSet
    BY <2>2 DEF Typosquat, SignalSet
  <2>4. signals' \subseteq SignalSet
    BY <1>7, <2>3 DEF CheckTyposquat, ForkTypeOK
  <2>5. QED
    BY <1>0, <1>7, <2>4 DEF CheckTyposquat, ForkTypeOK, AtOK
<1>8. CASE AssessContext
  <2>1. signals' \subseteq SignalSet
    BY <1>8 DEF AssessContext, ForkTypeOK, Signal, SignalSet, SignalKinds
  <2>2. QED
    BY <1>0, <1>8, <2>1 DEF AssessContext, ForkTypeOK, AtOK
<1>9. CASE Evaluate
  BY <1>0, <1>9, WorstSignal DEF Evaluate, ForkTypeOK, AtOK, Rank
<1>10. CASE Route
  BY <1>0, <1>10 DEF Route, ForkTypeOK, AtOK
<1>11. CASE UNCHANGED forkvars
  BY <1>11 DEF forkvars, assessment, ForkTypeOK
<1>12. QED
  BY <1>1, <1>2, <1>3, <1>4, <1>5, <1>6, <1>7, <1>8, <1>9, <1>10, <1>11 DEF AssessStep

\* The pipeline's state stays in its types.
THEOREM ForkTypeCorrect == ForkSpec => []ForkTypeOK
<1>1. ForkInit => ForkTypeOK
  BY DEF ForkInit, ForkTypeOK
<1>2. ForkInv /\ ForkTypeOK /\ [AssessStep]_forkvars => ForkTypeOK'
  BY ForkTypesKept
<1>3. QED
  BY <1>1, <1>2, PipelineInvariant, PTL DEF ForkSpec

--------------------------------------------------------------------------------
Named(n) == \E h \in Hosts : Typosquat(h, n) \in signals

\* What is gathered of the host, or of its absence.
Gathered ==
    /\ Observed.kind = "cleartext" <=> Signal("not_in_safe_cache") \in signals
    /\ Observed.kind # "cleartext" => Signal(Observed.kind) \in signals
    /\ \A n \in DOMAIN Brands : Named(n) <=> Squatting /\ Nearest(Observed.host, n)

\* From the launch context on, an untrusted connection has its evidence.
EvidenceInv ==
    ~Trusted =>
        /\ at \in {"context", "evaluate", "route", "done"} => Gathered
        /\ at = "context" => Signal("risky_launch_context") \notin signals
        /\ at \in {"evaluate", "route", "done"} =>
            (parent \in Elevated <=> Signal("risky_launch_context") \in signals)

\* Of two nearest brands the first is the one.
LEMMA NearestIsUnique ==
    ASSUME NEW h \in Hosts, NEW m, NEW n, Nearest(h, m), Nearest(h, n)
    PROVE  m = n
<1>1. m \in DOMAIN Brands /\ n \in DOMAIN Brands /\ DOMAIN Brands \subseteq Nat
  <2>1. Brands \in Seq(Hosts) => DOMAIN Brands = 1..Len(Brands) /\ Len(Brands) \in Nat
    OBVIOUS
  <2>2. DOMAIN Brands \subseteq Nat
    BY <2>1, HeuristicsAssumption
  <2>3. QED
    BY <2>2 DEF Nearest, Near
<1>2. Distance[h][m] \in Nat /\ Distance[h][n] \in Nat
  BY <1>1, HeuristicsAssumption
<1>3. /\ Distance[h][m] < Distance[h][n] \/ (Distance[h][m] = Distance[h][n] /\ m <= n)
      /\ Distance[h][n] < Distance[h][m] \/ (Distance[h][n] = Distance[h][m] /\ n <= m)
  BY DEF Nearest
<1>4. QED
  BY <1>1, <1>2, <1>3

\* Of a connection without a host, the reason why.
LEMMA ReasonGathered ==
    ASSUME ForkInv, IntoSignals, Observed' = Observed, Squatting' = Squatting
    PROVE  Gathered' /\ Signal("risky_launch_context") \notin signals'
<1>1. /\ signals' = {Signal(Observed.kind)} /\ Observed.kind # "cleartext"
      /\ Observed.kind \in {"encrypted", "not_found", "malformed"}
  BY ObservedIsOutcome DEF IntoSignals, ForkInv, PipelineInv, Outcomes, Cleartext, Encrypted,
     NotFound, Malformed
<1>2. Signal("not_in_safe_cache") \notin signals' /\ Signal("risky_launch_context") \notin signals'
  BY <1>1, SignalsApart
<1>3. ~Squatting /\ \A n : ~Named(n)'
  BY <1>1, SignalsApart DEF Squatting, Named
<1>4. QED
  BY <1>1, <1>2, <1>3 DEF Gathered

\* Of a host that is not in the cache, that, and the nearest brand.
LEMMA SquatGathered ==
    ASSUME ForkInv, CheckTyposquat, Observed' = Observed, Squatting' = Squatting
    PROVE  Gathered' /\ Signal("risky_launch_context") \notin signals'
<1>1. /\ signals = {Signal("not_in_safe_cache")} /\ outcome = Observed
      /\ Observed.kind = "cleartext" /\ Observed.host \in Hosts
  BY ObservedIsOutcome DEF CheckTyposquat, ForkInv, PipelineInv, Outcomes, Cleartext, Encrypted,
     NotFound, Malformed
<1>2. CASE Squatting
  <2>1. PICK n \in DOMAIN Brands :
            /\ Nearest(Observed.host, n)
            /\ signals' = {Signal("not_in_safe_cache"), Typosquat(Observed.host, n)}
    BY <1>1, <1>2 DEF CheckTyposquat, Squatting
  <2>2. /\ Signal("not_in_safe_cache") \in signals'
        /\ Signal("risky_launch_context") \notin signals'
    BY <2>1, SignalsApart
  <2>3. \A m \in DOMAIN Brands : Named(m)' <=> Nearest(Observed.host, m)
    <3>1. \A m \in DOMAIN Brands : Named(m)' <=> m = n
      BY <1>1, <2>1, SignalsApart DEF Named
    <3>2. \A m \in DOMAIN Brands : Nearest(Observed.host, m) <=> m = n
      BY <1>1, <2>1, NearestIsUnique
    <3>3. QED
      BY <3>1, <3>2
  <2>4. QED
    BY <1>1, <1>2, <2>2, <2>3 DEF Gathered
<1>3. CASE ~Squatting
  <2>1. signals' = {Signal("not_in_safe_cache")}
    BY <1>1, <1>3 DEF CheckTyposquat, Squatting
  <2>2. Signal("risky_launch_context") \notin signals' /\ \A n : ~Named(n)'
    BY <2>1, SignalsApart DEF Named
  <2>3. QED
    BY <1>1, <1>3, <2>1, <2>2 DEF Gathered
<1>4. QED
  BY <1>2, <1>3

\* The launch context adds to what there is.
LEMMA ContextAdds ==
    ASSUME AssessContext, Gathered, Observed' = Observed, Squatting' = Squatting
    PROVE  Gathered'
<1>1. /\ signals \subseteq signals'
      /\ \A s \in signals' : s \in signals \/ s = Signal("risky_launch_context")
  BY DEF AssessContext
<1>2. Signal("not_in_safe_cache") \in signals' <=> Signal("not_in_safe_cache") \in signals
  BY <1>1, SignalsApart
<1>3. \A n : Named(n)' <=> Named(n)
  BY <1>1, SignalsApart DEF Named
<1>4. QED
  BY <1>1, <1>2, <1>3 DEF Gathered

\* Every call keeps the evidence.
LEMMA EvidenceStep ==
    ASSUME ForkInv, EvidenceInv, [AssessStep]_forkvars
    PROVE  EvidenceInv'
<1>0. /\ Observed' = Observed /\ Trusted' = Trusted /\ Squatting' = Squatting
      /\ parent' = parent /\ AtOK /\ PipelineInv
  BY PolicyFixed, ConnectionFixed DEF ForkInv, connection
<1>1. SUFFICES ASSUME ~Trusted PROVE EvidenceInv'
  BY <1>0 DEF EvidenceInv
<1>2. CASE Reassemble \/ Parse \/ Extract \/ CacheMiss
  <2>1. at' \in {"reassemble", "parse", "cache", "typosquat"}
    BY <1>2 DEF Reassemble, Parse, assessment, Extract, CacheMiss
  <2>2. QED
    BY <1>0, <2>1 DEF EvidenceInv
<1>3. CASE CacheHit
  BY <1>0, <1>1, <1>3 DEF CacheHit, PipelineInv, Trusted
<1>4. CASE IntoSignals
  BY <1>0, <1>4, ReasonGathered DEF IntoSignals, EvidenceInv
<1>5. CASE CheckTyposquat
  BY <1>0, <1>5, SquatGathered DEF CheckTyposquat, EvidenceInv
<1>6. CASE AssessContext
  <2>1. Gathered' /\ Signal("risky_launch_context") \notin signals
    BY <1>0, <1>1, <1>6, ContextAdds DEF AssessContext, EvidenceInv
  <2>2. parent \in Elevated <=> Signal("risky_launch_context") \in signals'
    BY <1>6, <2>1 DEF AssessContext
  <2>3. QED
    BY <1>0, <1>6, <2>1, <2>2 DEF AssessContext, EvidenceInv
<1>7. CASE Evaluate \/ Route \/ UNCHANGED forkvars
  <2>1. /\ signals' = signals
        /\ \/ at' = at
           \/ at \in {"evaluate", "route"} /\ at' \in {"route", "done"}
    BY <1>7 DEF Evaluate, Route, forkvars, assessment
  <2>2. Gathered' <=> Gathered
    BY <1>0, <2>1 DEF Gathered, Named
  <2>3. QED
    BY <1>0, <1>1, <2>1, <2>2 DEF EvidenceInv
<1>8. QED
  BY <1>2, <1>3, <1>4, <1>5, <1>6, <1>7 DEF AssessStep

\* A connection on the isolate path carries its whole evidence, and of the brands
\* the nearest only.
THEOREM EvidenceIsComplete == ForkSpec => []EvidenceComplete
<1>1. ForkInit => EvidenceInv
  BY DEF ForkInit, EvidenceInv
<1>2. ForkInv /\ EvidenceInv /\ [AssessStep]_forkvars => EvidenceInv'
  BY EvidenceStep
<1>3. ForkInv /\ EvidenceInv => EvidenceComplete
  <2> SUFFICES ASSUME ForkInv, EvidenceInv, at = "done", path = "isolate" PROVE EvidenceComplete
    BY DEF EvidenceComplete
  <2>1. ~Trusted
    BY DEF ForkInv, PipelineInv
  <2>2. Gathered /\ (parent \in Elevated <=> Signal("risky_launch_context") \in signals)
    BY <2>1 DEF EvidenceInv
  <2>3. QED
    BY <2>2 DEF EvidenceComplete, Gathered, Named, Squatting
<1>4. QED
  BY <1>1, <1>2, <1>3, PipelineInvariant, PTL DEF ForkSpec

================================================================================
