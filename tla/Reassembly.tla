------------------------------ MODULE Reassembly -------------------------------
(***************************************************************************)
(* reassemble_handshake of crates/aegiuw-core/src/sni.rs: the fast path    *)
(* for one record, then the loop that walks the records and accumulates    *)
(* their fragments.  The loop has one action per way an iteration can go.  *)
(*                                                                         *)
(* The caller accumulates bytes until the handshake is there ("No          *)
(* streaming", the module's input expectations) and calls again on the     *)
(* longer slice: Deliver is that caller.                                   *)
(***************************************************************************)
EXTENDS HandshakeContract

VARIABLES
    torn,  \* the slice ends inside record arrived + 1
    pc,    \* "fast": try_reassemble_single_record; "slow": the loop; "done"
    pos,   \* records the cursor has consumed
    buf,   \* handshake_buf.len()
    need   \* expected_total

vars == <<wire, arrived, answer, torn, pc, pos, buf, need>>

--------------------------------------------------------------------------------
Init ==
    /\ ContractInit
    /\ torn \in BOOLEAN
    /\ torn => arrived < Records
    /\ pc = "fast"
    /\ pos = 0
    /\ buf = 0
    /\ need = None

Return(value) ==
    /\ pc' = "done"
    /\ answer' = value

\* Mutant: the fast path does not look at the content type.
AnyFirstRecord ==
    /\ arrived >= 1
    /\ Fragment(1) \in HeaderLen..MaxRecordFragment
    /\ Total <= MaxHandshakeBytes
    /\ Total <= Fragment(1)

\* The first record is a handshake record that holds the whole handshake.
SingleRecord ==
    /\ arrived >= 1
    /\ hs[1]
    /\ Fragment(1) \in HeaderLen..MaxRecordFragment
    /\ Total <= MaxHandshakeBytes
    /\ Total <= Fragment(1)

FastHit ==
    /\ pc = "fast"
    /\ SingleRecord
    /\ Return(Total)
    /\ UNCHANGED <<wire, arrived, torn, pos, buf, need>>

FastMiss ==
    /\ pc = "fast"
    /\ ~SingleRecord
    /\ pc' = "slow"
    /\ pos' = 0
    /\ buf' = 0
    /\ need' = None
    /\ UNCHANGED <<wire, arrived, answer, torn>>

\* Mutant: what has been read so far is returned.
ReturnPartial ==
    /\ pc = "slow"
    /\ pos = arrived
    /\ Return(IF buf < HeaderLen THEN None ELSE buf)
    /\ UNCHANGED <<wire, arrived, torn, pos, buf, need>>

\* The slice is exhausted: the loop ends, or a `?' in the torn record fires.
RejectIncomplete ==
    /\ pc = "slow"
    /\ pos = arrived
    /\ Return(None)
    /\ UNCHANGED <<wire, arrived, torn, pos, buf, need>>

\* The loop reads record pos + 1, which is in the slice entirely.
Reading == pc = "slow" /\ pos < arrived

RejectContentType ==
    /\ Reading
    /\ ~hs[pos + 1]
    /\ Return(None)
    /\ UNCHANGED <<wire, arrived, torn, pos, buf, need>>

RejectOversizeRecord ==
    /\ Reading
    /\ hs[pos + 1]
    /\ Fragment(pos + 1) > MaxRecordFragment
    /\ Return(None)
    /\ UNCHANGED <<wire, arrived, torn, pos, buf, need>>

\* Mutant: the cursor does not move past an empty record.
StallOnEmptyRecord ==
    /\ Reading
    /\ hs[pos + 1]
    /\ Fragment(pos + 1) = 0
    /\ UNCHANGED vars

SkipEmptyRecord ==
    /\ Reading
    /\ hs[pos + 1]
    /\ Fragment(pos + 1) = 0
    /\ pos' = pos + 1
    /\ UNCHANGED <<wire, arrived, answer, torn, pc, buf, need>>

\* Mutant: a record of any size is appended.
AppendingAnySize ==
    /\ Reading
    /\ hs[pos + 1]
    /\ Fragment(pos + 1) > 0

\* The fragment is appended to handshake_buf before the new length is checked.
Appending ==
    /\ Reading
    /\ hs[pos + 1]
    /\ Fragment(pos + 1) \in 1..MaxRecordFragment

\* handshake_buf.len() once the fragment is in.
Extended == buf + Fragment(pos + 1)

\* expected_total once the fragment is in.
NeedAfter ==
    IF need = None /\ Extended >= HeaderLen THEN Total ELSE need

RejectOverCap ==
    /\ Appending
    /\ Extended > MaxHandshakeBytes
    /\ pos' = pos + 1
    /\ buf' = Extended
    /\ Return(None)
    /\ UNCHANGED <<wire, arrived, torn, need>>

RejectClaim ==
    /\ Appending
    /\ Extended <= MaxHandshakeBytes
    /\ need = None
    /\ NeedAfter # None /\ NeedAfter > MaxHandshakeBytes
    /\ pos' = pos + 1
    /\ buf' = Extended
    /\ Return(None)
    /\ UNCHANGED <<wire, arrived, torn, need>>

\* The new length and the claim, once known, are under the cap.
Admitted ==
    /\ Appending
    /\ Extended <= MaxHandshakeBytes
    /\ NeedAfter # None => NeedAfter <= MaxHandshakeBytes

\* Mutant: what follows the handshake in the buffer is returned with it.
CompleteWithoutTruncate ==
    /\ Admitted
    /\ NeedAfter # None /\ Extended >= NeedAfter
    /\ pos' = pos + 1
    /\ need' = NeedAfter
    /\ buf' = Extended
    /\ Return(Extended)
    /\ UNCHANGED <<wire, arrived, torn>>

Complete ==
    /\ Admitted
    /\ NeedAfter # None /\ Extended >= NeedAfter
    /\ pos' = pos + 1
    /\ need' = NeedAfter
    /\ buf' = NeedAfter  \* truncate(need)
    /\ Return(NeedAfter)
    /\ UNCHANGED <<wire, arrived, torn>>

Accumulate ==
    /\ Admitted
    /\ NeedAfter # None => Extended < NeedAfter
    /\ pos' = pos + 1
    /\ need' = NeedAfter
    /\ buf' = Extended
    /\ UNCHANGED <<wire, arrived, answer, torn, pc>>

CallStep ==
    \/ FastHit \/ FastMiss
    \/ RejectIncomplete \/ RejectContentType \/ RejectOversizeRecord
    \/ SkipEmptyRecord \/ RejectOverCap \/ RejectClaim
    \/ Complete \/ Accumulate

\* The caller reads more of the connection and calls again.
Deliver ==
    /\ pc = "done"
    /\ arrived' \in arrived..Records
    /\ torn' \in BOOLEAN
    /\ torn' => arrived' < Records
    /\ arrived' > arrived \/ (torn' /\ ~torn)
    /\ pc' = "fast"
    /\ UNCHANGED <<wire, answer, pos, buf, need>>

Next == CallStep \/ Deliver

Spec == Init /\ [][Next]_vars

\* reassemble_handshake is straight-line code on one thread with no I/O, so a
\* call that has begun goes on; nothing is assumed of the connection.
FairSpec == Spec /\ WF_vars(CallStep)

--------------------------------------------------------------------------------
TypeOK ==
    /\ cut \in Cuts
    /\ hs \in [1..Records -> BOOLEAN]
    /\ claim \in Claims
    /\ arrived \in 0..Records
    /\ answer \in (HeaderLen..MaxHandshakeBytes) \cup {None}
    /\ torn \in BOOLEAN
    /\ pc \in {"fast", "slow", "done"}
    /\ pos \in 0..Records
    /\ buf \in Nat
    /\ need \in (HeaderLen..MaxHandshakeBytes) \cup {None}

\* While the loop runs, handshake_buf holds the payload of the records read,
\* all of them acceptable and none of them completing the handshake, and
\* expected_total is known exactly when the header is in the buffer.
LoopInv ==
    pc = "slow" =>
        /\ pos <= arrived
        /\ Assemblable(pos)
        /\ buf = cut[pos]
        /\ buf < MaxHandshakeBytes
        /\ need = IF buf < HeaderLen THEN None ELSE Total
        /\ need # None => buf < need /\ need <= MaxHandshakeBytes

\* A call returns what the contract promises for the records in the slice,
\* whichever path it took through the fast path and the loop.
AnswerIsPromise == pc = "done" => answer = Promise(arrived)

\* An answer, once given, is what the contract promises for the slice as it is
\* now, however much has been delivered since.
AnswerHolds == answer # None => answer = Promise(arrived)

\* handshake_buf outgrows the cap by less than one record: the append comes
\* before the check, but the record's own length was checked first and a
\* buffer that is already full has returned.
BufferBound == buf < MaxHandshakeBytes + MaxRecordFragment

\* Once a call has returned a handshake, every later call on a longer slice
\* returns the same one: the records that follow cannot change it.
AnswerStable == [][answer # None => answer' = answer]_vars

\* Every call returns, empty records included.
CallReturns == pc # "done" ~> pc = "done"

================================================================================
