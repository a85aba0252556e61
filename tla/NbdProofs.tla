------------------------------ MODULE NbdProofs ------------------------------
(***************************************************************************)
(* Proofs about the two things a qemu-nbd session is made of (its life is  *)
(* in NbdSessionProofs).                                                   *)
(*                                                                         *)
(* The permits: for every finite set of sessions and every assignment of   *)
(* limits to them the counter is the number of holders, and it stays       *)
(* within the largest limit.                                               *)
(*                                                                         *)
(* The wire protocol, for every set of export sizes and every              *)
(* bound on reads and requests: StreamInv is inductive, and a read that    *)
(* succeeds returns its own bytes, however many earlier reads were given   *)
(* up with their replies still in the stream.                              *)
(***************************************************************************)
EXTENDS NbdPermit, NbdStream, FiniteSetTheorems, SequenceTheorems, TLAPS

(***************************************************************************)
(* The permits.                                                            *)
(***************************************************************************)

\* Every step keeps the types of the permit counter and of the sessions' states.
THEOREM PermitTypeOK == PermitSpec => []PermitTypes
<1>1. PermitInit => PermitTypes
  <2> SUFFICES ASSUME PermitInit PROVE PermitTypes
    OBVIOUS
  <2>1. count \in Nat /\ stage \in [Sessions -> Stages]
    BY DEF PermitInit, Stages
  <2>2. late \in [Sessions -> BOOLEAN] /\ token \in BOOLEAN
    BY Zenon DEF PermitInit
  <2> QED BY <2>1, <2>2 DEF PermitTypes
<1>2. PermitTypes /\ [PermitNext]_permitVars => PermitTypes'
  <2> SUFFICES ASSUME PermitTypes, [PermitNext]_permitVars PROVE PermitTypes'
    OBVIOUS
  <2> USE DEF PermitTypes, Goto, Stages
  <2>1. ASSUME NEW s \in Sessions, Ask(s) PROVE PermitTypes'
    BY <2>1 DEF Ask
  <2>2. ASSUME NEW s \in Sessions, Take(s) PROVE PermitTypes'
    BY <2>2 DEF Take
  <2>3. ASSUME NEW s \in Sessions, GiveUp(s) PROVE PermitTypes'
    BY <2>3 DEF GiveUp
  <2>4. ASSUME NEW s \in Sessions, Wait(s) PROVE PermitTypes'
    BY <2>4 DEF Wait
  <2>5. ASSUME NEW s \in Sessions, WaitTimesOut(s) PROVE PermitTypes'
    BY <2>5 DEF WaitTimesOut
  <2>6. ASSUME NEW s \in Sessions, DropPermit(s) PROVE PermitTypes'
    BY <2>6 DEF DropPermit, Waiters
  <2>7. ASSUME NEW s \in Sessions, DeadlinePasses(s) PROVE PermitTypes'
    BY <2>7 DEF DeadlinePasses
  <2>8. CASE Cancel
    BY <2>8 DEF Cancel
  <2>9. CASE UNCHANGED permitVars
    BY <2>9 DEF permitVars
  <2> QED
    BY <2>1, <2>2, <2>3, <2>4, <2>5, <2>6, <2>7, <2>8, <2>9
       DEF PermitNext, AcquireStep
<1> QED
  BY <1>1, <1>2, PTL DEF PermitSpec

-----------------------------------------------------------------------------

\* The holders are a finite set, so their number is a natural number.
LEMMA HoldersFinite ==
  IsFiniteSet(Holders) /\ Cardinality(Holders) \in Nat
<1>1. Holders \subseteq Sessions
  BY DEF Holders
<1> QED
  BY <1>1, PermitAssumption, FS_Subset, FS_CardinalityType

\* One permit more: the count grows with the set of holders when a session
\* takes a permit.
LEMMA TakeCounts ==
  ASSUME PermitTypes, PermitAccounting, NEW s \in Sessions, Take(s)
  PROVE  PermitAccounting'
<1>1. s \notin Holders /\ Holders' = Holders \cup {s}
  BY DEF Take, Goto, Holders, PermitTypes
<1>2. Cardinality(Holders \cup {s}) = Cardinality(Holders) + 1
  BY <1>1, HoldersFinite, FS_AddElement
<1> QED
  BY <1>1, <1>2 DEF Take, PermitAccounting

\* One permit less: Drop removes the session from the holders, wakes at most one
\* waiter, and the saturating subtraction does not saturate.
LEMMA DropCounts ==
  ASSUME PermitTypes, PermitAccounting, NEW s \in Sessions, DropPermit(s)
  PROVE  PermitAccounting'
<1>1. s \in Holders /\ Holders' = Holders \ {s}
  BY DEF DropPermit, Goto, Holders, Waiters, PermitTypes
<1>2. Cardinality(Holders \ {s}) = Cardinality(Holders) - 1
  BY <1>1, HoldersFinite, FS_RemoveElement
<1>3. Cardinality(Holders) # 0
  BY <1>1, HoldersFinite, FS_EmptySet
<1>4. count' = count - 1
  BY <1>3, HoldersFinite DEF DropPermit, PermitAccounting
<1> QED
  BY <1>1, <1>2, <1>4 DEF PermitAccounting

\* The permit counter is the number of sessions that hold a permit, whatever
\* limits the sessions bring: acquire and Drop never lose or invent a permit.
THEOREM PermitsAccounted == PermitSpec => []PermitAccounting
<1>1. PermitInit => PermitAccounting
  <2> SUFFICES ASSUME PermitInit PROVE PermitAccounting
    OBVIOUS
  <2>1. Holders = {}
    BY DEF PermitInit, Holders
  <2> QED
    BY <2>1, FS_EmptySet DEF PermitInit, PermitAccounting
<1>2. PermitTypes /\ PermitAccounting /\ [PermitNext]_permitVars => PermitAccounting'
  <2> SUFFICES ASSUME PermitTypes, PermitAccounting, [PermitNext]_permitVars
               PROVE  PermitAccounting'
    OBVIOUS
  <2>1. ASSUME Holders' = Holders, count' = count PROVE PermitAccounting'
    BY <2>1 DEF PermitAccounting
  <2>2. ASSUME NEW s \in Sessions, Ask(s) PROVE PermitAccounting'
    <3>1. Holders' = Holders
      BY <2>2 DEF Ask, Goto, Holders, PermitTypes
    <3> QED BY <2>1, <2>2, <3>1 DEF Ask
  <2>3. ASSUME NEW s \in Sessions, GiveUp(s) PROVE PermitAccounting'
    <3>1. Holders' = Holders
      BY <2>3 DEF GiveUp, Goto, Holders, PermitTypes
    <3> QED BY <2>1, <2>3, <3>1 DEF GiveUp
  <2>4. ASSUME NEW s \in Sessions, Wait(s) PROVE PermitAccounting'
    <3>1. Holders' = Holders
      BY <2>4 DEF Wait, Goto, Holders, PermitTypes
    <3> QED BY <2>1, <2>4, <3>1 DEF Wait
  <2>5. ASSUME NEW s \in Sessions, WaitTimesOut(s) PROVE PermitAccounting'
    <3>1. Holders' = Holders
      BY <2>5 DEF WaitTimesOut, Goto, Holders, PermitTypes
    <3> QED BY <2>1, <2>5, <3>1 DEF WaitTimesOut
  <2>6. ASSUME NEW s \in Sessions, DeadlinePasses(s) PROVE PermitAccounting'
    BY <2>6, <2>1 DEF DeadlinePasses, Holders
  <2>7. CASE Cancel
    BY <2>7, <2>1 DEF Cancel, Holders
  <2>8. CASE UNCHANGED permitVars
    BY <2>8, <2>1 DEF permitVars, Holders
  <2> QED
    BY <2>2, <2>3, <2>4, <2>5, <2>6, <2>7, <2>8, TakeCounts, DropCounts
       DEF PermitNext, AcquireStep
<1> QED
  BY <1>1, <1>2, PermitTypeOK, PTL DEF PermitSpec

-----------------------------------------------------------------------------

\* The number of permits given out never exceeds the largest limit among the
\* sessions' options: the check and the increment are one critical section.
THEOREM PermitsBounded == PermitSpec => []Admission
<1>1. PermitInit => Admission
  BY DEF PermitInit, Admission
<1>2. PermitTypes /\ Admission /\ [PermitNext]_permitVars => Admission'
  <2> SUFFICES ASSUME PermitTypes, Admission, [PermitNext]_permitVars PROVE Admission'
    OBVIOUS
  <2>0. \A s \in Sessions : LimitOf(s) \in Nat
    BY PermitAssumption DEF LimitOf
  <2>1. ASSUME count' <= count, count' \in Nat PROVE Admission'
    BY <2>1, <2>0 DEF Admission, PermitTypes, LimitOf
  <2>2. ASSUME NEW s \in Sessions, Take(s) PROVE Admission'
    <3>1. count' <= LimitOf(s)
      BY <2>2, <2>0 DEF Take, PermitTypes
    <3> QED BY <3>1 DEF Admission, LimitOf
  <2>3. ASSUME NEW s \in Sessions, DropPermit(s) PROVE Admission'
    <3>1. count' <= count /\ count' \in Nat
      BY <2>3 DEF DropPermit, PermitTypes
    <3> QED BY <3>1, <2>1
  <2>4. ASSUME count' = count PROVE Admission'
    BY <2>4, <2>1 DEF PermitTypes
  <2> QED
    BY <2>2, <2>3, <2>4 DEF PermitNext, AcquireStep, Ask, GiveUp, Wait, WaitTimesOut,
       DeadlinePasses, Cancel, permitVars
<1> QED
  BY <1>1, <1>2, PermitTypeOK, PTL DEF PermitSpec

(***************************************************************************)
(* The wire protocol.                                                      *)
(***************************************************************************)

\* What a read may ask for is a natural number of bytes.
LEMMA AdjustedLenType ==
  ASSUME TypeOK, CallInv PROVE AdjustedLen \in Nat
BY DEF TypeOK, CallInv, AdjustedLen, Lesser

\* It fits the length field of a request.
LEMMA AdjustedLenFits ==
  ASSUME TypeOK, CallInv PROVE AdjustedLen % LenWidth = AdjustedLen
<1>1. AdjustedLen \in Nat /\ AdjustedLen <= MaxLen
  BY AdjustedLenType, StreamAssumption DEF TypeOK, CallInv, AdjustedLen, Lesser
<1> HIDE DEF AdjustedLen
<1> QED BY <1>1, StreamAssumption

\* The head of a sequence that is not empty, and the rest of it.
LEMMA HeadTail ==
  ASSUME NEW S, NEW seq \in Seq(S), seq # <<>>
  PROVE  /\ Len(seq) \in Nat /\ Len(seq) >= 1 /\ Head(seq) = seq[1] /\ Head(seq) \in S
         /\ Tail(seq) \in Seq(S) /\ Len(Tail(seq)) = Len(seq) - 1
         /\ \A i \in 1 .. Len(seq) - 1 : Tail(seq)[i] = seq[i + 1]
OBVIOUS

\* An element more.
LEMMA AppendOne ==
  ASSUME NEW S, NEW seq \in Seq(S), NEW e \in S
  PROVE  /\ Append(seq, e) \in Seq(S) /\ Len(Append(seq, e)) = Len(seq) + 1
         /\ \A i \in 1 .. Len(seq) : Append(seq, e)[i] = seq[i]
         /\ Append(seq, e)[Len(seq) + 1] = e
OBVIOUS

\* Two sequences behind one another.
LEMMA Joined ==
  ASSUME NEW S, NEW seq \in Seq(S), NEW more \in Seq(S)
  PROVE  /\ seq \o more \in Seq(S) /\ Len(seq \o more) = Len(seq) + Len(more)
         /\ \A i \in 1 .. Len(seq) : (seq \o more)[i] = seq[i]
         /\ \A i \in Len(seq) + 1 .. Len(seq) + Len(more) :
              (seq \o more)[i] = more[i - Len(seq)]
OBVIOUS

\* A header is two units, a magic and the handle of its request.
LEMMA HeaderIs ==
  ASSUME NEW id \in Nat, NEW error \in BOOLEAN
  PROVE  /\ Header(id, error) \in Seq(Units) /\ Len(Header(id, error)) = 2
         /\ Header(id, error)[1] = [kind |-> IF error THEN "error" ELSE "reply",
                                    value |-> 0]
         /\ Header(id, error)[2] = [kind |-> "handle", value |-> id]
BY DEF Header, Units

\* Data is as many units as bytes, each named by its offset.
LEMMA BytesAre ==
  ASSUME NEW off \in Nat, NEW n \in Nat
  PROVE  /\ Bytes(off, n) \in Seq(Units) /\ Len(Bytes(off, n)) = n
         /\ \A i \in 1 .. n : Bytes(off, n)[i] = [kind |-> "byte", value |-> off + i - 1]
<1>1. \A i \in 1 .. n : [kind |-> "byte", value |-> off + i - 1] \in Units
  BY DEF Units
<1> QED
  BY <1>1 DEF Bytes

\* Receiving moves the border between what was received and what is on its way,
\* and nothing else.
LEMMA ReceiveMoves ==
  ASSUME TypeOK, Receive
  PROVE  /\ got' \in Seq(Units) /\ inbox' \in Seq(Units)
         /\ Len(got') = Len(got) + 1 /\ Len(inbox') = Len(inbox) - 1
         /\ AheadLen' = AheadLen
         /\ \A i \in 1 .. AheadLen : Ahead(i)' = Ahead(i)
         /\ \A i \in 1 .. Len(inbox') : inbox'[i] = inbox[i + 1]
<1>1. got' = Append(got, inbox[1]) /\ inbox' = Tail(inbox) /\ inbox[1] \in Units
      /\ Len(inbox) >= 1
  BY HeadTail DEF Receive, TypeOK
<1>2. /\ got' \in Seq(Units) /\ inbox' \in Seq(Units)
      /\ Len(got') = Len(got) + 1 /\ Len(inbox') = Len(inbox) - 1
      /\ \A i \in 1 .. Len(inbox') : inbox'[i] = inbox[i + 1]
      /\ \A i \in 1 .. Len(got) : got'[i] = got[i]
      /\ got'[Len(got) + 1] = inbox[1]
  BY <1>1, AppendOne, HeadTail DEF TypeOK
<1>3. ASSUME NEW i \in 1 .. AheadLen PROVE Ahead(i)' = Ahead(i)
  <2>1. Len(got) \in Nat /\ Len(inbox) \in Nat
    BY DEF TypeOK
  <2>2. CASE i <= Len(got)
    BY <1>2, <2>1, <2>2 DEF Ahead
  <2>3. CASE i = Len(got) + 1
    BY <1>2, <2>1, <2>3 DEF Ahead
  <2>4. CASE i > Len(got) + 1
    BY <1>2, <2>1, <2>4 DEF Ahead, AheadLen
  <2> QED BY <2>1, <2>2, <2>3, <2>4 DEF AheadLen
<1>4. AheadLen' = AheadLen
  <2>1. Len(got) \in Nat /\ Len(inbox) \in Nat
    BY DEF TypeOK
  <2> QED BY <1>2, <2>1 DEF AheadLen
<1> HIDE DEF Ahead
<1> QED
  BY <1>2, <1>3, <1>4
-----------------------------------------------------------------------------
(* The handshake. *)

\* Nothing is owed before the first read, and a handshake that fails closes.
LEMMA HandshakeStep ==
  ASSUME StreamInv, Handshake
  PROVE  StreamInv'
<1> USE DEF StreamInv
<1>0. Len(got) \in Nat /\ Len(inbox) \in Nat /\ Len(requests) \in Nat
  BY DEF TypeOK
<1>1. CASE Drop /\ pc \in {"banner", "option", "export"}
  <2>1. TypeOK' /\ CallInv'
    BY <1>1 DEF Drop, TypeOK, CallInv
  <2>2. HeadersWhole'
    BY <1>1 DEF Drop, HeadersWhole
  <2>3. ~broken /\ InStepInv'
    BY <1>1 DEF Drop, InStepInv, OutOfStepInv
  <2> QED BY <1>1, <2>1, <2>2, <2>3 DEF Drop, OutOfStepInv
<1>2. CASE CheckBanner /\ ~Drop
  <2> USE <1>2 DEF CheckBanner
  <2>1. TypeOK' /\ CallInv' /\ HeadersWhole'
    <3>1. pc' = "option" /\ got' = <<>> /\ pc = "banner"
          /\ UNCHANGED <<exportSize, nextId, asked, answer, requests, inbox, torn, broken>>
      OBVIOUS
    <3> QED BY <3>1 DEF TypeOK, CallInv, HeadersWhole
  <2>2. ~broken /\ inbox = <<>>
    BY <1>0, EmptySeq DEF InStepInv, OutOfStepInv, AheadLen, TypeOK
  <2>3. InStepInv' /\ OutOfStepInv'
    BY <2>2 DEF InStepInv, OutOfStepInv
  <2> QED BY <2>1, <2>3 DEF TypeOK
<1>3. CASE RequestExport
  <2> USE <1>3 DEF RequestExport
  <2>1. [kind |-> "export"] \in Requests
    BY DEF Requests
  <2>2. requests' \in Seq(Requests) /\ Len(requests') = Len(requests) + 1
        /\ requests'[Len(requests) + 1] = [kind |-> "export"]
    BY <2>1, AppendOne DEF TypeOK
  <2>3. TypeOK' /\ CallInv' /\ HeadersWhole'
    BY <2>2 DEF TypeOK, CallInv, HeadersWhole
  <2>4. ~broken
    BY DEF OutOfStepInv
  <2>5. InStepInv' /\ OutOfStepInv'
    BY <2>2, <2>4, SMTT(30) DEF InStepInv, OutOfStepInv, AheadLen, CallInv
  <2> QED BY <2>3, <2>5
<1>4. CASE ReadExport
  <2> USE <1>4 DEF ReadExport
  <2>1. ~broken /\ requests = <<>> /\ inbox = <<>>
    BY <1>0, EmptySeq DEF OutOfStepInv, InStepInv, AheadLen, TypeOK
  <2>2. got[1] \in Units
    <3>1. got \in Seq(Units) /\ 1 \in 1 .. Len(got)
      BY DEF TypeOK
    <3> QED BY <3>1, ElementOfSeq
  <2>3. TypeOK'
    BY <2>2 DEF TypeOK, Units
  <2>4. CallInv' /\ HeadersWhole' /\ InStepInv' /\ OutOfStepInv'
    BY <2>1, <2>3 DEF TypeOK, CallInv, HeadersWhole, InStepInv, OutOfStepInv
  <2> QED BY <2>3, <2>4
<1> QED
  BY <1>1, <1>2, <1>3, <1>4 DEF Handshake, CheckBanner, HandshakeFails
-----------------------------------------------------------------------------
(* Reads. *)

\* What is older than one call is older than the next.
LEMMA OlderGrows ==
  ASSUME TypeOK, NEW m \in Nat, NEW n \in Nat, Older(m), m <= n
  PROVE  Older(n)
<1>1. ASSUME NEW i \in 1 .. Len(requests), requests[i].kind = "read"
      PROVE  requests[i].id < n
  <2>1. requests[i] \in Requests
    BY ElementOfSeq DEF TypeOK
  <2>2. requests[i].id \in Nat
    BY <1>1, <2>1 DEF Requests
  <2> QED BY <1>1, <2>2 DEF Older
<1>2. ASSUME NEW i \in 1 .. Len(inbox), IsHandle(inbox[i])
      PROVE  inbox[i].value < n
  <2>1. inbox[i] \in Units
    BY ElementOfSeq DEF TypeOK
  <2> QED BY <1>2, <2>1 DEF Older, Units
<1> QED
  BY <1>1, <1>2 DEF Older

\* A new call takes a new number; what earlier calls are owed is older.
LEMMA ReadRangeStep ==
  ASSUME StreamInv, NEW offset \in 0 .. exportSize, NEW len \in 0 .. MaxLen,
         ReadRange(offset, len)
  PROVE  StreamInv'
<1> USE StreamAssumption DEF StreamInv, ReadRange
<1>1. TypeOK'
  BY DEF TypeOK
<1>2. CallInv' /\ HeadersWhole'
  BY <1>1 DEF TypeOK, CallInv, HeadersWhole
<1>3. InStepInv'
  BY DEF InStepInv
<1>4. OutOfStepInv'
  <2>1. broken => Older(nextId) /\ Older(nextId + 1)
    BY OlderGrows DEF TypeOK, OutOfStepInv
  <2>2. nextId \in Nat
    BY DEF TypeOK
  <2>3. /\ UNCHANGED <<requests, inbox, torn, broken>>
        /\ \/ pc' = pc /\ nextId' = nextId
           \/ pc' = "send" /\ nextId' = nextId + 1
        /\ pc = "idle"
    BY Zenon
  <2>4. broken => Debt
    BY <2>3 DEF OutOfStepInv
  <2> HIDE DEF ReadRange, StreamInv
  <2>5. ASSUME broken, pc' = pc PROVE Older(nextId)' /\ Debt'
    BY <2>1, <2>3, <2>4, <2>5 DEF Older, Debt
  <2>6. ASSUME broken, pc' = "send" PROVE Older(nextId)' /\ Older(ReqId)' /\ Debt'
    BY <2>1, <2>2, <2>3, <2>4, <2>6 DEF Older, Debt, ReqId
  <2> QED BY <2>3, <2>5, <2>6 DEF OutOfStepInv
<1> QED
  BY <1>1, <1>2, <1>3, <1>4

\* The request joins the queue behind whatever is owed to earlier calls.
LEMMA SendStep ==
  ASSUME StreamInv, Send
  PROVE  StreamInv'
<1> USE DEF StreamInv, Send
<1> DEFINE r == [kind |-> "read", id |-> IF torn THEN 0 ELSE ReqId,
                 offset |-> asked.offset, len |-> AdjustedLen]
<1>0. requests' = Append(requests, r)
  BY AdjustedLenFits
<1>1. r \in Requests /\ ReqId \in Nat /\ ReqId >= 1
  BY AdjustedLenType DEF TypeOK, CallInv, Requests, ReqId
<1>2. /\ requests' \in Seq(Requests) /\ Len(requests') = Len(requests) + 1
      /\ \A i \in 1 .. Len(requests) : requests'[i] = requests[i]
      /\ requests'[Len(requests) + 1] = r /\ Len(requests) \in Nat /\ Len(inbox) \in Nat
  BY <1>0, <1>1, AppendOne DEF TypeOK
<1> HIDE DEF r
<1>3. TypeOK' /\ CallInv' /\ HeadersWhole'
  <2>1. TypeOK'
    BY <1>2 DEF TypeOK
  <2>2. CallInv'
    BY <1>2 DEF TypeOK, CallInv
  <2>3. HeadersWhole'
    <3>1. got' = <<>> /\ inbox' = inbox
      BY DEF CallInv
    <3> QED BY <3>1 DEF HeadersWhole
  <2> QED BY <2>1, <2>2, <2>3
<1>4. ASSUME ~broken PROVE InStepInv'
  <2>1. ~torn /\ requests = <<>> /\ inbox = <<>> /\ got = <<>>
    BY <1>4 DEF InStepInv, CallInv
  <2>2. requests'[1] = r /\ Len(requests') = 1 /\ AheadLen' = 0
    BY <1>2, <2>1 DEF AheadLen
  <2>3. r = [kind |-> "read", id |-> ReqId, offset |-> asked.offset, len |-> AdjustedLen]
    BY <2>1 DEF r
  <2> QED BY <2>1, <2>2, <2>3 DEF InStepInv, ReqId, AdjustedLen
<1>5. ASSUME broken PROVE OutOfStepInv'
  <2>1. r.kind = "read" /\ r.id <= ReqId /\ (torn => r.id < ReqId)
    BY <1>1 DEF r
  <2>2. Older(ReqId) /\ Debt /\ got = <<>>
    BY <1>5 DEF OutOfStepInv, CallInv
  <2>3. Older(nextId)'
    <3>1. Older(nextId) /\ nextId' = nextId /\ inbox' = inbox
      BY <1>5 DEF OutOfStepInv
    <3>2. r.id < nextId
      BY <1>1 DEF r, ReqId, TypeOK
    <3> QED BY <1>2, <3>1, <3>2 DEF Older
  <2>4. AheadLen' = Len(inbox) /\ \A i \in 1 .. AheadLen' : Ahead(i)' = inbox[i]
    BY <1>2, <2>2 DEF Ahead, AheadLen
  <2>5. HandleFarOff'
    BY <1>1, <1>2, <2>1, <2>2, <2>4, SMTT(30) DEF HandleFarOff, Older, Debt, ReqId
  <2> QED BY <1>5, <2>3, <2>5 DEF OutOfStepInv
<1> QED
  BY <1>3, <1>4, <1>5 DEF InStepInv, OutOfStepInv

\* What a failed call leaves behind: nothing when it is still in step, and
\* otherwise something older than every later call.
LEMMA FailStep ==
  ASSUME StreamInv, NEW inStep \in BOOLEAN, Fail(inStep), torn' \in BOOLEAN,
         torn => torn', broken => broken',
         pc \in {"send", "header", "data"},
         ~broken' => requests = <<>> /\ inbox = <<>> /\ ~torn',
         broken' => Older(nextId) /\ (torn' \/ Len(inbox) + Len(requests) >= 1)
  PROVE  StreamInv'
<1> USE DEF StreamInv, Fail
<1>1. TypeOK'
  BY DEF TypeOK
<1>2. CallInv' /\ HeadersWhole'
  BY DEF CallInv, HeadersWhole
<1>3. InStepInv'
  BY DEF InStepInv, TypeOK
<1>4. OutOfStepInv'
  BY DEF OutOfStepInv, Older, Debt
<1> QED
  BY <1>1, <1>2, <1>3, <1>4

\* A request that is not written leaves the stream in step; one that is cut off
\* loses the framing for good.
LEMMA SendFailsStep ==
  ASSUME StreamInv, SendFails
  PROVE  StreamInv'
<1>1. PICK some \in BOOLEAN : torn' = (torn \/ some) /\ Fail(~some) /\ pc = "send"
  BY DEF SendFails
<1>2. CASE broken
  <2>1. Older(ReqId) /\ Debt /\ nextId \in Nat
    BY <1>1, <1>2 DEF StreamInv, OutOfStepInv, TypeOK
  <2>2. Older(nextId)
    BY <1>2 DEF StreamInv, OutOfStepInv
  <2> QED BY <1>1, <1>2, <2>1, <2>2, FailStep DEF Fail, Debt
<1>3. CASE ~broken
  <2>1. ~torn /\ requests = <<>> /\ inbox = <<>>
    BY <1>1, <1>3 DEF StreamInv, InStepInv
  <2>2. Older(nextId)
    BY <2>1 DEF Older
  <2> QED BY <1>1, <1>3, <2>1, <2>2, FailStep DEF Fail
<1> QED
  BY <1>2, <1>3
\* The units on their way are the ones behind those received.
LEMMA InboxAhead ==
  ASSUME TypeOK
  PROVE  /\ Len(got) \in Nat /\ Len(inbox) \in Nat /\ Len(requests) \in Nat
         /\ (inbox = <<>> <=> Len(inbox) = 0) /\ (requests = <<>> <=> Len(requests) = 0)
         /\ \A i \in 1 .. Len(inbox) :
              Len(got) + i \in 1 .. AheadLen /\ inbox[i] = Ahead(Len(got) + i)
         /\ \A i \in 1 .. Len(got) : i \in 1 .. AheadLen /\ got[i] = Ahead(i)
<1>1. Len(got) \in Nat /\ Len(inbox) \in Nat /\ Len(requests) \in Nat
  BY DEF TypeOK
<1>2. (inbox = <<>> <=> Len(inbox) = 0) /\ (requests = <<>> <=> Len(requests) = 0)
  BY EmptySeq DEF TypeOK
<1> QED
  BY <1>1, <1>2 DEF Ahead, AheadLen

\* Receiving a unit changes nothing that StreamInv says of the stream.
LEMMA ReceiveStep ==
  ASSUME StreamInv, Receive
  PROVE  StreamInv'
<1>0. TypeOK /\ CallInv /\ HeadersWhole /\ InStepInv /\ OutOfStepInv
  BY DEF StreamInv
<1>1. /\ got' \in Seq(Units) /\ inbox' \in Seq(Units)
      /\ Len(got') = Len(got) + 1 /\ Len(inbox') = Len(inbox) - 1
      /\ AheadLen' = AheadLen
      /\ \A i \in 1 .. AheadLen : Ahead(i)' = Ahead(i)
      /\ \A i \in 1 .. Len(inbox') : inbox'[i] = inbox[i + 1]
  BY <1>0, ReceiveMoves
<1>2. /\ Len(got) \in Nat /\ Len(inbox) \in Nat /\ Len(requests) \in Nat
      /\ \A i \in 1 .. Len(inbox) :
           Len(got) + i \in 1 .. AheadLen /\ inbox[i] = Ahead(Len(got) + i)
  BY <1>0, InboxAhead
<1>3. UNCHANGED <<pc, exportSize, nextId, asked, answer, requests, torn, broken>>
      /\ inbox # <<>> /\ Len(got) < Wanted
  BY DEF Receive
<1>4. pc \in {"banner", "export", "header", "data"} /\ (pc # "data" => Len(got) < 2)
  BY <1>0, <1>2, <1>3 DEF TypeOK, Wanted
<1>5. TypeOK' /\ CallInv'
  BY <1>0, <1>1, <1>2, <1>3, <1>4 DEF TypeOK, CallInv
<1>6. HeadersWhole'
  <2>1. ASSUME NEW i \in 1 .. Len(inbox'), IsMagic(inbox'[i])
        PROVE  i < Len(inbox') /\ IsHandle(inbox'[i + 1])
    <3>1. inbox'[i] = inbox[i + 1] /\ i + 1 \in 1 .. Len(inbox)
      BY <1>1, <1>2
    <3>2. i + 1 < Len(inbox) /\ IsHandle(inbox[i + 2])
      BY <1>0, <2>1, <3>1 DEF HeadersWhole
    <3>3. i + 1 \in 1 .. Len(inbox') /\ i < Len(inbox') /\ i \in Nat
      BY <1>1, <1>2, <3>2
    <3>4. inbox'[i + 1] = inbox[(i + 1) + 1] /\ (i + 1) + 1 = i + 2
      BY <1>1, <3>3
    <3> QED BY <3>2, <3>3, <3>4
  <2>2. ASSUME pc = "header", NEW i \in 1 .. Len(got'), IsMagic(got'[i])
        PROVE  i < AheadLen' /\ IsHandle(Ahead(i + 1)')
    <3>1. got'[i] = Ahead(i)' /\ i \in 1 .. AheadLen
      BY <1>1, <1>2 DEF Ahead, AheadLen
    <3>2. got'[i] = Ahead(i)
      BY <3>1, <1>1
    <3>3. i < AheadLen /\ IsHandle(Ahead(i + 1))
      <4>1. CASE i <= Len(got)
        BY <1>0, <1>2, <2>2, <3>2, <4>1 DEF HeadersWhole, Ahead
      <4>2. CASE i = Len(got) + 1
        <5>1. Ahead(i) = inbox[1] /\ 1 \in 1 .. Len(inbox)
          BY <1>1, <1>2, <3>1, <4>2 DEF Ahead, AheadLen
        <5>2. 1 < Len(inbox) /\ IsHandle(inbox[2])
          BY <1>0, <2>2, <3>2, <5>1 DEF HeadersWhole
        <5> QED BY <1>2, <4>2, <5>2 DEF Ahead, AheadLen
      <4> QED BY <1>1, <1>2, <4>1, <4>2
    <3>4. AheadLen \in Nat /\ AheadLen' = AheadLen
      BY <1>1, <1>2 DEF AheadLen
    <3>5. i + 1 \in 1 .. AheadLen
      BY <3>1, <3>3, <3>4
    <3>6. Ahead(i + 1)' = Ahead(i + 1)
      BY <1>1, <3>5
    <3> QED BY <3>3, <3>4, <3>6
  <2> QED BY <1>3, <2>1, <2>2 DEF HeadersWhole
<1>7. AheadLen \in Nat
  BY <1>2 DEF AheadLen
<1>8. InStepInv'
  <2>1. (pc = "header" /\ AheadLen >= 2 /\ OwnReply) => OwnReply'
    BY <1>1, <1>3, <1>7 DEF OwnReply, ReqId, AdjustedLen
  <2>2. OwnData => OwnData'
    BY <1>1, <1>3, <1>7 DEF OwnData, AdjustedLen
  <2> QED BY <1>0, <1>1, <1>3, <1>4, <2>1, <2>2 DEF InStepInv, AdjustedLen, ReqId
<1>9. OutOfStepInv'
  <2>1. ASSUME broken PROVE pc = "header" /\ Older(nextId)' /\ HandleFarOff'
    <3>1. pc = "header" /\ Older(nextId) /\ HandleFarOff
      BY <1>0, <1>4, <2>1 DEF OutOfStepInv
    <3>2. Older(nextId)'
      <4>1. ASSUME NEW i \in 1 .. Len(inbox'), IsHandle(inbox'[i])
            PROVE  inbox'[i].value < nextId
        <5>1. i + 1 \in 1 .. Len(inbox) /\ inbox'[i] = inbox[i + 1]
          BY <1>1, <1>2
        <5> QED BY <3>1, <4>1, <5>1 DEF Older
      <4> QED BY <1>3, <3>1, <4>1 DEF Older
    <3>3. HandleFarOff'
      BY <1>1, <1>2, <1>3, <1>7, <3>1 DEF HandleFarOff, ReqId
    <3> QED BY <3>1, <3>2, <3>3
  <2> QED BY <1>3, <2>1 DEF OutOfStepInv
<1> QED
  BY <1>3, <1>5, <1>6, <1>8, <1>9 DEF StreamInv

\* A header lets the call go on only when it is the call's own.
LEMMA CheckHeaderStep ==
  ASSUME StreamInv, CheckHeader
  PROVE  StreamInv'
<1>0. TypeOK /\ CallInv /\ HeadersWhole /\ InStepInv /\ OutOfStepInv
  BY DEF StreamInv
<1>1. pc = "header" /\ Len(got) = 2 /\ torn' = torn
  BY DEF CheckHeader
<1>2. /\ Len(inbox) \in Nat /\ Len(requests) \in Nat /\ AheadLen = 2 + Len(inbox)
      /\ (inbox = <<>> <=> Len(inbox) = 0) /\ (requests = <<>> <=> Len(requests) = 0)
      /\ \A i \in 1 .. Len(inbox) : inbox[i] = Ahead(i + 2)
      /\ got[1] = Ahead(1) /\ got[2] = Ahead(2)
  BY <1>0, <1>1, InboxAhead DEF AheadLen
<1>3. CASE broken
  <2>1. HandleFarOff /\ Older(nextId)
    BY <1>0, <1>1, <1>3 DEF OutOfStepInv
  <2>2. torn \/ Len(inbox) + Len(requests) >= 1
    BY <1>2, <2>1 DEF HandleFarOff
  <2>3. ASSUME got[1].kind = "reply", got[2].value = ReqId PROVE FALSE
    <3>1. IsHandle(Ahead(2))
      BY <1>0, <1>1, <1>2, <2>3 DEF HeadersWhole, IsMagic
    <3>2. Ahead(2).value < ReqId
      BY <1>2, <2>1, <3>1 DEF HandleFarOff
    <3> QED BY <1>0, <1>2, <2>3, <3>2 DEF TypeOK, ReqId
  <2>4. PICK inStep \in BOOLEAN : Fail(inStep)
    BY <2>3, Zenon DEF CheckHeader
  <2>5. broken'
    BY <1>3, <2>4 DEF Fail
  <2> QED BY <1>0, <1>1, <1>3, <2>1, <2>2, <2>4, <2>5, FailStep DEF TypeOK
<1>4. CASE ~broken
  <2>1. requests = <<>> /\ OwnReply /\ ~torn
    BY <1>0, <1>1, <1>2, <1>4 DEF InStepInv
  <2>2. IsMagic(got[1]) /\ got[2] = [kind |-> "handle", value |-> ReqId]
    BY <1>2, <2>1 DEF OwnReply
  <2>3. CASE got[1].kind = "error"
    <3>1. inbox = <<>>
      BY <1>2, <2>1, <2>3 DEF OwnReply
    <3>2. Fail(TRUE)
      <4>1. got[2].value = ReqId
        BY <2>2
      <4> QED BY <2>3, <4>1 DEF CheckHeader, Fail
    <3>3. ~broken'
      BY <1>4, <3>2 DEF Fail
    <3> QED BY <1>0, <1>1, <1>4, <2>1, <3>1, <3>2, <3>3, FailStep DEF TypeOK
  <2>4. CASE got[1].kind = "reply"
    <3>1. pc' = "data" /\ got' = <<>>
          /\ UNCHANGED <<exportSize, nextId, asked, answer, requests, inbox, broken, torn>>
      BY <1>1, <2>2, <2>4 DEF CheckHeader
    <3>2. Len(inbox) = AdjustedLen /\ AheadLen' = Len(inbox) /\ AdjustedLen' = AdjustedLen
      BY <1>0, <1>2, <2>1, <2>4, <3>1, AdjustedLenType DEF OwnReply, AheadLen, AdjustedLen
    <3>3. \A i \in 1 .. Len(inbox) : Ahead(i)' = Ahead(i + 2)
      BY <1>2, <3>1 DEF Ahead
    <3>4. OwnData'
      <4>1. ASSUME NEW i \in 1 .. Len(inbox)
            PROVE  Ahead(i)' = [kind |-> "byte", value |-> asked.offset + i - 1]
        <5>1. i + 2 \in 3 .. AheadLen /\ asked.offset \in Nat
          BY <1>0, <1>2 DEF TypeOK
        <5>2. asked.offset + (i + 2) - 3 = asked.offset + i - 1
          BY <1>2, <5>1
        <5> QED BY <2>1, <3>3, <5>1, <5>2 DEF OwnReply
      <4> QED BY <3>1, <3>2, <4>1 DEF OwnData
    <3>5. TypeOK' /\ CallInv' /\ HeadersWhole'
      BY <1>0, <1>1, <3>1 DEF TypeOK, CallInv, HeadersWhole
    <3>6. InStepInv'
      BY <1>2, <2>1, <3>1, <3>4 DEF InStepInv
    <3>7. answer = "none"
      BY <1>0, <1>1 DEF CallInv
    <3> QED BY <1>4, <3>1, <3>5, <3>6, <3>7 DEF StreamInv, OutOfStepInv
  <2> QED BY <2>2, <2>3, <2>4 DEF IsMagic
<1> QED
  BY <1>3, <1>4
\* A call that received its bytes leaves an empty stream.
LEMMA DataCompleteStep ==
  ASSUME StreamInv, DataComplete
  PROVE  StreamInv'
<1>0. TypeOK /\ CallInv /\ HeadersWhole /\ InStepInv /\ OutOfStepInv
  BY DEF StreamInv
<1> USE DEF DataComplete
<1>1. ~broken /\ requests = <<>> /\ ~torn /\ OwnData
  BY <1>0 DEF InStepInv, OutOfStepInv
<1>2. inbox = <<>>
  BY <1>0, <1>1, InboxAhead DEF OwnData, AheadLen
<1>3. TypeOK' /\ CallInv' /\ HeadersWhole'
  BY <1>0 DEF TypeOK, CallInv, HeadersWhole
<1>4. InStepInv' /\ OutOfStepInv'
  BY <1>1, <1>2 DEF InStepInv, OutOfStepInv
<1> QED
  BY <1>3, <1>4 DEF StreamInv

\* A call that gives up while it waits leaves at least one unit or one request.
LEMMA ReceiveFailsStep ==
  ASSUME StreamInv, ReceiveFails
  PROVE  StreamInv'
<1>0. TypeOK /\ CallInv /\ HeadersWhole /\ InStepInv /\ OutOfStepInv
  BY DEF StreamInv
<1>1. /\ pc \in {"header", "data"} /\ Fail(FALSE) /\ torn' = torn
      /\ Len(got) < (IF pc = "header" THEN 2 ELSE AdjustedLen)
  BY DEF ReceiveFails, Wanted
<1>2. /\ Len(got) \in Nat /\ Len(inbox) \in Nat /\ Len(requests) \in Nat
      /\ AheadLen = Len(got) + Len(inbox)
      /\ (inbox = <<>> <=> Len(inbox) = 0) /\ (requests = <<>> <=> Len(requests) = 0)
      /\ \A i \in 1 .. Len(inbox) :
           Len(got) + i \in 1 .. AheadLen /\ inbox[i] = Ahead(Len(got) + i)
  BY <1>0, InboxAhead DEF AheadLen
<1>3. broken'
  BY <1>1 DEF Fail
<1>4. Older(nextId) /\ (torn \/ Len(inbox) + Len(requests) >= 1)
  <2>1. CASE broken
    <3>1. pc = "header" /\ HandleFarOff /\ Older(nextId)
      BY <1>0, <1>1, <2>1 DEF OutOfStepInv
    <3> QED BY <1>1, <1>2, <3>1 DEF HandleFarOff
  <2>2. CASE ~broken /\ pc = "header" /\ requests # <<>>
    <3>0. Len(requests) <= 1 /\ AheadLen = 0
          /\ requests[1] = [kind |-> "read", id |-> ReqId, offset |-> asked.offset,
                            len |-> AdjustedLen]
      BY <1>0, <2>2, Zenon DEF InStepInv
    <3>1. requests[1].id = ReqId
      BY <3>0
    <3>2. Len(requests) # 0 /\ Len(inbox) = 0
      BY <1>2, <2>2, <3>0
    <3> QED BY <3>2, <3>0, <1>0, <1>2, <3>1 DEF Older, ReqId, TypeOK
  <2>3. CASE ~broken /\ pc = "header" /\ requests = <<>>
    <3>1. AheadLen >= 2 /\ OwnReply
      BY <1>0, <2>3 DEF InStepInv
    <3>2. \A i \in 1 .. AheadLen : IsHandle(Ahead(i)) => Ahead(i).value = ReqId
      BY <1>2, <3>1 DEF OwnReply, IsHandle, IsMagic
    <3>3. Len(inbox) >= 1 /\ ReqId < nextId
      BY <1>0, <1>1, <1>2, <2>3, <3>1 DEF ReqId, TypeOK
    <3> QED BY <1>2, <2>3, <3>2, <3>3 DEF Older
  <2>4. CASE ~broken /\ pc = "data"
    <3>1. requests = <<>> /\ OwnData
      BY <1>0, <2>4 DEF InStepInv
    <3>2. \A i \in 1 .. AheadLen : ~IsHandle(Ahead(i))
      BY <3>1 DEF OwnData, IsHandle
    <3>3. Len(inbox) >= 1
      BY <1>0, <1>1, <1>2, <2>4, <3>1, AdjustedLenType DEF OwnData
    <3> QED BY <1>2, <3>1, <3>2, <3>3 DEF Older
  <2> QED BY <1>1, <2>1, <2>2, <2>3, <2>4
<1> QED
  BY <1>0, <1>1, <1>3, <1>4, FailStep DEF TypeOK

\* A dropped reader leaves the stream as it is.
LEMMA DisconnectStep ==
  ASSUME StreamInv, Disconnect
  PROVE  StreamInv'
<1>0. TypeOK /\ CallInv /\ HeadersWhole /\ InStepInv /\ OutOfStepInv
  BY DEF StreamInv
<1> USE DEF Disconnect
<1>1. TypeOK' /\ CallInv' /\ HeadersWhole'
  BY <1>0 DEF TypeOK, CallInv, HeadersWhole
<1>2. InStepInv'
  BY <1>0 DEF InStepInv
<1>3. OutOfStepInv'
  BY <1>0 DEF OutOfStepInv, Older
<1> QED
  BY <1>1, <1>2, <1>3 DEF StreamInv
-----------------------------------------------------------------------------
(* The server. *)

\* The server answers its oldest request with whole units behind the stream.
Answers(more) ==
  /\ requests # <<>> /\ requests' = Tail(requests)
  /\ inbox' = inbox \o more
  /\ UNCHANGED clientVars

\* What an answer does to the stream as the read in progress sees it.
LEMMA AnswerExtends ==
  ASSUME TypeOK, NEW more \in Seq(Units), Answers(more)
  PROVE  /\ TypeOK' /\ Len(more) \in Nat /\ Len(requests) \in Nat /\ Len(requests) >= 1
         /\ requests[1] = Head(requests) /\ Head(requests) \in Requests
         /\ Len(requests') = Len(requests) - 1
         /\ (requests' = <<>> <=> Len(requests') = 0)
         /\ \A i \in 1 .. Len(requests') : requests'[i] = requests[i + 1]
         /\ Len(inbox') = Len(inbox) + Len(more) /\ Len(inbox) \in Nat
         /\ \A i \in 1 .. Len(inbox) : inbox'[i] = inbox[i]
         /\ \A i \in Len(inbox) + 1 .. Len(inbox') : inbox'[i] = more[i - Len(inbox)]
         /\ AheadLen \in Nat /\ AheadLen' = AheadLen + Len(more)
         /\ \A i \in 1 .. AheadLen : Ahead(i)' = Ahead(i)
         /\ \A i \in AheadLen + 1 .. AheadLen' : Ahead(i)' = more[i - AheadLen]
<1>0. requests \in Seq(Requests) /\ inbox \in Seq(Units) /\ got \in Seq(Units)
  BY DEF TypeOK
<1>1. /\ Len(requests) \in Nat /\ Len(requests) >= 1 /\ requests[1] = Head(requests)
      /\ Head(requests) \in Requests /\ requests' \in Seq(Requests)
      /\ Len(requests') = Len(requests) - 1
      /\ \A i \in 1 .. Len(requests') : requests'[i] = requests[i + 1]
  BY <1>0, HeadTail DEF Answers
<1>2. /\ inbox' \in Seq(Units) /\ Len(inbox') = Len(inbox) + Len(more)
      /\ Len(inbox) \in Nat /\ Len(more) \in Nat /\ Len(got) \in Nat /\ got' = got
      /\ \A i \in 1 .. Len(inbox) : inbox'[i] = inbox[i]
      /\ \A i \in Len(inbox) + 1 .. Len(inbox') : inbox'[i] = more[i - Len(inbox)]
  BY <1>0, Joined DEF Answers, clientVars
<1>3. TypeOK'
  BY <1>1, <1>2 DEF TypeOK, Answers, clientVars
<1>4. AheadLen \in Nat /\ AheadLen' = AheadLen + Len(more)
  BY <1>2 DEF AheadLen
<1>5. ASSUME NEW i \in 1 .. AheadLen PROVE Ahead(i)' = Ahead(i)
  <2>1. CASE i <= Len(got)
    BY <1>2, <2>1 DEF Ahead
  <2>2. CASE i > Len(got)
    <3>1. i - Len(got) \in 1 .. Len(inbox)
      BY <1>2, <2>2 DEF AheadLen
    <3>2. inbox'[i - Len(got)] = inbox[i - Len(got)]
      BY <1>2, <3>1
    <3> QED BY <1>2, <2>2, <3>2 DEF Ahead
  <2> QED BY <1>2, <2>1, <2>2
<1>6. ASSUME NEW i \in AheadLen + 1 .. AheadLen' PROVE Ahead(i)' = more[i - AheadLen]
  <2>1. i > Len(got) /\ i - Len(got) \in Len(inbox) + 1 .. Len(inbox')
        /\ (i - Len(got)) - Len(inbox) = i - AheadLen
    BY <1>2, <1>4 DEF AheadLen
  <2>2. inbox'[i - Len(got)] = more[i - AheadLen]
    BY <1>2, <2>1
  <2> QED BY <1>2, <2>1, <2>2 DEF Ahead
<1>7. requests' = <<>> <=> Len(requests') = 0
  BY <1>1, EmptySeq
<1> QED
  BY <1>1, <1>2, <1>3, <1>4, <1>5, <1>6, <1>7

\* Whole headers behind whole headers.
LEMMA AnswerKeepsHeaders ==
  ASSUME TypeOK, HeadersWhole, NEW more \in Seq(Units), Answers(more),
         \A i \in 1 .. Len(more) : IsMagic(more[i]) =>
            i < Len(more) /\ IsHandle(more[i + 1])
  PROVE  HeadersWhole'
<1>1. /\ Len(more) \in Nat /\ Len(inbox') = Len(inbox) + Len(more) /\ Len(inbox) \in Nat
      /\ \A i \in 1 .. Len(inbox) : inbox'[i] = inbox[i]
      /\ \A i \in Len(inbox) + 1 .. Len(inbox') : inbox'[i] = more[i - Len(inbox)]
      /\ AheadLen \in Nat /\ AheadLen' = AheadLen + Len(more)
      /\ \A i \in 1 .. AheadLen : Ahead(i)' = Ahead(i)
  BY AnswerExtends
<1>2. pc' = pc /\ got' = got /\ Len(got) \in Nat
  BY DEF Answers, clientVars, TypeOK
<1>3. ASSUME NEW i \in 1 .. Len(inbox'), IsMagic(inbox'[i])
      PROVE  i < Len(inbox') /\ IsHandle(inbox'[i + 1])
  <2>1. CASE i <= Len(inbox)
    <3>1. i \in 1 .. Len(inbox) /\ IsMagic(inbox[i])
      BY <1>1, <1>3, <2>1
    <3>2. i + 1 \in 1 .. Len(inbox) /\ IsHandle(inbox[i + 1])
      BY <1>1, <3>1 DEF HeadersWhole
    <3> QED BY <1>1, <3>1, <3>2
  <2>2. CASE i > Len(inbox)
    <3>1. i - Len(inbox) \in 1 .. Len(more) /\ inbox'[i] = more[i - Len(inbox)]
      BY <1>1, <2>2
    <3>2. i - Len(inbox) < Len(more) /\ IsHandle(more[i - Len(inbox) + 1])
      BY <1>3, <3>1
    <3>3. i + 1 \in Len(inbox) + 1 .. Len(inbox') /\ (i + 1) - Len(inbox) = i - Len(inbox) + 1
      BY <1>1, <3>1, <3>2
    <3>4. inbox'[i + 1] = more[i - Len(inbox) + 1]
      BY <1>1, <3>3
    <3> QED BY <1>1, <3>2, <3>3, <3>4
  <2> QED BY <1>1, <2>1, <2>2
<1>4. ASSUME pc = "header", NEW i \in 1 .. Len(got), IsMagic(got[i])
      PROVE  i < AheadLen' /\ IsHandle(Ahead(i + 1)')
  <2>1. i < AheadLen /\ IsHandle(Ahead(i + 1))
    BY <1>4 DEF HeadersWhole
  <2> QED BY <1>1, <1>2, <2>1
<1> QED
  BY <1>2, <1>3, <1>4 DEF HeadersWhole

\* An answer to an older request does not bring the stream back in step.
LEMMA AnswerOutOfStep ==
  ASSUME StreamInv, NEW more \in Seq(Units), Answers(more), Len(more) >= 2,
         \A i \in 1 .. Len(more) : IsHandle(more[i]) =>
            i >= 2 /\ Head(requests).kind = "read" /\ more[i].value = Head(requests).id
  PROVE  OutOfStepInv'
<1>0. TypeOK /\ OutOfStepInv
  BY DEF StreamInv
<1> SUFFICES ASSUME broken PROVE OutOfStepInv'
  BY DEF OutOfStepInv, Answers, clientVars
<1>1. /\ Len(more) \in Nat /\ Len(requests) \in Nat /\ Len(requests) >= 1
      /\ requests[1] = Head(requests) /\ Head(requests) \in Requests
      /\ Len(requests') = Len(requests) - 1
      /\ (requests' = <<>> <=> Len(requests') = 0)
      /\ \A i \in 1 .. Len(requests') : requests'[i] = requests[i + 1]
      /\ Len(inbox') = Len(inbox) + Len(more) /\ Len(inbox) \in Nat
      /\ \A i \in 1 .. Len(inbox) : inbox'[i] = inbox[i]
      /\ \A i \in Len(inbox) + 1 .. Len(inbox') : inbox'[i] = more[i - Len(inbox)]
      /\ AheadLen \in Nat /\ AheadLen' = AheadLen + Len(more)
      /\ \A i \in 1 .. AheadLen : Ahead(i)' = Ahead(i)
      /\ \A i \in AheadLen + 1 .. AheadLen' : Ahead(i)' = more[i - AheadLen]
  BY <1>0, AnswerExtends
<1>2. UNCHANGED <<pc, nextId, torn, broken>> /\ requests # <<>>
  BY DEF Answers, clientVars
<1>3. ASSUME NEW n \in Int, Older(n)
      PROVE  /\ \A i \in 1 .. Len(requests') :
                  requests'[i].kind = "read" => requests'[i].id < n
             /\ \A i \in 1 .. Len(inbox') : IsHandle(inbox'[i]) => inbox'[i].value < n
  <2>1. ASSUME NEW i \in 1 .. Len(inbox'), IsHandle(inbox'[i])
        PROVE  inbox'[i].value < n
    <3>1. CASE i <= Len(inbox)
      BY <1>1, <1>3, <2>1, <3>1 DEF Older
    <3>2. CASE i > Len(inbox)
      <4>1. i - Len(inbox) \in 1 .. Len(more) /\ inbox'[i] = more[i - Len(inbox)]
        BY <1>1, <3>2
      <4>2. requests[1].kind = "read" /\ inbox'[i].value = requests[1].id
        BY <1>1, <2>1, <4>1
      <4> QED BY <1>1, <1>3, <4>2 DEF Older
    <3> QED BY <1>1, <3>1, <3>2
  <2>2. ASSUME NEW i \in 1 .. Len(requests'), requests'[i].kind = "read"
        PROVE  requests'[i].id < n
    <3>1. i + 1 \in 1 .. Len(requests) /\ requests'[i] = requests[i + 1]
      BY <1>1, SMTT(30)
    <3> QED BY <1>3, <2>2, <3>1 DEF Older
  <2> QED BY <2>1, <2>2
<1>4. Older(nextId)' /\ (pc = "send" => Older(ReqId)')
  <2>1. nextId \in Int /\ ReqId \in Int /\ nextId' = nextId /\ ReqId' = ReqId
    BY <1>0, <1>2 DEF TypeOK, ReqId
  <2>2. Older(nextId) /\ (pc = "send" => Older(ReqId))
    BY <1>0 DEF OutOfStepInv
  <2>3. Older(nextId)'
    BY <1>3, <2>1, <2>2 DEF Older
  <2>4. pc = "send" => Older(ReqId)'
    BY <1>3, <2>1, <2>2 DEF Older
  <2> QED BY <2>3, <2>4
<1>5. Debt'
  BY <1>1, <1>2 DEF Debt
<1>6. ASSUME pc = "header" PROVE HandleFarOff'
  <2>0. HandleFarOff
    BY <1>0, <1>6 DEF OutOfStepInv
  <2>1. ASSUME NEW i \in 1 .. Len(requests'), requests'[i].kind = "read",
               torn \/ i < Len(requests')
        PROVE  requests'[i].id < ReqId
    <3>1. i + 1 \in 1 .. Len(requests) /\ requests'[i] = requests[i + 1]
          /\ (i < Len(requests') => i + 1 < Len(requests))
      BY <1>1
    <3> QED BY <2>0, <2>1, <3>1 DEF HandleFarOff
  <2>2. ASSUME NEW i \in 1 .. AheadLen', IsHandle(Ahead(i)'),
               torn \/ i <= 2 \/ requests' # <<>>
        PROVE  Ahead(i)'.value < ReqId
    <3>1. CASE i <= AheadLen
      BY <1>1, <1>2, <2>0, <2>2, <3>1 DEF HandleFarOff
    <3>2. CASE i > AheadLen
      <4>1. i - AheadLen \in 1 .. Len(more) /\ Ahead(i)' = more[i - AheadLen]
        BY <1>1, <3>2
      <4>2. i - AheadLen >= 2 /\ requests[1].kind = "read"
            /\ Ahead(i)'.value = requests[1].id
        BY <1>1, <2>2, <4>1
      <4>3. torn \/ 1 < Len(requests)
        BY <1>1, <1>2, <2>0, <2>2, <4>2 DEF HandleFarOff
      <4> QED BY <1>1, <2>0, <4>2, <4>3 DEF HandleFarOff
    <3> QED BY <1>1, <3>1, <3>2
  <2>3. torn \/ AheadLen' + Len(requests') >= (IF requests' = <<>> THEN 3 ELSE 2)
    BY <1>1, <1>2, <2>0 DEF HandleFarOff
  <2> QED BY <1>2, <2>1, <2>2, <2>3 DEF HandleFarOff, ReqId
<1> QED
  BY <1>0, <1>2, <1>4, <1>5, <1>6 DEF OutOfStepInv
\* The export reply: only the handshake is owed one.
LEMMA ServerExportsStep ==
  ASSUME StreamInv, ServerExports
  PROVE  StreamInv'
<1>0. TypeOK /\ CallInv /\ HeadersWhole /\ InStepInv /\ OutOfStepInv
  BY DEF StreamInv
<1>1. PICK size \in ExportSizes :
        inbox' = inbox \o <<[kind |-> "size", value |-> size],
                           [kind |-> "zeros", value |-> 0]>>
  BY DEF ServerExports
<1> DEFINE more == <<[kind |-> "size", value |-> size], [kind |-> "zeros", value |-> 0]>>
<1>2. more \in Seq(Units) /\ Len(more) = 2
  BY StreamAssumption DEF Units
<1>3. \A i \in 1 .. Len(more) : ~IsMagic(more[i]) /\ ~IsHandle(more[i])
  BY DEF IsMagic, IsHandle
<1>4. Answers(more) /\ requests[1].kind = "export"
  BY <1>0, <1>1, HeadTail DEF ServerExports, Answers, TypeOK
<1> HIDE DEF more
<1>5. TypeOK' /\ HeadersWhole' /\ OutOfStepInv'
  <2>1. TypeOK'
    BY <1>0, <1>2, <1>4, AnswerExtends
  <2>2. HeadersWhole'
    BY <1>0, <1>2, <1>3, <1>4, AnswerKeepsHeaders
  <2>3. OutOfStepInv'
    <3>1. Len(more) >= 2
          /\ \A i \in 1 .. Len(more) : IsHandle(more[i]) =>
               i >= 2 /\ Head(requests).kind = "read" /\ more[i].value = Head(requests).id
      BY <1>2, <1>3
    <3> QED BY <1>2, <1>4, <3>1, AnswerOutOfStep
  <2> QED BY <2>1, <2>2, <2>3
<1>6. CallInv'
  BY <1>0, <1>4 DEF CallInv, Answers, clientVars
<1>7. InStepInv'
  <2>1. SUFFICES ASSUME ~broken PROVE InStepInv'
    BY <1>4 DEF InStepInv, Answers, clientVars
  <2>2. UNCHANGED <<pc, torn, broken>> /\ requests # <<>>
    BY <1>4 DEF Answers, clientVars
  <2>3. AheadLen' = AheadLen + 2 /\ Len(requests') = Len(requests) - 1
        /\ Len(requests) \in Nat /\ (requests' = <<>> <=> Len(requests') = 0)
        /\ Len(requests) >= 1
    BY <1>0, <1>2, <1>4, AnswerExtends
  <2>4. ~torn /\ Len(requests) = 1 /\ requests' = <<>>
    BY <1>0, <2>1, <2>2, <2>3 DEF InStepInv
  <2>5. pc \in {"export", "closed"} /\ (pc = "export" => AheadLen = 0)
    <3>1. pc \notin {"option", "idle", "send", "data", "banner"}
      BY <1>0, <2>1, <2>2 DEF InStepInv
    <3>2. ASSUME pc = "header" PROVE FALSE
      <4>1. requests[1] = [kind |-> "read", id |-> ReqId, offset |-> asked.offset,
                           len |-> AdjustedLen]
        BY <1>0, <2>1, <2>2, <3>2, Zenon DEF InStepInv
      <4> QED BY <1>4, <4>1
    <3>3. pc = "export" => AheadLen = 0
      BY <1>0, <2>1, <2>2 DEF InStepInv
    <3> QED BY <1>0, <3>1, <3>2, <3>3 DEF TypeOK
  <2> QED BY <2>1, <2>2, <2>3, <2>4, <2>5 DEF InStepInv
<1> QED
  BY <1>4, <1>5, <1>6, <1>7 DEF StreamInv, Answers, clientVars

\* The reply to a read: the one call in progress when the stream is in step, an
\* older one otherwise.
LEMMA ServerRepliesStep ==
  ASSUME StreamInv, ServerReplies
  PROVE  StreamInv'
<1>0. TypeOK /\ CallInv /\ HeadersWhole /\ InStepInv /\ OutOfStepInv
  BY DEF StreamInv
<1> DEFINE r == Head(requests)
<1>1. requests # <<>> /\ r = requests[1] /\ r \in Requests /\ r.kind = "read"
  BY <1>0, HeadTail DEF ServerReplies, TypeOK
<1>2. r.id \in Nat /\ r.offset \in Nat /\ r.len \in Nat
  BY <1>1 DEF Requests
<1> DEFINE Reply(more, error) ==
      /\ more \in Seq(Units) /\ Len(more) = (IF error THEN 2 ELSE 2 + r.len)
      /\ more[1] = [kind |-> IF error THEN "error" ELSE "reply", value |-> 0]
      /\ more[2] = [kind |-> "handle", value |-> r.id]
      /\ \A i \in 3 .. Len(more) : more[i] = [kind |-> "byte", value |-> r.offset + i - 3]
<1>3. \E more, error : error \in BOOLEAN /\ Reply(more, error) /\ Answers(more)
  <2>1. CASE inbox' = inbox \o Header(r.id, TRUE)
    <3> DEFINE h == Header(r.id, TRUE)
    <3>0. /\ h \in Seq(Units) /\ Len(h) = 2 /\ h[1] = [kind |-> "error", value |-> 0]
          /\ h[2] = [kind |-> "handle", value |-> r.id]
      BY <1>2, HeaderIs
    <3> HIDE DEF h
    <3>1. Reply(h, TRUE)
      BY <3>0
    <3> USE DEF h
    <3>2. Answers(Header(r.id, TRUE))
      BY <2>1 DEF ServerReplies, Answers
    <3> HIDE DEF Reply
    <3> QED BY <3>1, <3>2
  <2>2. CASE inbox' = inbox \o Header(r.id, FALSE) \o Bytes(r.offset, r.len)
    <3> DEFINE h == Header(r.id, FALSE)
               b == Bytes(r.offset, r.len)
    <3>1. /\ h \in Seq(Units) /\ Len(h) = 2 /\ h[1] = [kind |-> "reply", value |-> 0]
          /\ h[2] = [kind |-> "handle", value |-> r.id]
      BY <1>2, HeaderIs
    <3>2. /\ b \in Seq(Units) /\ Len(b) = r.len
          /\ \A i \in 1 .. r.len : b[i] = [kind |-> "byte", value |-> r.offset + i - 1]
      BY <1>2, BytesAre
    <3> HIDE DEF h, b
    <3>3. inbox \in Seq(Units)
      BY <1>0 DEF TypeOK
    <3>4. inbox' = inbox \o (h \o b)
      <4>1. inbox' = (inbox \o h) \o b
        BY <2>2, Zenon DEF h, b
      <4> QED BY <3>1, <3>2, <3>3, <4>1, ConcatAssociative, SMTT(30)
    <3>5. /\ h \o b \in Seq(Units) /\ Len(h \o b) = 2 + r.len
          /\ (h \o b)[1] = h[1] /\ (h \o b)[2] = h[2]
          /\ \A i \in 3 .. 2 + r.len : (h \o b)[i] = b[i - 2]
      <4>1. /\ h \o b \in Seq(Units) /\ Len(h \o b) = Len(h) + Len(b)
            /\ \A i \in 1 .. Len(h) : (h \o b)[i] = h[i]
            /\ \A i \in Len(h) + 1 .. Len(h) + Len(b) : (h \o b)[i] = b[i - Len(h)]
        BY <3>1, <3>2, Joined, ZenonT(30)
      <4>2. /\ Len(h \o b) = 2 + r.len
            /\ (h \o b)[1] = h[1] /\ (h \o b)[2] = h[2]
            /\ \A i \in 3 .. 2 + r.len : (h \o b)[i] = b[i - 2]
        BY <3>1, <3>2, <4>1
      <4> QED BY <4>1, <4>2
    <3>6. ASSUME NEW i \in 3 .. 2 + r.len
          PROVE  (h \o b)[i] = [kind |-> "byte", value |-> r.offset + i - 3]
      <4>1. i - 2 \in 1 .. r.len /\ r.offset + (i - 2) - 1 = r.offset + i - 3
        BY <1>2
      <4> QED BY <3>2, <3>5, <4>1
    <3>7. Reply(h \o b, FALSE)
      BY <3>1, <3>5, <3>6
    <3>8. Answers(h \o b)
      BY <3>4 DEF ServerReplies, Answers
    <3> HIDE DEF Reply
    <3> QED BY <3>7, <3>8
  <2> QED BY <2>1, <2>2 DEF ServerReplies
<1>4. PICK more, error : error \in BOOLEAN /\ Reply(more, error) /\ Answers(more)
  BY <1>3
<1>5. \A i \in 1 .. Len(more) :
        /\ IsMagic(more[i]) => i < Len(more) /\ IsHandle(more[i + 1])
        /\ IsHandle(more[i]) => i >= 2 /\ more[i].value = r.id
  <2>1. ASSUME NEW i \in 1 .. Len(more)
        PROVE  /\ IsMagic(more[i]) => i < Len(more) /\ IsHandle(more[i + 1])
               /\ IsHandle(more[i]) => i >= 2 /\ more[i].value = r.id
    <3>1. CASE i = 1
      BY <1>2, <1>4, <3>1 DEF IsMagic, IsHandle
    <3>2. CASE i = 2
      BY <1>4, <3>2 DEF IsMagic, IsHandle
    <3>3. CASE i \in 3 .. Len(more)
      <4>1. more[i] = [kind |-> "byte", value |-> r.offset + i - 3]
        BY <1>4, <3>3
      <4>2. more[i].kind = "byte"
        BY <4>1
      <4> QED BY <4>2 DEF IsMagic, IsHandle
    <3> QED BY <1>2, <1>4, <3>1, <3>2, <3>3
  <2> QED BY <2>1
<1>6. Len(more) >= 2
  BY <1>2, <1>4
<1>7. TypeOK' /\ HeadersWhole' /\ OutOfStepInv'
  BY <1>0, <1>1, <1>4, <1>5, <1>6, AnswerExtends, AnswerKeepsHeaders, AnswerOutOfStep
<1>8. CallInv'
  BY <1>0, <1>4 DEF CallInv, Answers, clientVars
<1>9. InStepInv'
  <2>1. SUFFICES ASSUME ~broken PROVE InStepInv'
    BY <1>4 DEF InStepInv, Answers, clientVars
  <2>2. UNCHANGED <<pc, torn, broken, nextId, asked, exportSize>>
    BY <1>4 DEF Answers, clientVars
  <2>3. /\ AheadLen \in Nat /\ AheadLen' = AheadLen + Len(more)
        /\ Len(requests') = Len(requests) - 1
        /\ Len(requests) \in Nat /\ (requests' = <<>> <=> Len(requests') = 0)
        /\ Len(requests) >= 1
        /\ \A i \in AheadLen + 1 .. AheadLen' : Ahead(i)' = more[i - AheadLen]
    BY <1>0, <1>4, AnswerExtends
  <2>4. ~torn /\ Len(requests) = 1 /\ requests' = <<>>
    BY <1>0, <2>1, <2>3 DEF InStepInv
  <2>5. pc \in {"header", "closed"}
    <3>1. pc \notin {"option", "idle", "send", "data", "banner"}
      BY <1>0, <1>1, <2>1 DEF InStepInv
    <3>2. pc # "export"
      BY <1>0, <1>1, <2>1 DEF InStepInv
    <3> QED BY <1>0, <3>1, <3>2 DEF TypeOK
  <2>6. ASSUME pc = "header" PROVE AheadLen' >= 2 /\ OwnReply'
    <3>1. AheadLen = 0 /\ r = [kind |-> "read", id |-> ReqId, offset |-> asked.offset,
                               len |-> AdjustedLen]
      BY <1>0, <1>1, <2>1, <2>6, Zenon DEF InStepInv
    <3>2. r.id = ReqId /\ r.offset = asked.offset /\ r.len = AdjustedLen
      BY <3>1
    <3>3. AheadLen' = Len(more) /\ \A i \in 1 .. Len(more) : Ahead(i)' = more[i]
      BY <1>2, <1>4, <2>3, <3>1
    <3>4. Ahead(1)' = more[1] /\ Ahead(2)' = more[2]
      BY <1>6, <3>3
    <3>5. more[2] = [kind |-> "handle", value |-> ReqId]
          /\ \A i \in 3 .. Len(more) :
               more[i] = [kind |-> "byte", value |-> asked.offset + i - 3]
      BY <1>4, <3>2
    <3>6. /\ more[1].kind \in {"reply", "error"}
          /\ Len(more) = IF more[1].kind = "error" THEN 2 ELSE 2 + AdjustedLen
      BY <1>4, <3>2
    <3>7. ReqId' = ReqId /\ AdjustedLen' = AdjustedLen /\ asked' = asked
      BY <2>2 DEF ReqId, AdjustedLen
    <3>8. IsMagic(Ahead(1)') /\ Ahead(2)' = [kind |-> "handle", value |-> ReqId']
          /\ AheadLen' = IF Ahead(1)'.kind = "error" THEN 2 ELSE 2 + AdjustedLen'
      BY <3>3, <3>4, <3>5, <3>6, <3>7 DEF IsMagic
    <3>9. ASSUME NEW i \in 3 .. AheadLen'
          PROVE  Ahead(i)' = [kind |-> "byte", value |-> asked'.offset + i - 3]
      <4>1. i \in 1 .. Len(more) /\ i \in 3 .. Len(more)
        BY <3>3
      <4> QED BY <3>3, <3>5, <3>7, <4>1
    <3> QED BY <1>6, <3>3, <3>8, <3>9 DEF OwnReply
  <2> QED BY <2>1, <2>2, <2>4, <2>5, <2>6 DEF InStepInv
<1> QED
  BY <1>4, <1>7, <1>8, <1>9 DEF StreamInv, Answers, clientVars

-----------------------------------------------------------------------------
(* The theorems. *)

\* StreamInv holds in every state: in step, the stream holds exactly what the
\* call in progress is owed; out of step, the handle that a call waits for is
\* never where the call looks for it.
THEOREM StreamInvariant == Spec => []StreamInv
<1>1. Init => StreamInv
  <2> SUFFICES ASSUME Init PROVE StreamInv
    OBVIOUS
  <2>1. PICK g \in Greetings : inbox = <<[kind |-> g, value |-> 0]>>
    BY DEF Init
  <2>2. [kind |-> g, value |-> 0] \in Units /\ ~IsMagic([kind |-> g, value |-> 0])
    BY DEF Units, IsMagic, Greetings
  <2>3. inbox \in Seq(Units) /\ Len(inbox) = 1 /\ inbox[1] = [kind |-> g, value |-> 0]
    BY <2>1, <2>2
  <2>4. torn \in BOOLEAN /\ broken \in BOOLEAN
    BY Zenon DEF Init
  <2>41. TypeOK /\ CallInv
    BY <2>3, <2>4, StreamAssumption DEF Init, TypeOK, CallInv
  <2>5. HeadersWhole
    BY <2>2, <2>3 DEF Init, HeadersWhole
  <2>6. InStepInv /\ OutOfStepInv
    BY <2>3 DEF Init, InStepInv, OutOfStepInv, AheadLen
  <2> QED BY <2>41, <2>5, <2>6 DEF Init, StreamInv
<1>2. StreamInv /\ [Next]_vars => StreamInv'
  <2> SUFFICES ASSUME StreamInv, [Next]_vars PROVE StreamInv'
    OBVIOUS
  <2>1. CASE UNCHANGED vars
    BY <2>1 DEF vars, clientVars, StreamInv, TypeOK, CallInv, HeadersWhole, InStepInv,
       OutOfStepInv, OwnReply, OwnData, HandleFarOff, Older, Debt, Ahead, AheadLen,
       ReqId, AdjustedLen
  <2> QED
    BY <2>1, HandshakeStep, ReadRangeStep, SendStep, SendFailsStep, ReceiveStep,
       CheckHeaderStep, DataCompleteStep, ReceiveFailsStep, DisconnectStep,
       ServerExportsStep, ServerRepliesStep DEF Next, ClientStep
<1> QED
  BY <1>1, <1>2, PTL DEF Spec

\* However many requests are given up, the stream never gets back in step by
\* itself, and while none is, nothing is left in it between calls.
THEOREM StreamInStep == Spec => []InStep
<1>1. StreamInv => InStep
  BY DEF StreamInv, InStepInv, OutOfStepInv, InStep
<1> QED
  BY <1>1, StreamInvariant, PTL
\* A read that succeeds returns the bytes at its own offset, as many as it asked
\* for and the export has, whatever earlier reads left in the stream: a late
\* reply is never taken for the reply to a later request.
THEOREM ReadsReturnTheirBytes == Spec => []RepliesMatch
<1>1. Init => RepliesMatch
  BY DEF Init, RepliesMatch
<1>2. StreamInv /\ RepliesMatch /\ [Next]_vars => RepliesMatch'
  <2> SUFFICES ASSUME StreamInv, RepliesMatch, [Next]_vars PROVE RepliesMatch'
    OBVIOUS
  <2>0. TypeOK /\ CallInv /\ InStepInv /\ OutOfStepInv
        /\ (answer = "data" => pc \in {"idle", "closed"})
    BY DEF StreamInv
  <2>1. ASSUME UNCHANGED <<answer, got, asked, exportSize>> PROVE RepliesMatch'
    BY <2>1 DEF RepliesMatch, AdjustedLen
  <2>2. ASSUME answer' # "data" PROVE RepliesMatch'
    BY <2>2 DEF RepliesMatch
  <2>3. ASSUME NEW offset \in 0 .. exportSize, NEW len \in 0 .. MaxLen,
               ReadRange(offset, len)
        PROVE  RepliesMatch'
    <3>1. CASE answer' = "none"
      BY <2>2, <3>1
    <3>2. CASE answer' = "data"
      <4>0. answer' # "none"
        BY <3>2
      <4>1. /\ asked' = [offset |-> offset, len |-> len] /\ got' = <<>>
            /\ exportSize' = exportSize /\ (len = 0 \/ offset >= exportSize)
        BY <2>3, <4>0, Zenon DEF ReadRange
      <4>2. asked'.offset = offset /\ asked'.len = len /\ exportSize \in Nat
            /\ offset \in Nat /\ len \in Nat
        BY <2>0, <4>1, StreamAssumption DEF TypeOK
      <4>3. ASSUME offset < exportSize PROVE Bytes(offset, AdjustedLen') = <<>>
        <5>1. AdjustedLen' = 0
          BY <4>1, <4>2, <4>3 DEF AdjustedLen, Lesser
        <5>2. Bytes(offset, 0) \in Seq(Units) /\ Len(Bytes(offset, 0)) = 0
          BY <4>2, BytesAre
        <5> QED BY <5>1, <5>2, EmptySeq
      <4> QED BY <4>1, <4>2, <4>3 DEF RepliesMatch
    <3> QED BY <3>1, <3>2, <2>3, Zenon DEF ReadRange
  <2>4. CASE DataComplete
    <3>1. pc = "data" /\ UNCHANGED <<got, asked, exportSize>> /\ Len(got) = AdjustedLen
      BY <2>4 DEF DataComplete
    <3>2. OwnData /\ asked.offset < exportSize
      BY <2>0, <3>1 DEF InStepInv, OutOfStepInv, CallInv
    <3> DEFINE b == Bytes(asked.offset, AdjustedLen)
    <3>3. AdjustedLen \in Nat /\ asked.offset \in Nat /\ exportSize \in Nat
      BY <2>0, AdjustedLenType DEF TypeOK
    <3>4. /\ b \in Seq(Units) /\ Len(b) = AdjustedLen
          /\ \A i \in 1 .. AdjustedLen :
               b[i] = [kind |-> "byte", value |-> asked.offset + i - 1]
      BY <3>3, BytesAre
    <3>5. \A i \in 1 .. AdjustedLen : got[i] = b[i]
      BY <2>0, <3>1, <3>2, <3>4, InboxAhead DEF OwnData
    <3>6. got = b
      <4>1. got \in Seq(Units) /\ Len(got) = Len(b)
        BY <2>0, <3>1, <3>4 DEF TypeOK
      <4> HIDE DEF b
      <4> QED BY <3>4, <3>5, <4>1, SeqEqual
    <3>7. AdjustedLen' = AdjustedLen
      BY <3>1 DEF AdjustedLen
    <3> QED BY <3>1, <3>2, <3>3, <3>6, <3>7 DEF RepliesMatch
  <2>5. CASE Handshake
    <3>1. answer # "data"
      BY <2>0, <2>5 DEF Handshake, CheckBanner, RequestExport, ReadExport, HandshakeFails
    <3>2. answer' \in {answer, "error"}
      BY <2>5 DEF Handshake, CheckBanner, RequestExport, ReadExport, HandshakeFails, Drop
    <3> QED BY <2>2, <3>1, <3>2
  <2>6. CASE Send \/ SendFails \/ Receive \/ CheckHeader \/ ReceiveFails
    <3>1. pc \notin {"idle", "closed"}
      <4>1. CASE Receive
        <5>1. Len(got) < Wanted /\ Len(got) \in Nat
          BY <2>0, <4>1 DEF Receive, TypeOK
        <5> QED BY <5>1 DEF Wanted
      <4>2. CASE ~Receive
        BY <2>6, <4>2 DEF Send, SendFails, CheckHeader, ReceiveFails
      <4> QED BY <4>1, <4>2
    <3>2. answer' = answer \/ answer' = "error"
      <4>1. CASE SendFails \/ ReceiveFails
        BY <4>1 DEF SendFails, ReceiveFails, Fail
      <4>2. CASE CheckHeader
        BY <4>2, Zenon DEF CheckHeader, Fail
      <4> QED BY <2>6, <4>1, <4>2 DEF Send, Receive
    <3> QED BY <2>0, <2>2, <3>1, <3>2
  <2>7. CASE Disconnect \/ ServerExports \/ ServerReplies \/ UNCHANGED vars
    BY <2>1, <2>7 DEF Disconnect, ServerExports, ServerReplies, vars, clientVars
  <2> QED
    BY <2>3, <2>4, <2>5, <2>6, <2>7 DEF Next, ClientStep
<1> QED
  BY <1>1, <1>2, StreamInvariant, PTL DEF Spec
=============================================================================
