----------------------------- MODULE NbdStream ------------------------------
(***************************************************************************)
(* NbdStream: the newstyle handshake, and the request and reply exchange    *)
(* that every read of an NBD backend makes, over a byte stream, under one   *)
(* deadline for the handshake and one per request.  A call that runs out of *)
(* time leaves what the server still owes it in the stream, and the parsers *)
(* go on reading after a failed read.                                       *)
(*                                                                          *)
(* The stream from the server is a sequence of units: the banner, the size  *)
(* of the export and the zeros behind it, the two halves of a reply header, *)
(* and bytes of data named by their offset.  Data is never taken for a      *)
(* header: it does not start with the reply magic.                          *)
(***************************************************************************)
EXTENDS Naturals, Sequences

CONSTANTS
  ExportSizes, \* sizes the server may export
  MaxLen,      \* bound: the longest read
  LenWidth,    \* 2^32: the values of a request's length field
  MaxRequests  \* bound: requests of one session

ASSUME StreamAssumption ==
  /\ ExportSizes \subseteq Nat /\ MaxLen \in Nat /\ MaxRequests \in Nat
  /\ LenWidth \in Nat /\ MaxLen < LenWidth  \* the engine reads in chunks

VARIABLES
  pc,       \* "banner", "option", "export"; "idle", "send", "header", "data";
            \* or "closed"
  exportSize, \* export_size
  nextId,   \* request_id
  asked,    \* offset and len of the call in progress or last ended
  got,      \* units the current read_exact_until has received
  answer,   \* how the last call ended
  requests, \* what the server has yet to answer, in order
  inbox,    \* units on their way to the client
  torn,     \* a request was written in part: the server's framing is lost
  broken    \* a call ended without the whole reply to its request

clientVars == <<pc, exportSize, nextId, asked, got, answer, torn, broken>>
vars == <<clientVars, requests, inbox>>

Lesser(a, b) == IF a < b THEN a ELSE b
Bytes(off, n) == [i \in 1 .. n |-> [kind |-> "byte", value |-> off + i - 1]]
Header(id, error) == <<[kind |-> IF error THEN "error" ELSE "reply", value |-> 0],
                       [kind |-> "handle", value |-> id]>>

ReqId == nextId - 1
AdjustedLen == Lesser(asked.len, exportSize - asked.offset)

\* External: the server greets, in the newstyle, in the old one, or as something
\* else.
Greetings == {"newstyle", "oldstyle", "other"}

Init ==
  /\ pc = "banner" /\ exportSize = 0 /\ nextId = 1
  /\ asked = [offset |-> 0, len |-> 0] /\ got = <<>> /\ answer = "none"
  /\ requests = <<>> /\ torn = FALSE /\ broken = FALSE
  /\ \E g \in Greetings : inbox = <<[kind |-> g, value |-> 0]>>

\* What read_exact_until waits for.
Wanted ==
  CASE pc = "banner" -> 1
    [] pc \in {"export", "header"} -> 2
    [] pc = "data" -> AdjustedLen
    [] OTHER -> 0

-----------------------------------------------------------------------------
(* handshake; a failure of it, or its deadline, drops the stream. *)

Drop ==
  /\ pc' = "closed" /\ answer' = "error"
  /\ UNCHANGED <<exportSize, nextId, asked, got, requests, inbox, torn, broken>>

CheckBanner ==
  /\ pc = "banner" /\ Len(got) = 1
  /\ \/ got[1].kind # "newstyle" /\ Drop
     \/ /\ got[1].kind = "newstyle"
        /\ pc' = "option" /\ got' = <<>>
        /\ UNCHANGED <<exportSize, nextId, asked, answer, requests, inbox, torn,
                       broken>>

\* The client's flags and NBD_OPT_EXPORT_NAME.  They do not ask for
\* NBD_FLAG_C_NO_ZEROES.
RequestExport ==
  /\ pc = "option"
  /\ requests' = Append(requests, [kind |-> "export"])
  /\ pc' = "export"
  /\ UNCHANGED <<exportSize, nextId, asked, got, answer, inbox, torn, broken>>

\* Mutant of ReadExport: the reply is taken to end behind the size.
ReadExportSize ==
  /\ pc = "export" /\ Len(got) = 1
  /\ exportSize' = got[1].value
  /\ pc' = "idle" /\ got' = <<>>
  /\ UNCHANGED <<nextId, asked, answer, requests, inbox, torn, broken>>

ReadExport ==
  /\ pc = "export" /\ Len(got) = 2
  /\ exportSize' = got[1].value
  /\ pc' = "idle" /\ got' = <<>>
  /\ UNCHANGED <<nextId, asked, answer, requests, inbox, torn, broken>>

HandshakeFails ==
  /\ pc = "option" \/ (pc \in {"banner", "export"} /\ Len(got) < Wanted)
  /\ Drop

-----------------------------------------------------------------------------
(* Reads. *)

\* read_range; a read of nothing, or beyond the export, does not reach the
\* server.
ReadRange(offset, len) ==
  /\ pc = "idle" /\ nextId <= MaxRequests
  /\ asked' = [offset |-> offset, len |-> len] /\ got' = <<>>
  /\ \/ /\ len = 0 \/ offset >= exportSize
        /\ answer' = "data"
        /\ UNCHANGED <<pc, nextId>>
     \/ /\ len > 0 /\ offset < exportSize
        /\ answer' = "none" /\ pc' = "send" /\ nextId' = nextId + 1
  /\ UNCHANGED <<exportSize, requests, inbox, torn, broken>>

\* write_all_until.  Behind a request that was cut off the server reads
\* requests that nobody made.
Send ==
  /\ pc = "send"
  /\ requests' = Append(requests,
       [kind |-> "read", id |-> IF torn THEN 0 ELSE ReqId,
        offset |-> asked.offset, len |-> AdjustedLen % LenWidth])
  /\ pc' = "header"
  /\ UNCHANGED <<exportSize, nextId, asked, got, answer, inbox, torn, broken>>

\* The call returns an error; the reply it leaves behind stays in the stream.
Fail(inStep) ==
  /\ pc' = "idle" /\ answer' = "error"
  /\ broken' = (broken \/ ~inStep)
  /\ UNCHANGED <<exportSize, nextId, asked, got, requests, inbox>>

\* The deadline passes, or the transport fails, before any byte of the request
\* is written or after some of them.
SendFails ==
  /\ pc = "send"
  /\ \E some \in BOOLEAN : torn' = (torn \/ some) /\ Fail(~some)

\* read_exact_until receives whatever is in the stream.
Receive ==
  /\ inbox # <<>> /\ Len(got) < Wanted
  /\ got' = Append(got, Head(inbox)) /\ inbox' = Tail(inbox)
  /\ UNCHANGED <<pc, exportSize, nextId, asked, answer, requests, torn, broken>>

\* Mutant of CheckHeader: the handle of the reply is not compared.
CheckHeaderWithoutHandle ==
  /\ pc = "header" /\ Len(got) = 2
  /\ \/ /\ got[1].kind # "reply"
        /\ Fail(got[1].kind = "error")
     \/ /\ got[1].kind = "reply"
        /\ pc' = "data" /\ got' = <<>>
        /\ UNCHANGED <<exportSize, nextId, asked, answer, requests, inbox, broken>>
  /\ UNCHANGED torn

\* The three checks of a complete header, in order: magic, error, handle.
CheckHeader ==
  /\ pc = "header" /\ Len(got) = 2
  /\ \/ /\ got[1].kind \notin {"reply", "error"}
        /\ Fail(FALSE)
     \/ /\ got[1].kind = "error"
        /\ Fail(got[2].value = ReqId)
     \/ /\ got[1].kind = "reply" /\ got[2].value # ReqId
        /\ Fail(FALSE)
     \/ /\ got[1].kind = "reply" /\ got[2].value = ReqId
        /\ pc' = "data" /\ got' = <<>>
        /\ UNCHANGED <<exportSize, nextId, asked, answer, requests, inbox, broken>>
  /\ UNCHANGED torn

DataComplete ==
  /\ pc = "data" /\ Len(got) = AdjustedLen
  /\ pc' = "idle" /\ answer' = "data"
  /\ UNCHANGED <<exportSize, nextId, asked, got, requests, inbox, torn, broken>>

\* The deadline of the request passes, or the connection closes.
ReceiveFails ==
  /\ pc \in {"header", "data"} /\ Len(got) < Wanted
  /\ Fail(FALSE)
  /\ UNCHANGED torn

\* disconnect, when the reader is dropped: NBD_CMD_DISC and shutdown, once.
Disconnect ==
  /\ pc = "idle"
  /\ pc' = "closed"
  /\ UNCHANGED <<exportSize, nextId, asked, got, answer, requests, inbox, torn, broken>>

-----------------------------------------------------------------------------

\* External: the export, its size and 124 zeros.
ServerExports ==
  /\ requests # <<>> /\ Head(requests).kind = "export"
  /\ \E size \in ExportSizes :
       inbox' = inbox \o <<[kind |-> "size", value |-> size],
                          [kind |-> "zeros", value |-> 0]>>
  /\ requests' = Tail(requests)
  /\ UNCHANGED clientVars

\* External: qemu-nbd answers requests in order, with the data or with an error;
\* one it cannot make sense of it answers with an error.
ServerReplies ==
  /\ requests # <<>> /\ Head(requests).kind = "read"
  /\ LET r == Head(requests) IN
       \/ inbox' = inbox \o Header(r.id, TRUE)
       \/ /\ r.id # 0
          /\ inbox' = inbox \o Header(r.id, FALSE) \o Bytes(r.offset, r.len)
  /\ requests' = Tail(requests)
  /\ UNCHANGED clientVars

Handshake == CheckBanner \/ RequestExport \/ ReadExport \/ HandshakeFails

ClientStep == Send \/ SendFails \/ Receive \/ CheckHeader \/ DataComplete
                \/ ReceiveFails

Next ==
  \/ Handshake \/ ClientStep \/ Disconnect \/ ServerExports \/ ServerReplies
  \/ \E offset \in 0 .. exportSize, len \in 0 .. MaxLen : ReadRange(offset, len)

Spec == Init /\ [][Next]_vars

-----------------------------------------------------------------------------
(* Properties. *)

\* A call that succeeds returns the bytes at its own offset, as many as it asks
\* for and the export has, never those of an earlier call that was given up.
RepliesMatch ==
  answer = "data" =>
    got = IF asked.offset >= exportSize THEN <<>>
          ELSE Bytes(asked.offset, AdjustedLen)

\* From the handshake on the call in progress is owed one reply at most, and
\* between calls nothing is owed and nothing is left in the stream.  After a call
\* that was given up the stream does not get back in step by itself: no header
\* that a later call receives is the one it waits for, so every later read that
\* reaches the server fails too, and none takes the data of another.
InStep ==
  IF broken THEN pc # "data"
  ELSE /\ Len(requests) <= 1
       /\ pc \in {"idle", "send"} => requests = <<>> /\ inbox = <<>>
-----------------------------------------------------------------------------
(* What the two need to be inductive. *)

Units == [kind : Greetings \cup {"size", "zeros", "reply", "error", "handle", "byte"},
          value : Nat]
Requests == [kind : {"export"}]
              \cup [kind : {"read"}, id : Nat, offset : Nat, len : Nat]

TypeOK ==
  /\ pc \in {"banner", "option", "export", "idle", "send", "header", "data", "closed"}
  /\ exportSize \in Nat /\ nextId \in Nat \ {0}
  /\ asked \in [offset : Nat, len : Nat]
  /\ got \in Seq(Units) /\ inbox \in Seq(Units) /\ requests \in Seq(Requests)
  /\ answer \in {"none", "data", "error"}
  /\ torn \in BOOLEAN /\ broken \in BOOLEAN

\* The stream as the read in progress sees it: what it has received, and what
\* is on its way.
AheadLen == Len(got) + Len(inbox)
Ahead(i) == IF i <= Len(got) THEN got[i] ELSE inbox[i - Len(got)]

IsHandle(unit) == unit.kind = "handle"
IsMagic(unit) == unit.kind \in {"reply", "error"}

\* The client has a request under way in send, header and data, for something
\* that the export has; got is empty until a read begins.
CallInv ==
  /\ asked.offset <= exportSize /\ asked.len <= MaxLen
  /\ pc \in {"banner", "option", "export"} => asked.offset = 0
  /\ pc \in {"send", "header", "data"} =>
       nextId >= 2 /\ asked.offset < exportSize /\ answer = "none"
  /\ pc \in {"option", "send"} => got = <<>>
  /\ Len(got) <= 2 \/ pc \in {"data", "idle", "closed"}

\* A server writes whole headers, so a magic is followed by its handle.
HeadersWhole ==
  /\ \A i \in 1 .. Len(inbox) : IsMagic(inbox[i]) =>
       i < Len(inbox) /\ IsHandle(inbox[i + 1])
  /\ pc = "header" =>
       \A i \in 1 .. Len(got) : IsMagic(got[i]) => i < AheadLen /\ IsHandle(Ahead(i + 1))

\* While no call was given up, the stream holds what the call in progress is owed
\* and nothing else.
OwnReply ==
  /\ IsMagic(Ahead(1)) /\ Ahead(2) = [kind |-> "handle", value |-> ReqId]
  /\ AheadLen = IF Ahead(1).kind = "error" THEN 2 ELSE 2 + AdjustedLen
  /\ \A i \in 3 .. AheadLen :
       Ahead(i) = [kind |-> "byte", value |-> asked.offset + i - 3]
OwnData ==
  /\ AheadLen = AdjustedLen
  /\ \A i \in 1 .. AheadLen :
       Ahead(i) = [kind |-> "byte", value |-> asked.offset + i - 1]
InStepInv ==
  ~broken =>
    /\ ~torn /\ Len(requests) <= 1
    /\ pc \in {"option", "idle", "send", "data", "banner"} => requests = <<>>
    /\ pc \in {"option", "idle", "send"} => inbox = <<>>
    /\ pc = "banner" => AheadLen = 1
    /\ pc = "export" =>
         IF requests = <<>> THEN AheadLen = 2
         ELSE AheadLen = 0 /\ requests[1].kind = "export"
    /\ pc = "header" =>
         IF requests = <<>> THEN AheadLen >= 2 /\ OwnReply
         ELSE AheadLen = 0 /\ requests[1] = [kind |-> "read", id |-> ReqId,
                                 offset |-> asked.offset, len |-> AdjustedLen]
    /\ pc = "data" => OwnData

\* After a call was given up, everything owed to earlier calls is older than the
\* call in progress, and something is: a unit in the stream, a request ahead of
\* the current one, or the lost framing of the server.  So the handle that the
\* call waits for is never the second unit it receives.
Older(n) ==
  /\ \A i \in 1 .. Len(requests) : requests[i].kind = "read" => requests[i].id < n
  /\ \A i \in 1 .. Len(inbox) : IsHandle(inbox[i]) => inbox[i].value < n
Debt == torn \/ Len(inbox) + Len(requests) >= 1
HandleFarOff ==
  /\ \A i \in 1 .. Len(requests) :
       requests[i].kind = "read" /\ (torn \/ i < Len(requests)) => requests[i].id < ReqId
  /\ \A i \in 1 .. AheadLen :
       IsHandle(Ahead(i)) /\ (torn \/ i <= 2 \/ requests # <<>>) => Ahead(i).value < ReqId
  /\ torn \/ AheadLen + Len(requests) >= (IF requests = <<>> THEN 3 ELSE 2)
OutOfStepInv ==
  broken =>
    /\ pc \in {"idle", "send", "header", "closed"}
    /\ Older(nextId)
    /\ pc = "idle" => Debt
    /\ pc = "send" => Debt /\ Older(ReqId)
    /\ pc = "header" => HandleFarOff

StreamInv ==
  /\ TypeOK /\ CallInv /\ HeadersWhole /\ InStepInv /\ OutOfStepInv
  /\ answer = "data" => pc \in {"idle", "closed"}
=============================================================================
