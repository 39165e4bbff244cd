------------------------------ MODULE ZipBody ------------------------------
(***************************************************************************)
(* A ZIP file served over HTTP: ActixWebAdapter and its Body               *)
(* (src/actix_web.rs), which reads blocks from a BytesStream               *)
(* (src/bytes.rs), which polls the reader of ZipReader.  The server polls  *)
(* the body or drops it; it does not poll a body that has failed.          *)
(***************************************************************************)
EXTENDS ZipReader

VARIABLES
  request,    \* first and last byte asked for: all, or the first valid range
  body,       \* "none" before respond_to, then how the body was left
  remaining,  \* Body::remaining
  sent,       \* the bytes handed to the server
  channel     \* drop_channel: "none", "open", or "sent"

bodyVars == << request, body, remaining, sent, channel >>
allVars  == << vars, bodyVars >>

BodyStates == {"none", "open", "polling", "ended", "failed", "dropped",
               "panicked"}

(* Reader::into_responder and into_responder_with_channel. *)
BodyInit ==
  /\ Init
  /\ request = << 0, archive.total_size - 1 >>
  /\ body = "none"
  /\ remaining = 0
  /\ sent = << >>
  /\ channel \in {"none", "open"}

-----------------------------------------------------------------------------
(* ActixWebAdapter::respond_to.                                            *)

(* Content-Length of a range, whose ends are both included. *)
RangeLength(first, last) == last - first + 1

(* The first of the ranges that parse_range_header and validate accept; or *)
(* no Range header, which asks for 0 .. size - 1.                          *)
Respond(first, last) ==
  /\ body = "none"
  /\ request' = << first, last >>
  /\ remaining' = RangeLength(first, last)
  /\ SeekFromStart(first)
  /\ Returns("None", 0)
  /\ body' = "open"
  /\ UNCHANGED << sent, channel >>

(* Inner is dropped.  A reader that somebody waits for is taken out of it  *)
(* and sent, otherwise it is gone.                                         *)
DropInner ==
  /\ body' = "dropped"
  /\ IF channel = "open"
     THEN channel' = "sent" /\ SeekFromStart(position) /\ Returns("None", 0)
     ELSE UNCHANGED << vars, channel >>

(* 400 Bad Request and 416 Range Not Satisfiable. *)
Refuse ==
  /\ body = "none"
  /\ DropInner
  /\ UNCHANGED << request, remaining, sent >>

-----------------------------------------------------------------------------
(* Body::poll_next.                                                        *)

(* With nothing remaining the body ends; otherwise poll_read_buf offers    *)
(* the reader an empty buffer of READ_SIZE bytes, which is ScratchSize.    *)
PollNext ==
  /\ body = "open"
  /\ IF remaining = 0
     THEN body' = "ended" /\ UNCHANGED vars
     ELSE body' = "polling" /\ PollRead(ScratchSize)
  /\ UNCHANGED << request, remaining, sent, channel >>

ReaderRuns ==
  /\ body = "polling"
  /\ LoopStep \/ SourceStep
  /\ UNCHANGED bodyVars

(* The block that is passed on, and what remains: the reader may have read *)
(* past the end of the range.                                              *)
Limited_Whole == out
Limited       == IF remaining < Len(out) THEN SubSeq(out, 1, remaining) ELSE out

RemainingAfter_NotReset ==
  IF remaining < Len(out) THEN remaining ELSE remaining - Len(out)
RemainingAfter ==
  IF remaining < Len(out) THEN 0 ELSE remaining - Len(out)

(* Ready(Ok) with no bytes is None for BytesStream, which the body does    *)
(* not expect.                                                             *)
TakeBlock ==
  /\ body = "polling"
  /\ pc = "idle"
  /\ result.kind = "Ok"
  /\ IF out = << >>
     THEN body' = "panicked" /\ UNCHANGED << remaining, sent >>
     ELSE /\ body' = "open"
          /\ sent' = sent \o Limited
          /\ remaining' = RemainingAfter
  /\ UNCHANGED << vars, request, channel >>

(* poll_read_buf drops what was written before an error. *)
NoBlock ==
  /\ body = "polling"
  /\ \/ pc = "idle" /\ result.kind = "Pending" /\ body' = "open"
     \/ pc = "idle" /\ result.kind \in ReadErrors /\ body' = "failed"
     \/ pc = "panicked" /\ body' = "panicked"
  /\ UNCHANGED << vars, request, remaining, sent, channel >>

(* Between two polls the server may drop the body at any time. *)
Drop ==
  /\ body \in {"open", "ended", "failed"}
  /\ DropInner
  /\ UNCHANGED << request, remaining, sent >>

-----------------------------------------------------------------------------

BodyNext ==
  \/ \E first \in 0 .. archive.total_size - 1 :
       \E last \in first .. archive.total_size - 1 : Respond(first, last)
  \/ Refuse
  \/ PollNext
  \/ ReaderRuns
  \/ TakeBlock
  \/ NoBlock
  \/ Drop

BodySpec == BodyInit /\ [][BodyNext]_allVars

(* The server polls an open body, a poll runs, and a source that is asked  *)
(* again and again does not stay pending for ever.  To which of its        *)
(* questions it answers is left open.                                      *)
ServedSpec ==
  /\ BodySpec
  /\ WF_allVars(PollNext)
  /\ WF_allVars(TakeBlock \/ NoBlock)
  /\ WF_allVars(ReaderRuns /\ LoopStep)
  /\ SF_allVars(ReaderRuns /\ SourceAnswers)

-----------------------------------------------------------------------------
(* Properties.                                                             *)

Wanted == request[2] - request[1] + 1

(* What was sent is the beginning of what was asked for, and a body that   *)
(* ended has sent all of it: Content-Length is kept (Body::poll_next).     *)
BodySendsRange ==
  HonestSizes(archive) =>
    /\ sent = Run(request[1], Len(sent))
    /\ Len(sent) <= Wanted
    /\ body = "ended" => Len(sent) = Wanted

(* The expect in Body::poll_next: "The total number of bytes written is    *)
(* limited, we should never reach the actual end of the stream".  Neither  *)
(* does any assertion of the reader fail, honest data or not.              *)
BodyNeverPanics == body # "panicked"

Whole == request = << 0, archive.total_size - 1 >>

(* Data that does not end before byte n of the file: whoever has read so   *)
(* far has not seen that the size was wrong.                               *)
Reaches(i, n) ==
  /\ Entries[i].size # 0
  /\ DataStart(archive, i) + Entries[i].actual >= n
Overruns(i) == Reaches(i, archive.total_size)

(* A download of the whole archive that completes is one of data that has  *)
(* the sizes, and the CRCs, that were promised: anything else surfaces as  *)
(* an error before the end (ReadError), up to an entry whose data is so    *)
(* long that it fills the rest of the response.                            *)
CompleteIsHonest ==
  body = "ended" /\ Whole =>
    \A i \in DOMAIN Entries : Entries[i].size # 0 =>
      \/ /\ Entries[i].actual = Entries[i].size
         /\ Entries[i].crc32 \in {NoCrc, TrueCrc(i)}
      \/ \E j \in 1 .. i : Overruns(j)

(* Something of what follows the data of the entry was sent. *)
Passed(i) == DataStart(archive, i) + Entries[i].size < Len(sent)

(* into_responder_with_channel is "useful to retrieve calculated CRCs      *)
(* after the zip file is served".  Of a download of the whole archive, at  *)
(* any point of it, they are all there that what was sent so far has come  *)
(* to, up to data that reaches as far.  So they are in the reader that is  *)
(* sent when the body is dropped, a source pending or not, and that reader *)
(* is one to go on with: it holds on to no source of the old, and its next *)
(* byte is the one at tell().                                              *)
ReaderComesBack ==
  /\ channel = "sent" =>
       body = "dropped" /\ pinned = Nothing /\ position = Cursor
  /\ Whole => \A i \in DOMAIN Entries : Passed(i) =>
       crc32[i] # NoCrc \/ \E j \in 1 .. i : Reaches(j, Len(sent))

(* Of an entry whose CRC is not known, the data has come to its end and    *)
(* there is still something of it to skip: it is shorter than it said.     *)
SkippingPastEnd ==
  /\ current_chunk.kind = "EntryData" /\ pinned.state = "FileReader"
  /\ SkipsByReading /\ to_skip > 0 /\ SourceAtEof

(* A response comes to an end: it is complete, has failed or was dropped,  *)
(* unless it stays for ever where data ended while it was skipped.         *)
ResponseEnds ==
  body = "open" ~>
    body \in {"ended", "failed", "dropped"} \/ []SkippingPastEnd

(* Comment in read_entry_data, where the skipping met the end of the data: *)
(* "the reported size was wrong (and we will return an error later)".      *)
ErrorComesLater ==
  pc = "pull" /\ to_skip > 0 ~> body \in {"failed", "dropped"}

=============================================================================
