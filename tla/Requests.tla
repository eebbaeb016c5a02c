------------------------------- MODULE Requests -------------------------------
(* What arrives on one HTTP connection of the web server, cut anywhere, and   *)
(* how it becomes requests (wsd/ClientRequestDispatcher, net/Socket.cpp). The *)
(* bytes are cells: the lines of a header, the blank one that ends it, the    *)
(* size line of a chunk, its data and the line end after it.                  *)
EXTENDS Integers, Sequences, SequencesExt

CONSTANTS
  Script,       \* the sequences of requests that a client may send
  WholeChunks,  \* a chunked body comes in one piece
  TmpFails      \* the file for a streamed body cannot be opened

(* What a request does to the connection, whatever its kind.                  *)
Route == {"root", "static", "file", "capabilities", "check", "transfer", "post", "download", "silent", "bad"}
RequestsAssumption ==
  /\ Script \subseteq Seq([route : Route, body : Seq(Nat \ {0}), chunked : BOOLEAN,
                           post : BOOLEAN, close : BOOLEAN])
  /\ {WholeChunks, TmpFails} \subseteq BOOLEAN

VARIABLES
  script,   \* what this client sends
  sent,     \* how many cells of it have come
  input,    \* the connection: its buffer, and the request that is streamed
  again,    \* the poll handles the buffer once more
  handled,  \* the requests that were handled, each with its content
  later,    \* those that are answered by somebody else
  answers   \* what the client was sent

requestVars == <<script, sent, input, again, handled, later, answers>>

Cell(r, kind, n) == [r |-> r, kind |-> kind, n |-> n]
Header(r) == <<Cell(r, "line", 0), Cell(r, "blank", 0)>>
Data(r, n) == [i \in 1 .. n |-> Cell(r, "data", i)]
Chunk(r, n) == <<Cell(r, "size", n)>> \o Data(r, n) \o <<Cell(r, "crlf", 0)>>
Encoded(r, q) ==
  IF q.chunked
    THEN FlattenSeq([i \in DOMAIN q.body |-> Chunk(r, q.body[i])]) \o Chunk(r, 0)
    ELSE FlattenSeq([i \in DOMAIN q.body |-> Data(r, q.body[i])])
Content(r, q) == FlattenSeq([i \in DOMAIN q.body |-> Data(r, q.body[i])])
Stream == FlattenSeq([r \in DOMAIN script |-> Header(r) \o Encoded(r, script[r])])

Init ==
  /\ script \in Script /\ sent = 0 /\ again = FALSE
  /\ input = [buffer |-> <<>>, post |-> <<>>, pending |-> 0, state |-> "open"]
  /\ handled = <<>> /\ later = {} /\ answers = <<>>
-----------------------------------------------------------------------------
(* The buffer of the socket.                                                  *)

Drop(s, n) == SubSeq(s, n + 1, Len(s))
Erase(in, n) == [in EXCEPT !.buffer = Drop(@, n)]

(* asyncShutdown(), and ignoreInput() as well.                                *)
Shutdown(in) == [in EXCEPT !.state = IF @ = "open" THEN "closing" ELSE @]
ShutdownAndIgnore(in) == [in EXCEPT !.state = "ignoring", !.buffer = <<>>]

(* readHeader(): up to the first blank line. A line end that is left over     *)
(* from before is skipped; anything else in front of it is no request.        *)
HeaderSize(s) == IF \E i \in DOMAIN s : s[i].kind = "blank"
                   THEN CHOOSE i \in DOMAIN s : s[i].kind = "blank" /\ \A j \in 1 .. i - 1 : s[j].kind # "blank"
                   ELSE -1
Lines(s) == SelectSeq(SubSeq(s, 1, HeaderSize(s)), LAMBDA c : c.kind # "crlf")
Malformed(s) == Head(Lines(s)).kind # "line"
ReadHeader(s) == Head(Lines(s)).r

Known(q) == ~q.chunked /\ q.body # <<>>
ContentLength(q) == IF Known(q) THEN FoldLeft(+, 0, q.body) ELSE 0

CanStreamToFile(q) == q.post /\ Known(q)

(* parseHeader() compares what has come of the header and the content with    *)
(* the length of the content.                                                 *)
ParseHeader(s, q) == Known(q) => Len(s) >= ContentLength(q)

(* checkChunks(): where the message ends; not yet; or past the end.           *)
NotYet == -1
Undefined == -2
CheckChunks(s, headerSize) ==
  LET end[i \in 1 .. Len(s) + 1] ==
        IF i > Len(s) THEN NotYet
        ELSE LET n == s[i].n available == Len(s) - i
             IN IF s[i].kind # "size" \/ n = 0 THEN i
                ELSE IF n > available + 2 THEN NotYet
                ELSE IF n + 1 > available THEN Undefined
                ELSE end[i + n + 2]
  IN end[headerSize + 1]

(* compactChunks(): the header and the data move together.                    *)
IsSpan(c) == c.kind \notin {"size", "crlf"}
CompactChunks(s, headerSize, end) ==
  SubSeq(s, 1, headerSize) \o SelectSeq(SubSeq(s, headerSize + 1, end), IsSpan) \o Drop(s, end)
-----------------------------------------------------------------------------
(* handleMessage(): where a request goes. All of these are in the thread of   *)
(* the web server; the result says what it does to the connection.            *)

Result(in, how, answer, waits) == [input |-> in, how |-> how, answer |-> answer, waits |-> waits]
Answered(in, how) == Result(in, how, TRUE, FALSE)

(* A bad request, an unknown resource or an exception.                        *)
SendErrorAndShutdown(in) == Answered(ShutdownAndIgnore(in), "ignore")

HandleRootRequest(in) == Answered(in, "sync")
HandleStaticRequest(in) == Answered(in, "sync")
HandleFileRequest(in) == Answered(in, "sync")

(* DNS says first whether the client may convert; a probe asks the host.      *)
HandleCapabilitiesRequest(in) == Result(in, "async", FALSE, TRUE)
HandleWopiAccessCheckRequest(in) == Result(in, "async", FALSE, TRUE)

(* A socket that goes to the thread of the Admin or of a broker.              *)
Transfer(in) == Result([in EXCEPT !.state = "moved"], "async", FALSE, FALSE)

(* insertfile closes; a download is over when it says that it is not.         *)
HandleInsertFile(in) == Answered(ShutdownAndIgnore(in), "sync")
HandleDownload(in) == Answered(in, "async")

(* A media request for a broker that has ended, a search with no document.    *)
HandleSilently(in) == Result(in, "async", FALSE, FALSE)

HandleMessage(in, q) ==
  CASE q.route = "root" -> HandleRootRequest(in)
    [] q.route = "static" -> HandleStaticRequest(in)
    [] q.route = "file" -> HandleFileRequest(in)
    [] q.route = "capabilities" -> HandleCapabilitiesRequest(in)
    [] q.route = "check" -> HandleWopiAccessCheckRequest(in)
    [] q.route = "transfer" -> Transfer(in)
    [] q.route = "post" -> HandleInsertFile(in)
    [] q.route = "download" -> HandleDownload(in)
    [] q.route = "silent" -> HandleSilently(in)
    [] q.route = "bad" -> SendErrorAndShutdown(in)

(* What is left in the buffer of a request that is not streamed.              *)
SocketEraseConsumedBytes(in, headerSize, contentSize, how) ==
  Erase(in, headerSize + IF how = "sync" THEN contentSize ELSE 0)

FinishedMessage(in, q, how) ==
  IF how = "sync" /\ q.close /\ in.state = "open" THEN ShutdownAndIgnore(in) ELSE in

(* handleFullMessage() *)
HandleFullMessage(in, r, content, headerSize, streamed) ==
  LET q == script[r]
      result == HandleMessage(in, q)
      left == IF result.how = "ignore" THEN result.input
              ELSE FinishedMessage(
                     IF streamed THEN result.input
                     ELSE SocketEraseConsumedBytes(result.input, headerSize, Len(content), result.how),
                     q, result.how)
  IN /\ input' = left
     /\ handled' = Append(handled, [r |-> r, content |-> content])
     /\ answers' = IF result.answer THEN Append(answers, r) ELSE answers
     /\ later' = IF result.waits THEN later \cup {r} ELSE later
-----------------------------------------------------------------------------
(* handleIncomingMessage(), which the poll calls again as long as it takes    *)
(* something from the buffer.                                                 *)

Unhandled(in) == input' = in /\ UNCHANGED <<handled, later, answers>>

(* MUTANT: takes all that has come.                                           *)
StreamAll ==
  LET n == Len(input.buffer)
      all == input.post \o SubSeq(input.buffer, 1, n)
      in == [Erase(input, n) EXCEPT !.post = all, !.pending = IF n >= @ THEN 0 ELSE @ - n]
  IN IF in.pending > 0 THEN Unhandled(in)
     ELSE HandleFullMessage([in EXCEPT !.post = <<>>], ReadHeader(all), Drop(all, HeaderSize(all)), 0, TRUE)

(* A streamed body: what is still pending and no more goes to the file.       *)
StreamPost ==
  LET n == IF input.pending < Len(input.buffer) THEN input.pending ELSE Len(input.buffer)
      all == input.post \o SubSeq(input.buffer, 1, n)
      in == [Erase(input, n) EXCEPT !.post = all, !.pending = @ - n]
  IN IF in.pending > 0 THEN Unhandled(in)
     ELSE HandleFullMessage([in EXCEPT !.post = <<>>], ReadHeader(all), Drop(all, HeaderSize(all)), 0, TRUE)

(* The header of one that can be streamed is the first part of the file.      *)
StartStream(q, headerSize) ==
  Unhandled([Erase(input, headerSize) EXCEPT !.post = SubSeq(input.buffer, 1, headerSize),
                                             !.pending = ContentLength(q)])

HandleBuffered(r, q, headerSize) ==
  LET s == input.buffer
      end == IF q.chunked THEN CheckChunks(s, headerSize) ELSE headerSize + ContentLength(q)
      compact == IF q.chunked THEN CompactChunks(s, headerSize, end) ELSE s
      size == IF q.chunked THEN Len(compact) - (Len(s) - end) ELSE end
  IN IF ~ParseHeader(s, q) \/ end = NotYet THEN Unhandled(input)
     ELSE IF end = Undefined THEN Unhandled(Shutdown(input))
     ELSE HandleFullMessage([input EXCEPT !.buffer = compact], r,
                            SubSeq(compact, headerSize + 1, size), headerSize, FALSE)

HandleHeader ==
  LET s == input.buffer
      r == ReadHeader(s)
      q == script[r]
  IN IF HeaderSize(s) < 0 THEN Unhandled(input)
     ELSE IF Malformed(s) THEN Unhandled(Shutdown(input))
     ELSE IF CanStreamToFile(q) /\ ~TmpFails THEN StartStream(q, HeaderSize(s))
     ELSE HandleBuffered(r, q, HeaderSize(s))

HandleIncomingMessage ==
  /\ again /\ input.buffer # <<>> /\ input.state \in {"open", "closing"}
  /\ IF input.pending > 0 THEN StreamPost ELSE HandleHeader
  /\ again' = (Len(input'.buffer) # Len(input.buffer) /\ input'.state # "moved")
  /\ UNCHANGED <<script, sent>>

(* Something comes, cut anywhere.                                             *)
InBody(n) == n < Len(Stream) /\ Stream[n + 1].kind # "line" /\ script[Stream[n].r].chunked
Arrive ==
  /\ sent < Len(Stream) /\ input.state = "open" /\ ~again
  /\ \E n \in sent + 1 .. Len(Stream) :
       /\ WholeChunks => ~InBody(n)
       /\ sent' = n /\ again' = TRUE
       /\ input' = [input EXCEPT !.buffer = @ \o SubSeq(Stream, sent + 1, n)]
  /\ UNCHANGED <<script, handled, later, answers>>

(* sendCapabilities(), sendResult(), if the connection is still there.        *)
SendCapabilities(r) ==
  /\ r \in later /\ script[r].route = "capabilities"
  /\ later' = later \ {r} /\ answers' = Append(answers, r)
  /\ input' = IF script[r].close THEN Shutdown(input) ELSE input
  /\ UNCHANGED <<script, sent, again, handled>>
SendResult(r) ==
  /\ r \in later /\ script[r].route = "check"
  /\ later' = later \ {r} /\ answers' = Append(answers, r) /\ input' = Shutdown(input)
  /\ UNCHANGED <<script, sent, again, handled>>

Next ==
  \/ Arrive
  \/ HandleIncomingMessage
  \/ \E r \in later : SendCapabilities(r) \/ SendResult(r)

Spec == Init /\ [][Next]_requestVars
-----------------------------------------------------------------------------
(* The requests that are handled are the ones that were sent, in that order,  *)
(* each once and with all of its content and nothing of its neighbours'       *)
(* (wsd/ClientRequestDispatcher.cpp, net/Socket.cpp).                         *)
RequestsAreWhole ==
  \A i \in DOMAIN handled :
    handled[i] = [r |-> i, content |-> Content(i, script[i])]
=============================================================================
