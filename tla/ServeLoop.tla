----------------------------- MODULE ServeLoop -----------------------------
(***************************************************************************)
(* The serve loop of mcp.go and the response writer of transport.go.  The  *)
(* main goroutine decodes one request, handles it, and hands the reply to  *)
(* a goroutine of its own that writes it through a buffered writer to the  *)
(* output pipe; main waits for that goroutine or for a timer, whichever    *)
(* select picks.  Sizes are counted in abstract units; a unit of a frame   *)
(* is <<number of its request, position in the frame>>.                    *)
(***************************************************************************)
EXTENDS Integers, Sequences, SequencesExt

CONSTANTS
  MaxRequests,   \* bound: requests of one run
  Limit,         \* maxMCPResponseBytes
  Reserve,       \* mcpResponseEnvelopeReserve
  Envelope,      \* what a frame holds besides its id and its body
  BufSize,       \* room in the bufio.Writer
  PipeSize,      \* room in the operating system's pipe
  IdSizes,       \* sizes of request ids; 0 is an absent or null id
  BodySizes      \* sizes of results and of error messages

ASSUME ServeLoopAssumption ==
  /\ {MaxRequests, Limit, Reserve, Envelope, BufSize, PipeSize} \subseteq Nat \ {0}
  /\ IdSizes \subseteq Nat
  /\ BodySizes \subseteq Nat \ {0}

VARIABLES
  main,      \* "decode", "waiting" (in select), "expired", "failed" (the loop has
             \* returned an error), "closing" (the telemetry), "exited"
  seq,       \* requestSeq
  replies,   \* seq entries: the reply of each request
  held,      \* numbers of the previews stored in the table
  wpc,       \* where the goroutine of each reply is
  outcome,   \* its responseWriteOutcome
  pending,   \* units its present call to the output still has to hand over
  buffer,    \* units in the shared bufio.Writer
  timer,     \* "off", "running", "fired"
  blocked,   \* phase named by the timeout error
  stream,    \* every unit the pipe has taken
  drained,   \* how many of them the client has read
  gone       \* "none", "closed" (by the server), "left" (by the client)

pipe == <<stream, drained>>
mains == <<main, seq, replies, held, timer, blocked>>
vars == <<mains, wpc, outcome, pending, buffer, pipe, gone>>

Numbers == 1..MaxRequests
Kinds == {"bad_version", "builtin", "notice", "unknown", "bad_params", "call", "preview"}
Request == [kind : Kinds, id : IdSizes, body : BodySizes]
Reply == [kind : {"none", "result", "error", "too_big"}, size : Nat]
NoReply == [kind |-> "none", size |-> 0]

Frame(n) == [i \in 1..replies[n].size |-> <<n, i>>]

\* The frames of the replies to requests 1..n, in order.
Frames[n \in 0..MaxRequests] == IF n = 0 THEN <<>> ELSE Frames[n - 1] \o Frame(n)

-----------------------------------------------------------------------------
(* What a request is answered with. *)

\* sendMCPResponse: a result over the limit is replaced by a short error; an
\* error is sent whatever its size.
Sized(kind, id, body) ==
  IF kind = "result" /\ Envelope + id + body > Limit
    THEN [kind |-> "too_big", size |-> Envelope + id + 1]
    ELSE [kind |-> kind, size |-> Envelope + id + body]

\* Mutant of PreviewFits: the envelope is forgotten.
PreviewFitsBare(body) == body <= Limit

\* previewEdits measures the tool result and reserves a fixed size for the rest.
PreviewFits(body) == body + Reserve <= Limit

\* handle: the built-in methods answer with or without an id, a tool call
\* without one is not even run.  bad_version and bad_params have short messages,
\* the message of an unknown method quotes it.
Answer(r) ==
  CASE r.kind = "notice" -> NoReply
    [] r.kind = "builtin" -> Sized("result", r.id, r.body)
    [] r.kind # "builtin" /\ r.id = 0 -> NoReply
    [] r.kind \in {"bad_version", "bad_params"} /\ r.id # 0 -> Sized("error", r.id, 1)
    [] r.kind = "unknown" /\ r.id # 0 -> Sized("error", r.id, r.body)
    [] r.kind = "call" /\ r.id # 0 -> Sized("result", r.id, r.body)
    [] r.kind = "preview" /\ r.id # 0 ->
         Sized("result", r.id, IF PreviewFits(r.body) THEN r.body ELSE 1)

Init ==
  /\ main = "decode" /\ seq = 0 /\ replies = <<>> /\ held = {}
  /\ timer = "off" /\ blocked = "none"
  /\ wpc = [n \in Numbers |-> "none"]
  /\ outcome = [n \in Numbers |-> "none"]
  /\ pending = [n \in Numbers |-> <<>>]
  /\ buffer = <<>> /\ stream = <<>> /\ drained = 0
  /\ gone = "none"

-----------------------------------------------------------------------------
(* The main goroutine. *)

\* One request decoded and handled; a reply starts its goroutine and its timer.
Serve(r) ==
  /\ main = "decode"
  /\ seq < MaxRequests
  /\ seq' = seq + 1
  /\ replies' = Append(replies, Answer(r))
  /\ held' = IF r.kind = "preview" /\ r.id # 0 /\ PreviewFits(r.body) THEN held \union {seq'} ELSE held
  /\ IF Answer(r).kind = "none"
       THEN UNCHANGED <<main, timer, wpc>>
       ELSE main' = "waiting" /\ timer' = "running" /\ wpc' = [wpc EXCEPT ![seq'] = "write"]
  /\ UNCHANGED <<blocked, outcome, pending, buffer, pipe, gone>>

\* The input ends, or does not decode.
EndOfInput ==
  /\ main = "decode"
  /\ main' \in {"closing", "failed"}
  /\ UNCHANGED <<seq, replies, held, timer, blocked, wpc, outcome, pending, buffer, pipe, gone>>

\* select takes the outcome.
TakeOutcome ==
  /\ main = "waiting"
  /\ wpc[seq] = "sent"
  /\ main' = IF outcome[seq] = "ok" THEN "decode" ELSE "failed"
  /\ timer' = "off"
  /\ UNCHANGED <<seq, replies, held, blocked, wpc, outcome, pending, buffer, pipe, gone>>

Fire ==
  /\ main = "waiting"
  /\ timer = "running"
  /\ timer' = "fired"
  /\ UNCHANGED <<main, seq, replies, held, blocked, wpc, outcome, pending, buffer, pipe, gone>>

\* Mutant of TakeTimeout: the deadline covers Flush only.
TakeTimeoutOfFlush ==
  /\ main = "waiting"
  /\ timer = "fired"
  /\ wpc[seq] \notin {"write", "writing"}
  /\ main' = "expired"
  /\ UNCHANGED <<seq, replies, held, timer, blocked, wpc, outcome, pending, buffer, pipe, gone>>

\* select takes the timer, also when the outcome is ready.
TakeTimeout ==
  /\ main = "waiting"
  /\ timer = "fired"
  /\ main' = "expired"
  /\ UNCHANGED <<seq, replies, held, timer, blocked, wpc, outcome, pending, buffer, pipe, gone>>

\* Mutant of CloseOutput: the timeout is reported and the loop goes on.
CloseOutputAndContinue ==
  /\ main = "expired"
  /\ blocked' = IF wpc[seq] \in {"flushing", "flushed"} THEN "flush" ELSE "write"
  /\ main' = "decode"
  /\ UNCHANGED <<seq, replies, held, timer, wpc, outcome, pending, buffer, pipe, gone>>

\* stage is loaded after select has chosen; then the output is closed.
CloseOutput ==
  /\ main = "expired"
  /\ blocked' = IF wpc[seq] \in {"flushing", "flushed"} THEN "flush" ELSE "write"
  /\ gone' = IF gone = "none" THEN "closed" ELSE gone
  /\ main' = "failed"
  /\ UNCHANGED <<seq, replies, held, timer, wpc, outcome, pending, buffer, pipe>>

\* runMCP prints the error to stderr, if stderr ever takes it; the writers go on
\* meanwhile.
PrintError ==
  /\ main = "failed"
  /\ main' = "closing"
  /\ UNCHANGED <<seq, replies, held, timer, blocked, wpc, outcome, pending, buffer, pipe, gone>>

\* The telemetry has been closed; the process ends with every goroutine in it.
Exit ==
  /\ main = "closing"
  /\ main' = "exited"
  /\ UNCHANGED <<seq, replies, held, timer, blocked, wpc, outcome, pending, buffer, pipe, gone>>

-----------------------------------------------------------------------------
(* The goroutine that writes reply n. *)

\* bufio.Writer.Write: a payload that does not fit goes to the output at once.
\* (What an earlier frame left in the buffer would go out ahead of it.)
Write(n) ==
  /\ main # "exited"
  /\ wpc[n] = "write"
  /\ LET all == buffer \o Frame(n)
     IN IF Len(all) <= BufSize
          THEN /\ buffer' = all
               /\ wpc' = [wpc EXCEPT ![n] = "wrote"]
               /\ UNCHANGED pending
          ELSE /\ buffer' = <<>>
               /\ pending' = [pending EXCEPT ![n] = all]
               /\ wpc' = [wpc EXCEPT ![n] = "writing"]
  /\ UNCHANGED <<mains, outcome, pipe, gone>>

\* The pipe takes a unit, also one of a call that was under way at Close.
Output(n) ==
  /\ main # "exited"
  /\ pending[n] # <<>>
  /\ gone # "left"
  /\ Len(stream) - drained < PipeSize
  /\ stream' = Append(stream, Head(pending[n]))
  /\ pending' = [pending EXCEPT ![n] = Tail(@)]
  /\ UNCHANGED <<mains, wpc, outcome, buffer, drained, gone>>

\* The output refuses the rest.
OutputFails(n) ==
  /\ main # "exited"
  /\ pending[n] # <<>>
  /\ gone # "none"
  /\ pending' = [pending EXCEPT ![n] = <<>>]
  /\ outcome' = [outcome EXCEPT ![n] = "error"]
  /\ wpc' = [wpc EXCEPT ![n] = IF @ = "writing" THEN "sent" ELSE "flushed"]
  /\ UNCHANGED <<mains, buffer, pipe, gone>>

WriteReturns(n) ==
  /\ main # "exited"
  /\ wpc[n] = "writing"
  /\ pending[n] = <<>>
  /\ wpc' = [wpc EXCEPT ![n] = "wrote"]
  /\ UNCHANGED <<mains, outcome, pending, buffer, pipe, gone>>

\* Mutant of Flush: the frame is left to the buffer.
FlushSkipped(n) ==
  /\ main # "exited"
  /\ wpc[n] = "wrote"
  /\ wpc' = [wpc EXCEPT ![n] = "flushing"]
  /\ UNCHANGED <<mains, outcome, pending, buffer, pipe, gone>>

\* stage becomes flush, and Flush hands the buffer over.
Flush(n) ==
  /\ main # "exited"
  /\ wpc[n] = "wrote"
  /\ pending' = [pending EXCEPT ![n] = buffer]
  /\ buffer' = <<>>
  /\ wpc' = [wpc EXCEPT ![n] = "flushing"]
  /\ UNCHANGED <<mains, outcome, pipe, gone>>

FlushReturns(n) ==
  /\ main # "exited"
  /\ wpc[n] = "flushing"
  /\ pending[n] = <<>>
  /\ outcome' = [outcome EXCEPT ![n] = "ok"]
  /\ wpc' = [wpc EXCEPT ![n] = "flushed"]
  /\ UNCHANGED <<mains, pending, buffer, pipe, gone>>

\* stage becomes done and the outcome enters its channel, which has room for it.
Report(n) ==
  /\ main # "exited"
  /\ wpc[n] = "flushed"
  /\ wpc' = [wpc EXCEPT ![n] = "sent"]
  /\ UNCHANGED <<mains, outcome, pending, buffer, pipe, gone>>

Writer(n) ==
  Write(n) \/ Output(n) \/ OutputFails(n) \/ WriteReturns(n) \/ Flush(n) \/ FlushReturns(n) \/ Report(n)

-----------------------------------------------------------------------------
(* The client at the other end of the pipe. *)

Drain ==
  /\ drained < Len(stream)
  /\ drained' = drained + 1
  /\ UNCHANGED <<mains, wpc, outcome, pending, buffer, stream, gone>>

Leave ==
  /\ gone = "none"
  /\ gone' = "left"
  /\ UNCHANGED <<mains, wpc, outcome, pending, buffer, pipe>>

\* The sending of a reply, on main's side.
Send == TakeOutcome \/ TakeTimeout \/ CloseOutput

Next ==
  \/ \E r \in Request : Serve(r)
  \/ Send \/ Fire
  \/ EndOfInput \/ PrintError \/ Exit
  \/ \E n \in Numbers : Writer(n)
  \/ Drain
  \/ Leave

\* The Go scheduler runs main in its select and after it, and the timer expires.
\* Neither the client nor a writer, which may sit in a system call for ever, owes
\* anybody a step, nor does main once it decodes or prints to stderr.
Spec == Init /\ [][Next]_vars /\ WF_vars(Send) /\ WF_vars(Fire)

-----------------------------------------------------------------------------
(* Properties. *)

\* Types; the timer runs while main waits; only goroutines of requests that had a
\* reply exist, and only the last one may still be writing.
TypeOK ==
  /\ main \in {"decode", "waiting", "expired", "failed", "closing", "exited"}
  /\ seq \in 0..MaxRequests /\ replies \in Seq(Reply) /\ Len(replies) = seq
  /\ held \subseteq 1..seq
  /\ timer \in {"off", "running", "fired"} /\ blocked \in {"none", "write", "flush"}
  /\ wpc \in [Numbers -> {"none", "write", "writing", "wrote", "flushing", "flushed", "sent"}]
  /\ outcome \in [Numbers -> {"none", "ok", "error"}]
  /\ Len(buffer) <= BufSize /\ drained <= Len(stream) /\ Len(stream) - drained <= PipeSize
  /\ gone \in {"none", "closed", "left"}
  /\ main = "waiting" => timer # "off"
  /\ \A n \in Numbers : wpc[n] # "none" => n <= seq /\ replies[n].kind # "none"
  /\ \A n \in 1..seq - 1 : wpc[n] \in {"none", "sent"}

\* Main and its goroutines share one bufio.Writer without a lock.  Whatever the
\* timer, the client and the goroutines do, also after a timeout, the client's
\* stream is the frames of the replies one after the other, no frame mixed with
\* another, repeated or left out, the last one possibly cut.
StreamIsFramesInOrder == IsPrefix(stream, Frames[seq])

\* When main asks for the next request, every reply so far is in the pipe to its
\* last unit: success is never reported for bytes still in the buffer.
AnsweredInFull == main = "decode" => stream = Frames[seq]

\* README "A rejected preview never issues or retains a preview_id": a preview
\* whose reply the size check of sendMCPResponse replaces is not in the table.
\* It rests on an id and an envelope that fit the reserve of previewEdits.
RejectedPreviewKeepsNothing == \A n \in held : replies[n].kind # "too_big"

\* README "instead of hanging forever in write or flush": whatever the client does,
\* sending a reply comes to an end, in the next request or in an error.  (What may
\* still keep the process from exiting then is Telemetry's matter.)
SendEnds == main = "waiting" ~> main \in {"decode", "failed"}

\* README "The server enforces a 256 KiB safety limit on each encoded JSON-RPC
\* response": claimed of every frame.
EveryFrameWithinLimit == \A n \in 1..seq : replies[n].size <= Limit
=============================================================================
