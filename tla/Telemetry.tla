----------------------------- MODULE Telemetry -----------------------------
(***************************************************************************)
(* The diagnostics of telemetry.go and the way runMCP ends.  Producers     *)
(* (main and a response writer) emit into a bounded queue that never       *)
(* blocks them; a background goroutine encodes the records onto stderr,    *)
(* which its reader may stop draining for ever or close, and where a Write *)
(* may fail unnoticed; Close asks the goroutine to drain the queue and     *)
(* waits 100 ms for it.                                                    *)
(***************************************************************************)
EXTENDS Integers, Sequences, FiniteSets, Functions

CONSTANTS
  Main,         \* the goroutine of runMCP
  Helpers,      \* goroutines of writeMCPResponse that emit too
  QueueSize,    \* capacity of the records channel
  StderrSize,   \* lines the pipe behind stderr holds
  MaxEmits      \* bound: events of one producer

ASSUME TelemetryAssumption ==
  /\ Main \notin Helpers
  /\ IsFiniteSet(Helpers)
  /\ {QueueSize, StderrSize, MaxEmits} \subseteq Nat \ {0}

VARIABLES
  epc,       \* where Emit of a producer is: "out", "put" (past the stopped check)
             \* or "count" (the queue was full, the loss is not yet counted)
  emitted,   \* history: events of a producer that passed the check
  ending,    \* main: "no", "eof", "error", "printed", "waiting", "exited"
  failed,    \* serveMCPWithOptions returned an error
  waited,    \* how Close ended: "no", "done", "late"
  records,   \* the channel; of an event only its producer matters
  dropped,   \* the counter of lost events
  stopped, stop, done,   \* the flag and the two channels closed at the end
  runner,    \* "select", "swap" (has a record), "lock", "encode", "ended"
  draining,  \* the goroutine has seen stop
  carried,   \* telemetry_dropped of the record it holds
  written,   \* history: events stderr has taken
  reported,  \* history: losses those events told of
  unwritten, \* history: events whose Write failed
  forgotten, \* history: losses those events would have told of
  stderr     \* lines in the pipe that nobody has read

producer == <<epc, emitted>>
shutdown == <<ending, failed, waited, stopped, stop>>
consumer == <<done, runner, draining, carried>>
fates == <<written, reported, unwritten, forgotten>>
pipe == <<fates, stderr>>
vars == <<producer, shutdown, records, dropped, consumer, pipe>>

Producers == {Main} \union Helpers

Init ==
  /\ epc = [p \in Producers |-> "out"] /\ emitted = [p \in Producers |-> 0]
  /\ ending = "no" /\ failed = FALSE /\ waited = "no"
  /\ records = <<>> /\ dropped = 0
  /\ stopped = FALSE /\ stop = FALSE /\ done = FALSE
  /\ runner = "select" /\ draining = FALSE /\ carried = 0
  /\ written = 0 /\ reported = 0 /\ unwritten = 0 /\ forgotten = 0 /\ stderr = 0

Counting == {p \in Producers : epc[p] = "count"}
OnTheirWay == {p \in Producers : epc[p] # "out"}
Room == stderr < StderrSize

-----------------------------------------------------------------------------
(* Emit: the check of stopped, later the send, and later the count of a loss. *)

\* main emits while it serves, and once more as it ends (End).  A helper main has
\* timed out on outlives the loop; at the end of the input none is left.
EmitCheck(p) ==
  /\ epc[p] = "out"
  /\ ending = "no" \/ (p # Main /\ failed /\ ending # "exited")
  /\ emitted[p] < MaxEmits
  /\ ~stopped
  /\ epc' = [epc EXCEPT ![p] = "put"]
  /\ emitted' = [emitted EXCEPT ![p] = @ + 1]
  /\ UNCHANGED <<shutdown, records, dropped, consumer, pipe>>

\* Mutant of Offer: the send waits for room.
OfferWaiting(p) ==
  /\ Len(records) < QueueSize
  /\ records' = Append(records, p)
  /\ epc' = [epc EXCEPT ![p] = "out"]

\* Mutant of Offer: one record too many fits.
OfferOneMore(p) ==
  \/ /\ Len(records) <= QueueSize
     /\ records' = Append(records, p)
     /\ epc' = [epc EXCEPT ![p] = "out"]
  \/ /\ Len(records) > QueueSize
     /\ epc' = [epc EXCEPT ![p] = "count"]
     /\ UNCHANGED records

\* select: the queue takes the record, or the default branch goes on to the counter.
Offer(p) ==
  \/ /\ Len(records) < QueueSize
     /\ records' = Append(records, p)
     /\ epc' = [epc EXCEPT ![p] = "out"]
  \/ /\ Len(records) >= QueueSize
     /\ epc' = [epc EXCEPT ![p] = "count"]
     /\ UNCHANGED records

EmitSend(p) ==
  /\ epc[p] = "put"
  /\ ending # "exited"
  /\ Offer(p)
  /\ UNCHANGED <<emitted, shutdown, dropped, consumer, pipe>>

\* dropped.Add(1), by which time the queue may have been drained.
EmitCount(p) ==
  /\ epc[p] = "count"
  /\ ending # "exited"
  /\ dropped' = dropped + 1
  /\ epc' = [epc EXCEPT ![p] = "out"]
  /\ UNCHANGED <<emitted, shutdown, records, consumer, pipe>>

Emit(p) == EmitSend(p) \/ EmitCount(p)

-----------------------------------------------------------------------------
(* The background goroutine. *)

\* Mutant of Receive: the loop that drains after stop leaves the swap out.
ReceiveBare ==
  /\ runner = "select"
  /\ ending # "exited"
  /\ records # <<>>
  /\ records' = Tail(records)
  /\ runner' = IF draining THEN "lock" ELSE "swap"
  /\ UNCHANGED <<producer, shutdown, dropped, done, draining, carried, pipe>>

\* select between a record and stop; with both ready it takes either.
Receive ==
  /\ runner = "select"
  /\ ending # "exited"
  /\ records # <<>>
  /\ records' = Tail(records)
  /\ runner' = "swap"
  /\ UNCHANGED <<producer, shutdown, dropped, done, draining, carried, pipe>>

SeeStop ==
  /\ runner = "select"
  /\ ending # "exited"
  /\ stop /\ ~draining
  /\ draining' = TRUE
  /\ UNCHANGED <<producer, shutdown, records, dropped, done, runner, carried, pipe>>

\* Mutant of Quit: the goroutine returns as soon as it sees stop.
QuitAtOnce ==
  /\ runner = "select"
  /\ ending # "exited"
  /\ draining
  /\ done' = TRUE
  /\ runner' = "ended"
  /\ UNCHANGED <<producer, shutdown, records, dropped, draining, carried, pipe>>

Quit ==
  /\ runner = "select"
  /\ ending # "exited"
  /\ draining
  /\ records = <<>>
  /\ done' = TRUE
  /\ runner' = "ended"
  /\ UNCHANGED <<producer, shutdown, records, dropped, draining, carried, pipe>>

\* Mutant of TakeDropped: the counter is read and left as it is.
TakeDroppedLoad ==
  /\ runner = "swap"
  /\ ending # "exited"
  /\ carried' = dropped
  /\ runner' = "lock"
  /\ UNCHANGED <<producer, shutdown, records, dropped, done, draining, pipe>>

\* The record in hand takes the losses so far along: Swap(0).
TakeDropped ==
  /\ runner = "swap"
  /\ ending # "exited"
  /\ carried' = dropped
  /\ dropped' = 0
  /\ runner' = "lock"
  /\ UNCHANGED <<producer, shutdown, records, done, draining, pipe>>

\* os.Stderr serves one Write at a time; main's takes no longer than its step.
Lock ==
  /\ runner = "lock"
  /\ ending # "exited"
  /\ runner' = "encode"
  /\ UNCHANGED <<producer, shutdown, records, dropped, done, draining, carried, pipe>>

Encode ==
  /\ runner = "encode"
  /\ ending # "exited"
  /\ Room
  /\ stderr' = stderr + 1
  /\ written' = written + 1
  /\ reported' = reported + carried
  /\ carried' = 0
  /\ runner' = "select"
  /\ UNCHANGED <<producer, shutdown, records, dropped, done, draining, unwritten, forgotten>>

\* The error of Encode is discarded: the record is lost and so is the count that
\* was swapped into it.
EncodeFails ==
  /\ runner = "encode"
  /\ ending # "exited"
  /\ unwritten' = unwritten + 1
  /\ forgotten' = forgotten + carried
  /\ carried' = 0
  /\ runner' = "select"
  /\ UNCHANGED <<producer, shutdown, records, dropped, done, draining, written, reported, stderr>>

Runner == Receive \/ SeeStop \/ Quit \/ TakeDropped \/ Lock \/ Encode

-----------------------------------------------------------------------------
(* runMCP after serveMCPWithOptions has returned. *)

\* serveMCPWithOptions returns, at the end of the input or with an error, and main
\* begins to emit server_stop or server_error.
End(how) ==
  /\ ending = "no"
  /\ epc[Main] = "out"
  /\ how = "eof" => OnTheirWay = {}
  /\ ending' = how
  /\ failed' = (how = "error")
  /\ epc' = [epc EXCEPT ![Main] = "put"]
  /\ emitted' = [emitted EXCEPT ![Main] = @ + 1]
  /\ UNCHANGED <<waited, stopped, stop, records, dropped, consumer, pipe>>

\* fmt.Fprintf on stderr: it waits for the Write of the goroutine and for room.
PrintError ==
  /\ ending = "error"
  /\ epc[Main] = "out"
  /\ runner # "encode"
  /\ Room
  /\ stderr' = stderr + 1
  /\ ending' = "printed"
  /\ UNCHANGED <<producer, failed, waited, stopped, stop, records, dropped, consumer, fates>>

\* Its error is discarded as well.
PrintErrorFails ==
  /\ ending = "error"
  /\ epc[Main] = "out"
  /\ runner # "encode"
  /\ ending' = "printed"
  /\ UNCHANGED <<producer, failed, waited, stopped, stop, records, dropped, consumer, pipe>>

Close ==
  /\ ending \in {"eof", "printed"}
  /\ epc[Main] = "out"
  /\ stopped' = TRUE
  /\ stop' = TRUE
  /\ ending' = "waiting"
  /\ UNCHANGED <<producer, failed, waited, records, dropped, consumer, pipe>>

SeeDone ==
  /\ ending = "waiting"
  /\ done
  /\ waited' = "done"
  /\ ending' = "exited"
  /\ UNCHANGED <<producer, failed, stopped, stop, records, dropped, consumer, pipe>>

\* Mutant of GiveUp: Close waits for done only.
GiveUpNever ==
  /\ ending = "waiting"
  /\ done
  /\ waited' = "late"
  /\ ending' = "exited"
  /\ UNCHANGED <<producer, failed, stopped, stop, records, dropped, consumer, pipe>>

\* 100 ms are over; the process ends and the goroutine with it.
GiveUp ==
  /\ ending = "waiting"
  /\ waited' = "late"
  /\ ending' = "exited"
  /\ UNCHANGED <<producer, failed, stopped, stop, records, dropped, consumer, pipe>>

Ending == PrintError \/ Close \/ SeeDone \/ GiveUp

\* A Write to a pipe nobody reads any more raises SIGPIPE, which for stderr ends
\* the process.
BrokenPipe ==
  /\ runner = "encode" \/ (ending = "error" /\ epc[Main] = "out")
  /\ ending # "exited"
  /\ ending' = "exited"
  /\ UNCHANGED <<producer, failed, waited, stopped, stop, records, dropped, consumer, pipe>>

\* Whoever reads stderr.
ReadStderr ==
  /\ stderr > 0
  /\ stderr' = stderr - 1
  /\ UNCHANGED <<producer, shutdown, records, dropped, consumer, fates>>

Next ==
  \/ \E p \in Producers : EmitCheck(p) \/ Emit(p)
  \/ Runner \/ EncodeFails
  \/ \E how \in {"eof", "error"} : End(how)
  \/ Ending \/ PrintErrorFails \/ BrokenPipe
  \/ ReadStderr

\* The scheduler runs every goroutine that can run.  Nobody has to read stderr, and
\* no Write has to fail: a Write without room may wait for ever.
Spec ==
  /\ Init /\ [][Next]_vars
  /\ \A p \in Producers : WF_vars(Emit(p))
  /\ WF_vars(Runner) /\ WF_vars(Ending)

-----------------------------------------------------------------------------
(* Properties. *)

TotalEmitted == SumFunction(emitted)
InHand == IF runner \in {"swap", "lock", "encode"} THEN 1 ELSE 0

\* Types; the queue keeps to its capacity and stderr to its own.
TypeOK ==
  /\ epc \in [Producers -> {"out", "put", "count"}] /\ emitted \in [Producers -> 0..MaxEmits + 1]
  /\ ending \in {"no", "eof", "error", "printed", "waiting", "exited"}
  /\ waited \in {"no", "done", "late"}
  /\ records \in Seq(Producers) /\ Len(records) <= QueueSize /\ dropped \in Nat
  /\ {failed, stopped, stop, done, draining} \subseteq BOOLEAN
  /\ runner \in {"select", "swap", "lock", "encode", "ended"}
  /\ {carried, written, reported, unwritten, forgotten} \subseteq Nat
  /\ stderr \in 0..StderrSize

\* Every event that got past the check is accounted for exactly once: on its way to
\* the queue or the counter, queued, in hand, written, refused by stderr, counted as
\* lost, or lost and told of (or meant to be) by a record, although the counter is
\* raised and swapped by different goroutines.
EveryEventIsAccountedFor ==
  TotalEmitted = Cardinality(OnTheirWay) + Len(records) + InHand + written + unwritten
                 + dropped + carried + reported + forgotten

\* When the queue has run dry and no swap is ahead, telemetry_dropped keeps back at
\* most one loss of each producer: one that found the queue full and is counted
\* only after it has been drained.  All the others have left with a record.
LateLossesAreFew ==
  records = <<>> /\ runner # "swap"
    => dropped + Cardinality(Counting) <= Cardinality(Producers)

\* Close that ended through done left none of main's events in the queue; what is
\* there came from a helper that passed the check before Close set the flag.
CleanCloseTookMainsEvents ==
  waited = "done" => \A i \in DOMAIN records : records[i] # Main

\* Comment of run, and README "a blocked stderr consumer can only drop
\* diagnostics": Emit returns even if stderr is never read again.
EmitReturns ==
  \A p \in Producers : epc[p] # "out" ~> (epc[p] = "out" \/ ending = "exited")

\* At the end of the input the process exits, whoever reads stderr.
ServerStopExits == ending = "eof" ~> ending = "exited"

\* README "the server closes the transport and exits so Codex can restart it
\* instead of hanging forever": claimed of the exit after a transport error.
ServerErrorExits == ending = "error" ~> ending = "exited"
=============================================================================
