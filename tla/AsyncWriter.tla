---------------------------- MODULE AsyncWriter -----------------------------
(***************************************************************************)
(* AsyncWriter (zLog/async_writer.go): goroutines that log a message each  *)
(* through a bounded buffer, the goroutine run that writes them out, a     *)
(* goroutine that calls Sync, and Close.                                   *)
(***************************************************************************)
EXTENDS Naturals, Sequences

CONSTANTS Writers, BufferSize

VARIABLES
  buffer,      \* the channel: the messages queued
  logClosed, stopChan,
  dropped,     \* the messages counted as dropped
  output,      \* history: the messages written to the underlying writer
  writer,      \* per goroutine in Write: "idle", "send" (past the closed test), "returned"
  run,         \* the goroutine run: "select", "flush" (the last one), "done"
  flusher,     \* the goroutine in Sync: "idle", "flush"
  hand,        \* the message each consumer took from the buffer, <<>> without one
  early,       \* history: the messages whose Write had returned when Close began
  closeLog     \* Close: "idle", "stop", "wait", "flush", "report", "returned"

logVars == <<buffer, logClosed, stopChan, dropped, output, writer, run, flusher, hand, early, closeLog>>

Consumers == {"run", "sync", "close"}

LogInit ==
  /\ buffer = <<>> /\ logClosed = FALSE /\ stopChan = FALSE /\ dropped = {} /\ output = {}
  /\ writer = [w \in Writers |-> "idle"] /\ run = "select" /\ flusher = "idle"
  /\ hand = [c \in Consumers |-> <<>>] /\ early = {} /\ closeLog = "idle"

-----------------------------------------------------------------------------
(* Write: the test of closed, then the select on the buffer *)

Write(w) ==
  /\ writer[w] = "idle"
  /\ writer' = [writer EXCEPT ![w] = IF logClosed THEN "returned" ELSE "send"]
  /\ dropped' = IF logClosed THEN dropped \cup {w} ELSE dropped
  /\ UNCHANGED <<buffer, logClosed, stopChan, output, run, flusher, hand, early, closeLog>>

WriteSend(w) ==
  /\ writer[w] = "send" /\ writer' = [writer EXCEPT ![w] = "returned"]
  /\ IF Len(buffer) < BufferSize
     THEN buffer' = Append(buffer, w) /\ UNCHANGED dropped
     ELSE dropped' = dropped \cup {w} /\ UNCHANGED buffer
  /\ UNCHANGED <<logClosed, stopChan, output, run, flusher, hand, early, closeLog>>

-----------------------------------------------------------------------------
(* The consumers: a message is taken, then written under mu *)

Consuming(c) ==
  CASE c = "run" -> run \in {"select", "flush"}
    [] c = "sync" -> flusher = "flush"
    [] c = "close" -> closeLog = "flush"

Take(c) ==
  /\ Consuming(c) /\ hand[c] = <<>> /\ buffer # <<>>
  /\ hand' = [hand EXCEPT ![c] = <<Head(buffer)>>] /\ buffer' = Tail(buffer)
  /\ UNCHANGED <<logClosed, stopChan, dropped, output, writer, run, flusher, early, closeLog>>

WriteOut(c) ==
  /\ hand[c] # <<>>
  /\ output' = output \cup {Head(hand[c])} /\ hand' = [hand EXCEPT ![c] = <<>>]
  /\ UNCHANGED <<buffer, logClosed, stopChan, dropped, writer, run, flusher, early, closeLog>>

\* run: the stop signal, then the last flush
RunStop ==
  /\ run = "select" /\ hand["run"] = <<>> /\ stopChan /\ run' = "flush"
  /\ UNCHANGED <<buffer, logClosed, stopChan, dropped, output, writer, flusher, hand, early, closeLog>>

RunDone ==
  /\ run = "flush" /\ hand["run"] = <<>> /\ buffer = <<>> /\ run' = "done"
  /\ UNCHANGED <<buffer, logClosed, stopChan, dropped, output, writer, flusher, hand, early, closeLog>>

\* Sync calls Flush, at any time and any number of times.
Sync ==
  /\ \/ flusher = "idle" /\ flusher' = "flush"
     \/ flusher = "flush" /\ hand["sync"] = <<>> /\ buffer = <<>> /\ flusher' = "idle"
  /\ UNCHANGED <<buffer, logClosed, stopChan, dropped, output, writer, run, hand, early, closeLog>>

-----------------------------------------------------------------------------
(* Close *)

\* The Close that wins the compare-and-swap.  One that loses it returns nil at once, before the
\* winner has flushed; it changes nothing and is no step here.
CloseCAS ==
  /\ closeLog = "idle" /\ logClosed' = TRUE /\ closeLog' = "stop"
  /\ early' = {w \in Writers : writer[w] = "returned"}
  /\ UNCHANGED <<buffer, stopChan, dropped, output, writer, run, flusher, hand>>

CloseStop ==
  /\ closeLog = "stop" /\ stopChan' = TRUE /\ closeLog' = "wait"
  /\ UNCHANGED <<buffer, logClosed, dropped, output, writer, run, flusher, hand, early>>

CloseWaitMutant ==
  /\ closeLog = "wait" /\ closeLog' = "flush"
  /\ UNCHANGED <<buffer, logClosed, stopChan, dropped, output, writer, run, flusher, hand, early>>

CloseWait ==
  /\ closeLog = "wait" /\ run = "done" /\ closeLog' = "flush"
  /\ UNCHANGED <<buffer, logClosed, stopChan, dropped, output, writer, run, flusher, hand, early>>

\* The flush is over; the number of dropped messages is written and the writer synced.
CloseReturn ==
  /\ closeLog = "flush" /\ hand["close"] = <<>> /\ buffer = <<>> /\ closeLog' = "returned"
  /\ UNCHANGED <<buffer, logClosed, stopChan, dropped, output, writer, run, flusher, hand, early>>

LogNext ==
  \/ \E w \in Writers : Write(w) \/ WriteSend(w)
  \/ \E c \in Consumers : Take(c) \/ WriteOut(c)
  \/ RunStop \/ RunDone \/ Sync \/ CloseCAS \/ CloseStop \/ CloseWait \/ CloseReturn

LogSpec == LogInit /\ [][LogNext]_logVars

-----------------------------------------------------------------------------
(* Properties *)

\* "停止异步写入循环，刷新所有缓冲区": when the Close that closes the writer returns, every message
\* whose Write had returned before it began was written out, is counted as dropped, or is being written by a
\* concurrent Sync; run's last message and the flushes of the three consumers overlap.
ClosePersists ==
  closeLog = "returned" => \A w \in early : w \in output \cup dropped \/ hand["sync"] = <<w>>
=============================================================================
