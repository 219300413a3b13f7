------------------------------ MODULE Logging -------------------------------
(***************************************************************************)
(* Logging (src/logging.c) over the life of the program (src/main.c): the  *)
(* command line sets it up, every part logs, lines are flushed at once or  *)
(* by a timer, and the flight recorder keeps the last messages of every    *)
(* severity for a dump: on SIGUSR2, on a fatal error, and when the HTTPS   *)
(* client (src/https_client.c) runs out of slots for its sockets.          *)
(*                                                                         *)
(* Messages are numbered. Those of the actions below, too, are instances   *)
(* of Message, except the one a dump begins with.                          *)
(***************************************************************************)
EXTENDS Options, RingBuffer

CONSTANTS
  CommandLines,   \* sequences of options, whose numbers are unsigned
  MaxMessages,    \* bound: messages logged outside the dumps of SIGUSR2
  MaxSignals,     \* bound: SIGUSR2 signals
  MaxFailures     \* bound: messages there is no memory for

ASSUME BoundsAssumption == MaxMessages \in Nat /\ MaxSignals \in Nat /\ MaxFailures \in Nat
ASSUME CommandLinesAssumption ==
  \A args \in CommandLines :
    /\ Len(args) \in Nat
    /\ \A i \in 1..Len(args) : args[i].c \in DOMAIN NumberField => args[i].text.number \in Nat

LOG_FLUSH_LEVEL == LOG_WARNING

VARIABLES
  phase,      \* "options", "setup", "loop", "drain"; "exit", "fatal", "killed"
  opt,
  logfile,    \* "NULL", "logfd" or "stdout"
  loglevel,
  flight_recorder,
  logging_timer,   \* active
  sigusr2,         \* active, and with it flight_recorder_async
  async_sent,      \* flight_recorder_async is pending
  unflushed,  \* lines written are still in the buffer of logfile
  count,      \* number of the last message
  kept,       \* history: numbers of the messages put into the recorder
  lost,       \* history: number of the last message without memory
  failures,   \* history: number of such messages
  signals,    \* history: number of SIGUSR2 signals
  dumped      \* history: the last dump

recVars == <<flight_recorder, count, kept, lost, failures>>
eventVars == <<logging_timer, sigusr2, async_sent, signals>>
fileVars == <<logfile, loglevel, unflushed>>
vars == <<phase, opt, recVars, eventVars, fileVars, dumped>>

Running == phase \in {"setup", "loop", "drain"}
Recording == flight_recorder # NoBuffer

Init ==
  /\ phase = "options"
  /\ opt = options_init
  /\ logfile = "NULL" /\ loglevel = LOG_ERROR /\ unflushed = FALSE
  /\ flight_recorder = NoBuffer
  /\ count = 0 /\ kept = <<>> /\ lost = 0 /\ failures = 0
  /\ logging_timer = FALSE /\ sigusr2 = FALSE /\ async_sent = FALSE /\ signals = 0
  /\ dumped = <<>>

-----------------------------------------------------------------------------
(* main(): options_parse_args and logging_init. Without a file fdopen can   *)
(* use, neither the level nor the recorder is set.                          *)
start(args, opened, has_memory) ==
  /\ phase = "options"
  /\ opt' = options_parse_args(args)
  /\ opt'.logfile = "unopenable" => ~opened
  /\ IF opt'.parsed = "OPR_SUCCESS"
     THEN /\ phase' = "setup"
          /\ logfile' = IF opened THEN "logfd" ELSE "NULL"
          /\ loglevel' = IF opened THEN opt'.loglevel ELSE loglevel
          /\ flight_recorder' =
               IF opened /\ has_memory /\ opt'.flight_recorder_size >= 1
               THEN ring_buffer_init(opt'.flight_recorder_size) ELSE NoBuffer
     ELSE phase' = "exit" /\ UNCHANGED <<logfile, loglevel, flight_recorder>>
  /\ UNCHANGED <<unflushed, count, kept, lost, failures, eventVars, dumped>>

(* _log: the recorder takes messages of any severity, the file those of its *)
(* level; nothing is done if neither wants it.                              *)
Wanted(severity) == severity >= loglevel \/ Recording

Record(has_memory) ==
  /\ count' = count + 1
  /\ flight_recorder' =
       IF Recording THEN ring_buffer_push_back(flight_recorder, count', has_memory)
       ELSE flight_recorder
  /\ has_memory \/ (Recording /\ failures < MaxFailures)
  /\ failures' = IF has_memory THEN failures ELSE failures + 1
  /\ lost' = IF has_memory THEN lost ELSE count'
  /\ kept' = IF Recording /\ has_memory THEN Append(kept, count') ELSE kept

WriteLine(severity) ==
  /\ logfile' = IF logfile = "NULL" THEN "stdout" ELSE logfile
  /\ unflushed' = IF severity >= loglevel THEN severity < LOG_FLUSH_LEVEL ELSE unflushed
  /\ UNCHANGED loglevel

Dump_BeforeMessage == IF Recording THEN ring_buffer_dump(flight_recorder) ELSE <<>>

Dump == IF Recording THEN ring_buffer_dump(flight_recorder') ELSE <<>>

(* A message of any part; a fatal one ends the program after a dump. *)
Message(severity, has_memory) ==
  /\ Running
  /\ count < MaxMessages
  /\ Wanted(severity)
  /\ Record(has_memory)
  /\ WriteLine(severity)
  /\ phase' = IF severity = LOG_FATAL THEN "fatal" ELSE phase
  /\ dumped' = IF severity = LOG_FATAL THEN Dump ELSE dumped
  /\ UNCHANGED <<opt, eventVars>>

-----------------------------------------------------------------------------
(* "don't start timer if we will never write messages that are not flushed" *)
NeedsTimer_Debug == loglevel < LOG_INFO

NeedsTimer == loglevel < LOG_FLUSH_LEVEL

logging_events_init ==
  /\ phase = "setup"
  /\ phase' = "loop"
  /\ logging_timer' = NeedsTimer
  /\ sigusr2' = TRUE
  /\ UNCHANGED <<opt, recVars, async_sent, signals, fileVars, dumped>>

logging_timer_cb ==
  /\ phase = "loop" /\ logging_timer
  /\ unflushed' = FALSE
  /\ UNCHANGED <<phase, opt, recVars, eventVars, logfile, loglevel, dumped>>

(* SIGUSR2. Without its watcher the signal ends the process. *)
Sigusr2 ==
  /\ Running
  /\ signals < MaxSignals
  /\ signals' = signals + 1
  /\ IF sigusr2 THEN async_sent' = TRUE /\ UNCHANGED phase
     ELSE phase' = "killed" /\ UNCHANGED async_sent
  /\ UNCHANGED <<opt, recVars, logging_timer, sigusr2, fileVars, dumped>>

(* logging_flight_recorder_dump: its message comes first and is thereby the *)
(* last one of the dump, whose end flushes the file if it is not empty.     *)
logging_flight_recorder_dump(has_memory) ==
  /\ IF Wanted(LOG_INFO)
     THEN /\ Record(has_memory)
          /\ logfile' = IF logfile = "NULL" THEN "stdout" ELSE logfile
          /\ dumped' = Dump
          /\ unflushed' = (dumped' = <<>> /\ (unflushed \/ LOG_INFO >= loglevel))
     ELSE UNCHANGED <<recVars, logfile, unflushed, dumped>>
  /\ UNCHANGED <<phase, opt, logging_timer, sigusr2, signals, loglevel>>

logging_flight_recorder_dump_async_cb(has_memory) ==
  /\ phase = "loop" /\ async_sent
  /\ async_sent' = FALSE
  /\ logging_flight_recorder_dump(has_memory)

(* No slot is left for a socket: a dump without a signal, also while the    *)
(* loop is drained. The errors logged before it are instances of Message.   *)
multi_sock_cb(has_memory) ==
  /\ phase \in {"loop", "drain"}
  /\ count < MaxMessages
  /\ logging_flight_recorder_dump(has_memory)
  /\ UNCHANGED async_sent

(* SIGINT or SIGTERM: main() stops the watchers and drains the loop. *)
logging_events_cleanup ==
  /\ phase = "loop"
  /\ phase' = "drain"
  /\ logging_timer' = FALSE /\ sigusr2' = FALSE /\ async_sent' = FALSE
  /\ UNCHANGED <<opt, recVars, signals, fileVars, dumped>>

logging_cleanup ==
  /\ phase = "drain"
  /\ phase' = "exit"
  /\ flight_recorder' = NoBuffer
  /\ logfile' = "NULL"
  /\ unflushed' = FALSE
  /\ UNCHANGED <<opt, count, kept, lost, failures, eventVars, loglevel, dumped>>

Ended ==
  /\ phase \in {"exit", "fatal", "killed"}
  /\ UNCHANGED vars

Next ==
  \/ \E args \in CommandLines, opened, has_memory \in BOOLEAN : start(args, opened, has_memory)
  \/ \E severity \in LOG_DEBUG..LOG_FATAL, has_memory \in BOOLEAN : Message(severity, has_memory)
  \/ logging_events_init
  \/ logging_timer_cb
  \/ Sigusr2
  \/ \E has_memory \in BOOLEAN : logging_flight_recorder_dump_async_cb(has_memory)
  \/ \E has_memory \in BOOLEAN : multi_sock_cb(has_memory)
  \/ logging_events_cleanup
  \/ logging_cleanup
  \/ Ended

Spec == Init /\ [][Next]_vars

(* main() goes on to the loop and, once it is drained (ShutdownEnds of      *)
(* Proxy), to its end; libev runs pending watchers and timers that are due. *)
FairSpec ==
  /\ Spec
  /\ WF_vars(logging_events_init)
  /\ WF_vars(logging_timer_cb)
  /\ WF_vars(\E has_memory \in BOOLEAN : logging_flight_recorder_dump_async_cb(has_memory))
  /\ WF_vars(logging_cleanup)

-----------------------------------------------------------------------------
(* -F: "storing desired amount of logs from all levels": while the program  *)
(* runs, a dump shows the last messages, as many as were asked for, in      *)
(* order and without a gap, wherever the buffer wraps. Only the oldest may  *)
(* be missing, right after a message there was no memory for.               *)
RecorderHoldsTheLast ==
  Recording =>
    LET dump == ring_buffer_dump(flight_recorder)
        older == Len(kept) - Len(dump)
        size == opt.flight_recorder_size
    IN /\ Len(dump) = IF Len(kept) < size THEN Len(kept) ELSE size
       /\ \A k \in 1..Len(dump) :
            dump[k] = kept[older + k] \/ (k = 1 /\ Len(dump) = size /\ lost = count)

(* No line stays in the buffer for good, whichever level, file and timer    *)
(* the command line led to, unless a signal kills the process.              *)
LinesAreFlushed == unflushed ~> (~unflushed \/ phase = "killed")

(* "dumping them on fatal error or on SIGUSR2 signal" and "will be also at  *)
(* the end of the dump": a signal in the loop is followed by a dump of what *)
(* was logged before it and ends with a newer message, unless the program   *)
(* is shut down first or has no memory for the message.                     *)
SignalLeadsToDump ==
  \A n \in 0..(MaxMessages + MaxSignals) :
    (async_sent /\ Recording /\ count = n) ~>
      (phase # "loop" \/ lost > n \/ (dumped # <<>> /\ dumped[Len(dumped)] > n))
=============================================================================
