----------------------------- MODULE StatsReporter ----------------------------
(***************************************************************************)
(* The way of an event from a tool call to the queue: the HTTP reporter    *)
(* (internal/stats/http_reporter.go) with its bounded buffer and its one   *)
(* drain goroutine, and the ingest Lambda (cmd/ingest) that authenticates  *)
(* a POST and hands its body to SQS.  Every tool call records one event,   *)
(* so an event is named by its call.                                       *)
(*                                                                         *)
(* The reporter posts an event once; its timeout, and the signal that      *)
(* cancels its context, end the wait for the answer and not the Lambda     *)
(* invocation.  The SDK in the Lambda does retry: when the answer of a     *)
(* SendMessage is lost, the queue gets the event again as a new message.   *)
(***************************************************************************)
EXTENDS Naturals, Sequences, FiniteSets

CONSTANTS
    Calls,
    BufferSize,    \* 256 in the code
    MaxLost,       \* bound on the answers of SendMessage lost in one invocation
    Configs,       \* the environments of the process
    None

ASSUME ReporterAssumption ==
    /\ BufferSize \in Nat \ {0}
    /\ MaxLost \in Nat
    /\ Configs \subseteq [ optOut : BOOLEAN, url : BOOLEAN, token : {"none", "right", "wrong"} ]
    /\ None \notin Calls

VARIABLES
    config,     \* what the environment of the process says about telemetry
    stopped,    \* the context of the reporter is cancelled
    recorded,   \* the calls that called RecordToolCall
    buffer,     \* the channel events
    dropped,    \* the events behind the counter dropped
    drain,      \* where the drain goroutine is
    sending,    \* the event it is sending
    sent,       \* the events whose send has returned
    lambda,     \* the Lambda invocation of each event
    queued,     \* the number of messages in SQS with the event
    unanswered  \* the number of those whose SendMessage got no answer

reporter == <<recorded, buffer, dropped>>
draining == <<drain, sending, sent>>
ingest == <<lambda, queued, unanswered>>
reporterVars == <<config, stopped, reporter, draining, ingest>>

\* buildStatsReporter: otherwise it is the NoopReporter.
Reports == ~config.optOut /\ config.url /\ config.token # "none"

ReporterTypeOK ==
    /\ config \in Configs
    /\ stopped \in BOOLEAN
    /\ recorded \subseteq Calls
    /\ buffer \in Seq(Calls) /\ Len(buffer) <= BufferSize
    /\ dropped \subseteq Calls
    /\ drain \in {"select", "send", "exited"}
    /\ sending \in Calls \cup {None}
    /\ drain = "send" <=> sending # None
    /\ sent \subseteq Calls
    /\ lambda \in [Calls -> {"idle", "running", "ended"}]
    /\ queued \in [Calls -> 0 .. MaxLost + 1]
    /\ unanswered \in [Calls -> 0 .. MaxLost]

ReporterInit ==
    /\ config \in Configs
    /\ stopped = FALSE
    /\ recorded = {}
    /\ buffer = << >>
    /\ dropped = {}
    /\ drain = "select"
    /\ sending = None
    /\ sent = {}
    /\ lambda = [c \in Calls |-> "idle"]
    /\ queued = [c \in Calls |-> 0]
    /\ unanswered = [c \in Calls |-> 0]
-------------------------------------------------------------------------------
(* RecordToolCall, in the goroutine of the tool call.                      *)

\* Faulty: one event more than the channel holds.
HasRoomForOneMore == Len(buffer) <= BufferSize

HasRoom == Len(buffer) < BufferSize

\* Faulty: the event waits for room.
RecordBlocking(c) ==
    /\ recorded' = recorded \cup {c}
    /\ Reports => HasRoom
    /\ buffer' = IF Reports THEN Append(buffer, c) ELSE buffer
    /\ UNCHANGED dropped

\* Faulty: a full buffer makes room by forgetting its oldest event.
RecordOverOldest(c) ==
    /\ recorded' = recorded \cup {c}
    /\ buffer' = IF ~Reports THEN buffer
                 ELSE IF HasRoom THEN Append(buffer, c) ELSE Append(Tail(buffer), c)
    /\ UNCHANGED dropped

\* The event goes into the channel if it has room, and else is dropped and counted.
RecordToolCall(c) ==
    /\ recorded' = recorded \cup {c}
    /\ \/ Reports /\ HasRoom /\ buffer' = Append(buffer, c) /\ UNCHANGED dropped
       \/ Reports /\ ~HasRoom /\ dropped' = dropped \cup {c} /\ UNCHANGED buffer
       \/ ~Reports /\ UNCHANGED <<buffer, dropped>>
-------------------------------------------------------------------------------
(* The drain goroutine.  When the context is cancelled and the buffer is   *)
(* not empty, select takes either case.                                    *)

Take ==
    /\ drain = "select"
    /\ buffer # << >>
    /\ drain' = "send"
    /\ sending' = Head(buffer)
    /\ buffer' = Tail(buffer)
    /\ UNCHANGED <<config, stopped, recorded, dropped, sent, ingest>>

DrainExits ==
    /\ Reports
    /\ drain = "select"
    /\ stopped
    /\ drain' = "exited"
    /\ UNCHANGED <<config, stopped, reporter, sending, sent, ingest>>

\* The POST reaches the Lambda.
Post ==
    /\ drain = "send"
    /\ ~stopped
    /\ lambda[sending] = "idle"
    /\ lambda' = [lambda EXCEPT ![sending] = "running"]
    /\ UNCHANGED <<config, stopped, reporter, draining, queued, unanswered>>

\* Faulty: a POST without an answer is repeated.
SendRepeats ==
    /\ drain = "send"
    /\ \/ /\ lambda[sending] = "ended"
          /\ drain' = "select"
          /\ sending' = None
          /\ sent' = sent \cup {sending}
          /\ UNCHANGED ingest
       \/ /\ lambda' = [lambda EXCEPT ![sending] = "running"]
          /\ UNCHANGED <<draining, queued, unanswered>>
    /\ UNCHANGED <<config, stopped, reporter>>

\* send returns: an answer of any status, no connection, the timeout, or the signal.
SendReturns ==
    /\ drain = "send"
    /\ drain' = "select"
    /\ sending' = None
    /\ sent' = sent \cup {sending}
    /\ UNCHANGED <<config, stopped, reporter, ingest>>
-------------------------------------------------------------------------------
(* One invocation of the Lambda.                                           *)

\* The reporter's request: a POST with a JSON body and its token.
Verdict(token, method, body) ==
    CASE token # "right" -> 401
      [] token = "right" /\ method # "POST" -> 405
      [] token = "right" /\ method = "POST" /\ body # "json" -> 400
      [] OTHER -> 202

\* Handle answers without calling SQS, or the invocation is killed.
HandleEnds(c) ==
    /\ lambda[c] = "running"
    /\ lambda' = [lambda EXCEPT ![c] = "ended"]
    /\ UNCHANGED <<config, stopped, reporter, draining, queued, unanswered>>

\* SendMessage works, or works and its answer is lost, and then the SDK tries again.
\* An attempt that fails leaves nothing behind.
SendMessage(c) ==
    /\ lambda[c] = "running"
    /\ Verdict(config.token, "POST", "json") = 202
    /\ queued' = [queued EXCEPT ![c] = @ + 1]
    /\ \/ /\ lambda' = [lambda EXCEPT ![c] = "ended"]
          /\ UNCHANGED unanswered
       \/ /\ unanswered[c] < MaxLost
          /\ unanswered' = [unanswered EXCEPT ![c] = @ + 1]
          /\ UNCHANGED lambda
    /\ UNCHANGED <<config, stopped, reporter, draining>>
-------------------------------------------------------------------------------
Drain == Take \/ DrainExits \/ Post \/ SendReturns
Ingest == \E c \in Calls : HandleEnds(c) \/ SendMessage(c)
-------------------------------------------------------------------------------
(* Properties.                                                             *)

\* In how many places the event of a call is.
Places(c) == Cardinality({ i \in 1 .. Len(buffer) : buffer[i] = c })
             + Cardinality({ s \in {dropped, {sending}, sent} : c \in s })

\* No event gets lost in the process without a trace, whatever the buffer, the drain
\* goroutine and the shutdown do: a recorded event is in the buffer, being sent,
\* sent, or counted as dropped, in one of these and once.
EventsAccounted ==
    \A c \in Calls : Places(c) = IF Reports /\ c \in recorded THEN 1 ELSE 0

\* An event is in the queue once, and once more for each SendMessage whose answer
\* was lost; a dropped event, or one posted with a wrong token, never.
NoDuplicateUnlessUnanswered ==
    \A c \in Calls : /\ queued[c] <= 1 + unanswered[c]
                     /\ queued[c] > 0 => c \notin dropped /\ config.token = "right"
===============================================================================
