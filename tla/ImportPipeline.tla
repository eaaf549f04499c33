-------------------------- MODULE ImportPipeline --------------------------
(***************************************************************************)
(* The pipelined import of the command line: a producer thread parses the  *)
(* file and feeds a bounded channel, run_pipelined_import (main.rs) writes *)
(* batches of RUN+PULL pairs, flushes each batch once and drains the       *)
(* answers with BoltClient::drain_pipeline.  The server answers requests   *)
(* in the order they arrive; after a FAILURE it answers IGNORED until it   *)
(* has processed a RESET.  Records of a result are not told apart from its *)
(* final SUCCESS.                                                          *)
(***************************************************************************)
EXTENDS Naturals, Sequences, FiniteSets

CONSTANTS Statements, BatchSize, QueueCap

VARIABLES producer,   \* the next statement, and how the thread stands
          queue,    \* the mpsc channel
          client,     \* the import loop
          requests,   \* flushed requests that the server has not taken
          responses,  \* answers that the client has not read
          refusing,     \* the session's FAILED state
          executed,   \* history: the statements the server has executed
          answered    \* history: those whose PULL it answered with SUCCESS

importVars == <<producer, queue, client, requests, responses,
                refusing, executed, answered>>

InitImport ==
  /\ producer = [next |-> 1, state |-> "running"]
  /\ queue = <<>>
  /\ client = [at |-> "fill", out |-> <<>>, depth |-> 0, last |-> FALSE,
               inFailed |-> FALSE, count |-> 0, errors |-> 0, error |-> "none",
               open |-> TRUE]
  /\ requests = <<>> /\ responses = <<>>
  /\ refusing = FALSE
  /\ executed = {} /\ answered = {}

\* The producer reaches the end of the file or a line that does not parse.
StopProducing ==
  /\ producer.state = "running"
  /\ \/ producer.next > Statements /\ producer' = [producer EXCEPT !.state = "done"]
     \/ producer.next <= Statements /\ producer' = [producer EXCEPT !.state = "error"]
  /\ UNCHANGED <<queue, client, requests, responses, refusing, executed, answered>>

\* send_stmt blocks while the channel is full and fails once the receiver is
\* gone.
SendStatement ==
  /\ producer.state = "running" /\ producer.next <= Statements
  /\ \/ /\ client.open /\ Len(queue) < QueueCap
        /\ queue' = Append(queue, producer.next)
        /\ producer' = [producer EXCEPT !.next = @ + 1]
     \/ /\ ~client.open
        /\ producer' = [producer EXCEPT !.state = "error"]
        /\ UNCHANGED queue
  /\ UNCHANGED <<client, requests, responses, refusing, executed, answered>>

Produce ==
  \/ SendStatement
  \/ producer.next > Statements /\ StopProducing

\* pipeline_run: a statement joins the batch in the write buffer.
Queue ==
  /\ client.at = "fill" /\ client.depth < BatchSize /\ queue # <<>>
  /\ client' = [client EXCEPT !.depth = @ + 1,
                  !.out = @ \o <<[kind |-> "RUN", stmt |-> Head(queue)],
                                 [kind |-> "PULL", stmt |-> Head(queue)]>>]
  /\ queue' = Tail(queue)
  /\ UNCHANGED <<producer, requests, responses, refusing, executed, answered>>

\* The batch is full, nothing more is ready, or the producer has ended.
Flush ==
  /\ client.at = "fill"
  /\ client.depth > 0
  /\ client.depth = BatchSize \/ queue = <<>>
  /\ requests' = requests \o client.out
  /\ client' = [client EXCEPT !.at = "run", !.out = <<>>, !.inFailed = FALSE,
                  !.last = queue = <<>> /\ producer.state # "running"
                             /\ client.depth < BatchSize]
  /\ UNCHANGED <<producer, queue, responses, refusing, executed, answered>>

\* rx.recv() returns None: the producer has ended and there is no batch.
NothingLeft ==
  /\ client.at = "fill" /\ client.depth = 0 /\ queue = <<>>
  /\ producer.state # "running"
  /\ client' = [client EXCEPT !.at = "close"]
  /\ UNCHANGED <<producer, queue, requests, responses, refusing, executed, answered>>

\* The next pair of drain_pipeline, or the end of the batch.
PairDone(c) ==
  IF c.depth > 1 THEN [c EXCEPT !.depth = @ - 1, !.at = "run"]
  ELSE [c EXCEPT !.depth = 0, !.at = IF c.last THEN "close" ELSE "fill"]

GiveUp(c, why) == [c EXCEPT !.at = "close", !.error = why, !.depth = 0]

\* Mutant: a PULL that is IGNORED counts as a success.
DrainStep_CountIgnored(c, answer) ==
  CASE c.at = "run" /\ c.inFailed -> [c EXCEPT !.at = "skip"]
    [] c.at = "run" /\ ~c.inFailed -> [c EXCEPT !.at = "pull", !.inFailed = answer # "SUCCESS"]
    [] c.at = "pull" -> PairDone([c EXCEPT !.count = @ + 1])
    [] c.at = "skip" -> [c EXCEPT !.at = "reset"]
    [] c.at = "reset" /\ answer = "SUCCESS" ->
         PairDone([c EXCEPT !.inFailed = FALSE, !.errors = @ + 1])
    [] c.at = "reset" /\ answer # "SUCCESS" -> GiveUp(c, "reset")

\* What drain_pipeline does with one answer.  In the refusing state it drops
\* the pair's two answers, sends RESET and takes the next answer for RESET's.
DrainStep(c, answer) ==
  CASE c.at = "run" /\ c.inFailed -> [c EXCEPT !.at = "skip"]
    [] c.at = "run" /\ ~c.inFailed -> [c EXCEPT !.at = "pull", !.inFailed = answer # "SUCCESS"]
    [] c.at = "pull" /\ ~c.inFailed /\ answer = "SUCCESS" -> PairDone([c EXCEPT !.count = @ + 1])
    [] c.at = "pull" /\ (c.inFailed \/ answer # "SUCCESS") ->
         PairDone([c EXCEPT !.inFailed = TRUE, !.errors = @ + 1])
    [] c.at = "skip" -> [c EXCEPT !.at = "reset"]
    [] c.at = "reset" /\ answer = "SUCCESS" ->
         PairDone([c EXCEPT !.inFailed = FALSE, !.errors = @ + 1])
    [] c.at = "reset" /\ answer # "SUCCESS" -> GiveUp(c, "reset")

Receive ==
  /\ client.at \in {"run", "pull", "skip", "reset"}
  /\ responses # <<>>
  /\ client' = DrainStep(client, Head(responses))
  /\ responses' = Tail(responses)
  /\ requests' = IF client'.at = "reset"
                 THEN Append(requests, [kind |-> "RESET", stmt |-> 0])
                 ELSE requests
  /\ UNCHANGED <<producer, queue, refusing, executed, answered>>

\* The drain times out or the connection breaks.
DrainFails ==
  /\ client.at \in {"run", "pull", "skip", "reset"}
  /\ client' = GiveUp(client, "io")
  /\ UNCHANGED <<producer, queue, requests, responses, refusing, executed, answered>>

\* Mutant: the producer is awaited before the receiver is dropped.
CloseChannel_AfterJoin ==
  /\ client.at = "close" /\ client.open /\ producer.state # "running"
  /\ client' = [client EXCEPT !.open = FALSE]
  /\ UNCHANGED <<producer, queue, requests, responses, refusing, executed, answered>>

\* drop(rx), so that a producer blocked on a full queue fails and returns.
CloseChannel ==
  /\ client.at = "close" /\ client.open
  /\ client' = [client EXCEPT !.open = FALSE]
  /\ UNCHANGED <<producer, queue, requests, responses, refusing, executed, answered>>

\* producer.await, then the result of the import.
JoinProducer ==
  /\ client.at = "close" /\ ~client.open /\ producer.state # "running"
  /\ client' = [client EXCEPT !.at = "ended"]
  /\ UNCHANGED <<producer, queue, requests, responses, refusing, executed, answered>>

\* Any RUN may fail; a PULL fails when the connection's query bucket is empty
\* (handle_pull), and then its RUN has been executed.
MayFail(r) == r.kind # "RESET" /\ ~refusing

\* The server takes the next request (handler.rs: dispatch_request).
Serve ==
  /\ requests # <<>>
  /\ LET r == Head(requests)
     IN \E refused \in {FALSE, MayFail(r)} :
        /\ requests' = Tail(requests)
        /\ refusing' = CASE r.kind = "RESET" -> FALSE
                         [] refused          -> TRUE
                         [] OTHER            -> refusing
        /\ responses' = Append(responses,
             CASE r.kind # "RESET" /\ refusing -> "IGNORED"
               [] refused                      -> "FAILURE"
               [] OTHER                        -> "SUCCESS")
        /\ executed' = IF r.kind = "RUN" /\ ~refusing /\ ~refused
                       THEN executed \cup {r.stmt} ELSE executed
        /\ answered' = IF r.kind = "PULL" /\ ~refusing /\ ~refused
                       THEN answered \cup {r.stmt} ELSE answered
  /\ UNCHANGED <<producer, queue, client>>

Ended == client.at = "ended" /\ UNCHANGED importVars

ClientStep == Queue \/ Flush \/ NothingLeft \/ Receive \/ CloseChannel \/ JoinProducer

NextImport == SendStatement \/ StopProducing \/ ClientStep \/ DrainFails \/ Serve \/ Ended

FairImport == WF_importVars(Produce) /\ WF_importVars(ClientStep) /\ WF_importVars(Serve)

SpecImport == InitImport /\ [][NextImport]_importVars /\ FairImport

--------------------------------------------------------------------------
\* The totals run_pipelined_import prints are true when it ends without an
\* error: every parsed statement is counted once, and as a success exactly when
\* the server ran it and answered its PULL.  Whatever happens, no success is
\* reported that was not executed.
CountsAreTrue ==
  /\ answered \subseteq executed
  /\ client.count <= Cardinality(answered)
  /\ (client.at = "ended" /\ client.error = "none") =>
       /\ client.count = Cardinality(answered)
       /\ client.count + client.errors = producer.next - 1

\* Does not hold: a statement counted as failed left nothing behind.  The PULL
\* after a RUN that was executed can be refused (handle_pull).
FailedAreNotExecuted ==
  (client.at = "ended" /\ client.error = "none") => client.count = Cardinality(executed)

\* Between two batches the two streams are empty: every answer has been read
\* for the request it belongs to.
StreamsInStep == client.at = "fill" => requests = <<>> /\ responses = <<>>

\* "Drop rx to unblock producer if we broke early" (main.rs:273): the import ends whatever fails.
ImportEnds == <>(client.at = "ended")

\* "This method sends RESET to recover and continues draining"
\* (bolt_client.rs:341).
DrainRecovers == client.error # "reset"

\* What the import reports is what the server did, and it never takes one
\* statement's answer for another's (drain_pipeline).
ImportIsTrue ==
  CountsAreTrue /\ StreamsInStep

==========================================================================
