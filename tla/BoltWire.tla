----------------------------- MODULE BoltWire -----------------------------
(***************************************************************************)
(* One Bolt connection, byte by byte: the chunked framing of bolt_frame.rs *)
(* over a stream that delivers bytes when it likes and may be cut at any   *)
(* moment, the messages of bolt_message.rs, the calls of BoltClient        *)
(* (bolt_client.rs) and the part of BoltHandler (handler.rs) that answers  *)
(* them and hands out the rows of a result.  What a write leaves unflushed *)
(* may stay in the TLS layer for ever.  Names of entries are one byte.     *)
(***************************************************************************)
EXTENDS PackStream

CONSTANTS ChunkMax,      \* MAX_CHUNK_SIZE
          MessageMax,    \* max_message_size of both readers
          Results,       \* query text -> what it returns: [cols, rows, stats]
          Scripts        \* what clients do, one sequence of calls each

ASSUME WireBounds == ChunkMax \in 1..65535 /\ MessageMax \in Nat

VARIABLES pipe,          \* the two directions, "up" to the server and "down"
          caller,        \* the client
          peer           \* the server's handler
wireVars == <<pipe, caller, peer>>

Ways == {"up", "down"}
FreshReader == [buf |-> <<>>, need |-> 0]
\* Bytes written and not flushed, on their way, arrived; whether the writer
\* is gone; and the state of read_message.
NewPipe == [held |-> <<>>, line |-> <<>>, come |-> <<>>, ended |-> FALSE, reader |-> FreshReader]

----------------------------------------------------------------------------
(* Messages.                                                               *)

Key == [principal |-> <<80>>, db |-> <<68>>, fields |-> <<70>>, more |-> <<72>>, stats |-> <<83>>, n |-> <<78>>]
RequestTag == [hello |-> 1, goodbye |-> 2, reset |-> 15, run |-> 16, begin |-> 17, commit |-> 18,
               rollback |-> 19, discard |-> 47, pull |-> 63, logon |-> 106]
RequestArgs ==
  [name \in DOMAIN RequestTag |->
     CASE name = "run" -> <<"str", "dict", "dict">>
       [] name \in {"hello", "logon", "pull", "discard", "begin"} -> <<"dict">>
       [] OTHER -> <<>>]
ResponseTag == [success |-> 112, record |-> 113, ignored |-> 126, failure |-> 127]
ResponseArgs == [success |-> <<"dict">>, failure |-> <<"dict">>, record |-> <<"list">>, ignored |-> <<>>]

encode_request(msg) == encode(PStruct(RequestTag[msg.name], msg.args))
encode_response(msg) == encode(PStruct(ResponseTag[msg.name], msg.args))

\* extract_dict, extract_string, extract_list: the field is there and has the
\* kind that the message needs; what follows the needed fields is ignored.
Extract(fields, kinds) ==
  \A k \in DOMAIN kinds : k \in DOMAIN fields /\ Has(fields[k], kinds[k])
Invalid == [name |-> "invalid", args |-> <<>>]
Understand(tags, kinds, data) ==
  LET Named(r) == {name \in DOMAIN tags : tags[name] = r.v.tag}
      Message(r) ==
        LET name == CHOOSE x \in Named(r) : TRUE
        IN  IF Extract(r.v.fields, kinds[name])
            THEN [name |-> name, args |-> SubSeq(r.v.fields, 1, Len(kinds[name]))] ELSE Invalid
  IN  With(decode(data), LAMBDA r : IF ~r.ok THEN Invalid
                                    ELSE IF ~Has(r.v, "tag") THEN Invalid
                                    ELSE IF Named(r) = {} THEN Invalid ELSE Message(r))
decode_request(data) == Understand(RequestTag, RequestArgs, data)
decode_response(data) == Understand(ResponseTag, ResponseArgs, data)

----------------------------------------------------------------------------
(* Framing.                                                                *)

\* write_message_no_flush: chunks with their lengths, then the empty chunk.
Chunked(data) ==
  LET count == (Len(data) + ChunkMax - 1) \div ChunkMax
      Chunk(k) == SubSeq(data, (k - 1) * ChunkMax + 1, Min({k * ChunkMax, Len(data)}))
  IN  FlattenSeq([k \in 1..count |-> BigEndian(Len(Chunk(k)), 2) \o Chunk(k)]) \o <<0, 0>>

\* Writes to a direction whose other end is gone are lost.
Put(p, bytes) == IF p.ended THEN p ELSE [p EXCEPT !.held = @ \o bytes]
Pushed(p) == [p EXCEPT !.line = @ \o p.held, !.held = <<>>]

write_message(p, data) == Pushed(Put(p, Chunked(data)))

\* Rustls may hand a part of what it holds to the socket before a flush.
Spill(d) ==
  /\ pipe[d].held # <<>>
  /\ pipe' = [pipe EXCEPT ![d] = Pushed(@)]
  /\ UNCHANGED <<caller, peer>>

\* One more byte arrives.
Deliver(d) ==
  /\ pipe[d].line # <<>>
  /\ pipe' = [pipe EXCEPT ![d].come = Append(@, Head(pipe[d].line)), ![d].line = Tail(@)]
  /\ UNCHANGED <<caller, peer>>

Gone(p) == [p EXCEPT !.held = <<>>, !.line = <<>>, !.ended = TRUE]
\* The connection breaks: what has not arrived never will.
Cut ==
  /\ \E d \in Ways : ~pipe[d].ended
  /\ pipe' = [d \in Ways |-> Gone(pipe[d])]
  /\ UNCHANGED <<caller, peer>>

----------------------------------------------------------------------------
(* The client.                                                             *)

Ask(name, args) == [name |-> name, args |-> args]
\* The requests of BoltClient's calls, and of drivers that pull by themselves.
RequestOf(op) ==
  CASE op.call = "hello" -> Ask("hello", <<PDict(<<<<Key.principal, PStr(<<97>>)>>>>)>>)
    [] op.call \in {"run", "execute"} ->
         Ask("run", <<PStr(op.query), PDict(<<>>), PDict(<<<<Key.db, PStr(<<100>>)>>>>)>>)
    [] op.call \in {"pull", "discard"} -> Ask(op.call, <<PDict(<<<<Key.n, PInt(op.n)>>>>)>>)
    [] op.call \in {"reset", "goodbye", "commit"} -> Ask(op.call, <<>>)
PullAll == Ask("pull", <<PDict(<<>>)>>)

\* connect_split sends the magic number and four proposals.
BoltMagic == <<96, 96, 176, 23>>
Supported == [major |-> 4, minor |-> 4]
connect_split ==
  /\ caller.at = "new"
  /\ pipe' = [pipe EXCEPT !.up = Pushed(Put(@, BoltMagic \o FlattenSeq(caller.offer)))]
  /\ caller' = [caller EXCEPT !.at = "shake"]
  /\ UNCHANGED peer

\* The client takes the server's version, if it is the one it speaks.
FinishConnect ==
  /\ caller.at = "shake" /\ Len(pipe.down.come) >= 4
  /\ LET resp == Slice(pipe.down.come, 1, 4)
     IN  caller' = [caller EXCEPT !.at = IF resp[4] = Supported.major /\ resp[3] = Supported.minor
                                         THEN "idle" ELSE "over"]
  /\ pipe' = [pipe EXCEPT !.down.come = SubSeq(@, 5, Len(@))]
  /\ UNCHANGED peer

\* What a call does after its request: goodbye is not answered, PULL and
\* DISCARD with rows and a summary, everything else with one message.
Awaits(op) ==
  CASE op.call = "goodbye" -> "idle" [] op.call \in {"pull", "discard"} -> "rows" [] OTHER -> "one"

\* hello, run_query, reset, goodbye and the requests of a driver: the next
\* call of the script sends its request.
BeginCall ==
  /\ caller.at = "idle" /\ caller.todo # <<>>
  /\ LET op == Head(caller.todo)
         data == IF op.call = "raw" THEN op.bytes ELSE encode_request(RequestOf(op))
         asked == IF op.call = "raw" THEN Invalid ELSE RequestOf(op)
     IN  /\ pipe' = [pipe EXCEPT !.up = write_message(@, data)]
         /\ caller' = [caller EXCEPT !.todo = Tail(@), !.op = op, !.rows = <<>>, !.cols = <<>>, !.asked = Append(@, asked),
                         !.at = Awaits(op)]
  /\ UNCHANGED peer

\* The program ends and drops the connection.
Leave ==
  /\ caller.at = "idle" /\ caller.todo = <<>>
  /\ caller' = [caller EXCEPT !.at = "over"]
  /\ pipe' = [pipe EXCEPT !.up.ended = TRUE, !.up.held = <<>>, !.down = Gone(@)]
  /\ UNCHANGED peer

\* extract_fields and the entry of a dictionary.
Entry(pairs, key) ==
  LET at == {k \in DOMAIN pairs : pairs[k][1] = key} IN IF at = {} THEN PNull ELSE pairs[Min(at)][2]
extract_fields(pairs) ==
  LET f == Entry(pairs, Key.fields)
  IN  IF Has(f, "list") THEN SelectSeq(f.list, LAMBDA x : Has(x, "str")) ELSE <<>>

\* A call returns with its outcome.
Return(outcome, metadata) ==
  [caller EXCEPT !.at = "idle",
     !.done = Append(@, [op |-> caller.op, outcome |-> outcome, rows |-> caller.rows, cols |-> caller.cols,
                         more |-> Entry(metadata, Key.more), stats |-> Entry(metadata, Key.stats)])]

\* What a call makes of an answer.  A successful RUN of run_query is followed
\* by a PULL of everything; rows are collected until SUCCESS.
AfterResponse(resp) ==
  CASE resp.name = "success" /\ caller.at = "one" /\ caller.op.call = "run" ->
         [caller EXCEPT !.at = "pull", !.cols = extract_fields(resp.args[1].dict)]
    [] resp.name = "success" /\ ~(caller.at = "one" /\ caller.op.call = "run") ->
         Return("ok", resp.args[1].dict)
    [] resp.name = "record" /\ caller.at = "rows" ->
         [caller EXCEPT !.rows = Append(@, resp.args[1].list)]
    [] OTHER -> Return(IF resp.name = "ignored" THEN "ignored" ELSE "failed", <<>>)

PullRows ==
  /\ caller.at = "pull"
  /\ pipe' = [pipe EXCEPT !.up = write_message(@, encode_request(PullAll))]
  /\ caller' = [caller EXCEPT !.at = "rows", !.asked = Append(@, PullAll)]
  /\ UNCHANGED peer

----------------------------------------------------------------------------
(* The server's handler.                                                   *)

\* negotiate_version: the first proposal whose range of minors holds 4.4.
negotiate_version(bytes) ==
  /\ Slice(bytes, 1, 4) = BoltMagic
  /\ \E k \in 1..4 :
       LET p == Slice(bytes, 4 * k + 1, 4)
       IN  /\ ~(p[4] = 0 /\ p[3] = 0) /\ p[4] = Supported.major
           /\ Max({p[3] - p[2], 0}) <= Supported.minor /\ Supported.minor <= p[3]

\* The handler returns: the connection is dropped with what it still holds.
Dropped(p) == [p EXCEPT !.up = Gone(@), !.down.held = <<>>, !.down.ended = TRUE]

\* new_with_handshake: no answer is given to a client with no common version.
ServerShake ==
  /\ peer.at = "shake" /\ Len(pipe.up.come) >= 20
  /\ LET p == [pipe EXCEPT !.up.come = SubSeq(@, 21, Len(@))]
     IN  IF negotiate_version(pipe.up.come)
         THEN /\ pipe' = [p EXCEPT !.down = Pushed(Put(@, <<0, 0, Supported.minor, Supported.major>>))]
              /\ peer' = [peer EXCEPT !.at = "loop"]
         ELSE pipe' = Dropped(p) /\ peer' = [peer EXCEPT !.at = "gone"]
  /\ UNCHANGED caller

Success(pairs) == Ask("success", <<PDict(pairs)>>)
Failure == Ask("failure", <<PDict(<<>>)>>)
Ignored == Ask("ignored", <<>>)
Record(row) == Ask("record", <<PList(row)>>)
NoResult == [none |-> TRUE]

\* send_response, and fail_with.
Answer(p, pr, resp) ==
  /\ pipe' = [p EXCEPT !.down = write_message(@, encode_response(resp))]
  /\ peer' = pr
  /\ UNCHANGED caller
Fail(p, pr) == Answer(p, [pr EXCEPT !.failed = TRUE], Failure)
HangUp(p, pr) == pipe' = p /\ peer' = [pr EXCEPT !.at = "gone"] /\ UNCHANGED caller

\* handle_run, as far as the wire sees it: the statement fails, or its result
\* replaces the one that is pending.
handle_run(p, pr, query) ==
  \/ Fail(p, pr)
  \/ /\ query \in DOMAIN Results
     /\ Answer(p, [pr EXCEPT !.pending = [rows |-> Results[query].rows, cursor |-> 0, stats |-> Results[query].stats]],
               Success(<<<<Key.fields, PList(Results[query].cols)>>>>))

\* read_n: absent or not an integer means all.
read_n(pairs) == LET e == Entry(pairs, Key.n) IN IF Has(e, "int") THEN e.int ELSE -1

\* Mutant: a result is kept although its last row was taken.
Advanced_Kept(pending, take) ==
  [pending EXCEPT !.cursor = IF @ + take < Len(pending.rows) THEN @ + take ELSE @]

\* The pending result after `take` more rows.
Advanced(pending, take) ==
  IF pending.cursor + take < Len(pending.rows) THEN [pending EXCEPT !.cursor = @ + take] ELSE NoResult

\* The SUCCESS that reports `take` more rows.
Summary(pending, take) ==
  LET more == Advanced(pending, take) # NoResult
  IN  Success(<<<<Key.more, PBool(more)>>>>
              \o (IF ~more /\ pending.stats THEN <<<<Key.stats, PBool(TRUE)>>>> ELSE <<>>))
TakeOf(pending, n) ==
  LET left == Len(pending.rows) - pending.cursor IN IF n < 0 THEN left ELSE Min({n, left})

\* handle_pull: throttled; nothing pending; or the rows, none of them
\* flushed before the SUCCESS.  A row that cannot be encoded ends the
\* connection, with the rows before it sent or not.
handle_pull(p, pr, n) ==
  LET take == TakeOf(pr.pending, n)
      rows == [k \in 1..take |-> pr.pending.rows[pr.pending.cursor + k]]
      Frames(j) == FlattenSeq([k \in 1..j |-> Chunked(encode_response(Record(rows[k])))])
      bad == {k \in DOMAIN rows : ~Encodable(PList(rows[k]))}
  IN  \/ Fail(p, pr)
      \/ pr.pending = NoResult /\ Answer(p, pr, Success(<<<<Key.more, PBool(FALSE)>>>>))
      \/ /\ pr.pending # NoResult /\ bad = {}
         /\ Answer([p EXCEPT !.down = Put(@, Frames(take))],
                   [pr EXCEPT !.pending = Advanced(pr.pending, take)], Summary(pr.pending, take))
      \/ /\ pr.pending # NoResult /\ bad # {}
         /\ \E j \in 0..Min(bad) - 1 :
              HangUp(Dropped([p EXCEPT !.down = Pushed(Put(@, Frames(j)))]), pr)

handle_discard(p, pr, n) ==
  LET take == TakeOf(pr.pending, n)
  IN  \/ Fail(p, pr)
      \/ pr.pending = NoResult /\ Answer(p, pr, Success(<<<<Key.more, PBool(FALSE)>>>>))
      \/ /\ pr.pending # NoResult
         /\ Answer(p, [pr EXCEPT !.pending = Advanced(pr.pending, take)], Summary(pr.pending, take))

\* In the failed state everything but RESET and GOODBYE is ignored.
Refuses(pr, req) == pr.failed /\ req.name \notin {"reset", "goodbye", "invalid"}

\* dispatch and dispatch_request, for one message.
Dispatch(p, data) ==
  \E req \in {decode_request(data)} :
    \E pr \in {[peer EXCEPT !.heard = Append(@, req)]} :
      IF Refuses(pr, req) THEN Answer(p, pr, Ignored)
      ELSE CASE req.name = "invalid" -> Fail(p, pr)
             [] req.name = "goodbye" -> HangUp(Dropped(p), pr)
             [] req.name = "reset" -> Answer(p, [pr EXCEPT !.failed = FALSE, !.pending = NoResult], Success(<<>>))
             [] req.name = "logon" -> Answer(p, pr, Success(<<>>))
             [] req.name = "run" -> handle_run(p, pr, req.args[1].str)
             [] req.name = "pull" -> handle_pull(p, pr, read_n(req.args[1].dict))
             [] req.name = "discard" -> handle_discard(p, pr, read_n(req.args[1].dict))
             [] OTHER -> Answer(p, pr, Success(<<>>)) \/ Fail(p, pr)

----------------------------------------------------------------------------
(* Reading.                                                                *)

Reading(d) == IF d = "up" THEN peer.at = "loop" ELSE caller.at \in {"one", "rows"}

Finished(d, p, data) ==
  IF d = "up" THEN Dispatch(p, data)
  ELSE /\ \E resp \in {decode_response(data)} : caller' = AfterResponse(resp)
       /\ pipe' = p /\ UNCHANGED peer

\* An error of the stream or the reader: the handler returns, or the call
\* does and the program gives the connection up.
Broken(d) ==
  IF d = "up" THEN HangUp(Dropped(pipe), peer)
  ELSE /\ caller' = [caller EXCEPT !.at = "over"]
       /\ pipe' = [pipe EXCEPT !.up.ended = TRUE, !.down = Gone(@)]
       /\ UNCHANGED peer

Oversized(rd, size) == Len(rd.buf) + size > MessageMax

\* read_message, from one read_exact to the next: a header ends the message,
\* is refused or announces a chunk.
ReadHeader(d) ==
  /\ Reading(d) /\ pipe[d].reader.need = 0 /\ Len(pipe[d].come) >= 2
  /\ LET rd == pipe[d].reader
         size == Unsigned(Slice(pipe[d].come, 1, 2))
         p == [pipe EXCEPT ![d].come = SubSeq(@, 3, Len(@))]
     IN  \/ size = 0 /\ Finished(d, [p EXCEPT ![d].reader = FreshReader], rd.buf)
         \/ size > 0 /\ Oversized(rd, size) /\ Broken(d)
         \/ /\ size > 0 /\ ~Oversized(rd, size)
            /\ pipe' = [p EXCEPT ![d].reader.need = size] /\ UNCHANGED <<caller, peer>>

ReadChunk(d) ==
  /\ Reading(d) /\ pipe[d].reader.need > 0 /\ Len(pipe[d].come) >= pipe[d].reader.need
  /\ LET rd == pipe[d].reader
     IN  pipe' = [pipe EXCEPT ![d].come = SubSeq(@, rd.need + 1, Len(@)),
                    ![d].reader = [buf |-> rd.buf \o Slice(pipe[d].come, 1, rd.need), need |-> 0]]
  /\ UNCHANGED <<caller, peer>>

\* The stream ends before what read_exact asks for: between two messages
\* read_message returns None, inside one an error, and both end the
\* connection.
ReadEnd(d) ==
  /\ Reading(d) \/ (d = "up" /\ peer.at = "shake") \/ (d = "down" /\ caller.at = "shake")
  /\ pipe[d].ended /\ pipe[d].line = <<>>
  /\ LET rd == pipe[d].reader
     IN  Len(pipe[d].come) < (CASE Reading(d) /\ rd.need = 0 -> 2
                                [] Reading(d) /\ rd.need > 0 -> rd.need
                                [] ~Reading(d) -> IF d = "up" THEN 20 ELSE 4)
  /\ Broken(d)


InitWire ==
  /\ pipe = [d \in Ways |-> NewPipe]
  /\ \E script \in Scripts :
       caller = [at |-> "new", offer |-> script.offer, todo |-> script.calls, op |-> [call |-> "none"],
                 rows |-> <<>>, cols |-> <<>>, asked |-> <<>>, done |-> <<>>]
  /\ peer = [at |-> "shake", failed |-> FALSE, pending |-> NoResult, heard |-> <<>>]

ClientMoves == connect_split \/ FinishConnect \/ BeginCall \/ PullRows \/ Leave
ReadStep(d) == ReadHeader(d) \/ ReadChunk(d) \/ ReadEnd(d)
NextWire ==
  \/ ClientMoves \/ ServerShake \/ Cut
  \/ \E d \in Ways : Spill(d) \/ Deliver(d) \/ ReadStep(d)

\* The tasks of both ends run, and the network delivers what it was given;
\* nothing makes unflushed bytes leave.
FairWire ==
  /\ WF_wireVars(ClientMoves) /\ WF_wireVars(ServerShake)
  /\ \A d \in Ways : WF_wireVars(Deliver(d)) /\ WF_wireVars(ReadStep(d))

----------------------------------------------------------------------------
(* Properties.                                                             *)

\* The server takes in the requests that the client made, in order and
\* whole, however the stream cut them into pieces and wherever it broke.
RequestsArriveIntact == IsPrefix(peer.heard, caller.asked)

\* Between two calls nothing is on its way to the client: no answer is left
\* that the next call would take for its own.
InStep ==
  (caller.at = "idle" /\ ~pipe.down.ended) =>
    /\ pipe.down.held = <<>> /\ pipe.down.line = <<>> /\ pipe.down.come = <<>>
    /\ pipe.down.reader = FreshReader

\* What is left of a result on the server, and what the next call must get.
Spent == [rows |-> <<>>, stats |-> FALSE, live |-> FALSE]
Remainder(rest, n) ==
  LET k == IF n < 0 THEN Len(rest.rows) ELSE Min({n, Len(rest.rows)})
      tail == SubSeq(rest.rows, k + 1, Len(rest.rows))
  IN  IF tail = <<>> THEN Spent ELSE [rest EXCEPT !.rows = tail]
Agrees(r, rest, n) ==
  LET k == Len(rest.rows) - Len(Remainder(rest, n).rows)
  IN  /\ r.rows = (IF r.op.call = "discard" THEN <<>> ELSE SubSeq(rest.rows, 1, k))
      /\ r.more = PBool(Remainder(rest, n).live)
      /\ r.stats = (IF rest.stats /\ ~Remainder(rest, n).live THEN PBool(TRUE) ELSE PNull)
Follow(acc, r) ==
  LET call == r.op.call
      whole == [rows |-> Results[r.op.query].rows, stats |-> Results[r.op.query].stats, live |-> TRUE]
  IN  CASE r.outcome # "ok" \/ call \notin {"reset", "execute", "run", "pull", "discard"} -> acc
        [] r.outcome = "ok" /\ call = "reset" -> [acc EXCEPT !.rest = Spent]
        [] r.outcome = "ok" /\ call = "execute" -> [acc EXCEPT !.rest = whole]
        [] r.outcome = "ok" /\ call = "run" ->
             [rest |-> Spent,
              ok |-> acc.ok /\ Agrees(r, whole, -1) /\ r.cols = Results[r.op.query].cols]
        [] r.outcome = "ok" /\ call \in {"pull", "discard"} ->
             [rest |-> Remainder(acc.rest, r.op.n), ok |-> acc.ok /\ Agrees(r, acc.rest, r.op.n)]

\* The rows that the calls return are those of the queries: run_query gets
\* all of them, and PULL n and DISCARD n cut a result into consecutive pieces
\* with none lost, repeated or left from an earlier query; has_more and the
\* counters are reported with the last piece and only then.
ResultsAreWhole == FoldLeft(Follow, [rest |-> Spent, ok |-> TRUE], caller.done).ok

\* After a FAILURE every call is ignored until a RESET succeeds.
FailureSticks ==
  \A i, j \in DOMAIN caller.done :
    /\ i < j /\ caller.done[i].outcome = "failed" /\ caller.done[j].outcome = "ok"
    => \E k \in i + 1..j : caller.done[k].op.call = "reset"

\* No peer can make a reader hold more than the limit on one message, in
\* however many chunks it comes.
BuffersAreBounded == \A d \in Ways : Len(pipe[d].reader.buf) + pipe[d].reader.need <= MessageMax

\* Every call of the client returns, whether the connection holds or breaks:
\* nothing that the client waits for stays unflushed.
CallsEnd == <>(caller.at = "over")

\* A connection over a stream that cuts messages up and breaks: requests
\* arrive whole and in order within the limit, answers stay in step with the
\* calls, results come in consecutive pieces, and failures stick until RESET.
ConnectionIsFaithful ==
  /\ RequestsArriveIntact /\ InStep
  /\ ResultsAreWhole /\ FailureSticks
  /\ BuffersAreBounded

=============================================================================
