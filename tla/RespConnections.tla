--------------------------- MODULE RespConnections ---------------------------
(* One connection on which a client sends RESP commands, and the handler    *)
(* that parses, executes and answers them.  There are three kinds:          *)
(*   "raw"     the WebSocket at /.raw              (websocket.rs)           *)
(*   "compat"  the WebSocket of a compat session   (compat.rs, handle_ws)   *)
(*   "http"    a POST to a compat session          (compat.rs, command_raw) *)
(* The client's bytes are a fixed stream of tokens; a message of a socket   *)
(* carries any number of them, so it may end anywhere in a command.  What   *)
(* a handler has in its buffer is always a stretch of the stream.           *)
EXTENDS Naturals, Sequences, FiniteSets, SequencesExt

CONSTANTS
    Kinds,          \* the kinds of connections to look at
    MaxCommands,    \* bound: commands in the stream of a client
    MaxPipeline,    \* max_pipeline_commands of the configuration
    OutCap,         \* capacity of the channel to the writer task (128)
    MaxFaults,      \* bound: commands that fail in the executor
    MaxPushes       \* bound: pings and Pub/Sub frames

ASSUME BoundsAssumption ==
    /\ Kinds \subseteq {"raw", "compat", "http"}
    /\ MaxCommands \in Nat \ {0}
    /\ MaxPipeline \in Nat
    /\ OutCap \in Nat \ {0}
    /\ MaxFaults \in Nat
    /\ MaxPushes \in Nat

VARIABLES
    kind,           \* the kind of this connection
    script,         \* the commands of the client, by shape
    stream,         \* the tokens they are made of
    start,          \* the buffer is stream[start + 1 .. received]
    received,
    pc,             \* where the handler is
    hand,           \* the command, and later its answer, in its hand
    count,          \* command_count of command_raw
    out,            \* `out` of command_raw, the channel of handle_ws
    writer,         \* the task that empties that channel
    answers,        \* what the client has been sent for its commands
    status,         \* the HTTP status of the response
    peer,           \* the client's end
    faults, pushes,
    executed,       \* history: the commands given to Redis, in order
    lost,           \* history: commands (parts of) which buffer.clear() threw away
    badCut          \* history: a message ended where the parser does not wait

input == <<kind, script, stream>>
buffer == <<start, received>>
handler == <<pc, hand, count>>
output == <<out, writer, answers, status>>
history == <<executed, lost, badCut>>
vars == <<input, buffer, handler, output, peer, faults, pushes, history>>

----------------------------------------------------------------------------
(* The client's stream                                                      *)

(* What a client sends for one command: an array of two strings or of one   *)
(* whose name the ACL refuses, an empty array, a string longer than its     *)
(* header says.                                                             *)
Shapes == {"allowed", "denied", "empty", "overlong"}
WellFormed == {"allowed", "denied", "empty"}

(* `of` is the number of the command a token belongs to.  A number and a    *)
(* CR LF are one token.  The end of the data ends a line, so the digits     *)
(* before a cut are a number of which nothing follows: the parser waits, as *)
(* it does after a cut behind the number (a number has no leading zeros).   *)
(* A cut within a CR LF is as good as one before it.  Numbers are small:    *)
(* what it allocates before the data is there is not in the model.          *)
Token(t, v, i) == [t |-> t, v |-> v, of |-> i]
Crlf(i) == Token("crlf", 0, i)
Data(i) == Token("data", 0, i)
Line(mark, n, i) == <<Token(mark, 0, i), Token("num", n, i), Crlf(i)>>
Bulk(i) == Line("dollar", 1, i) \o <<Data(i), Crlf(i)>>
Overlong(i) == Line("dollar", 1, i) \o <<Data(i), Data(i), Crlf(i)>>

Frame(shape, i) ==
    CASE shape = "allowed"  -> Line("star", 2, i) \o Bulk(i) \o Bulk(i)
      [] shape = "denied"   -> Line("star", 1, i) \o Bulk(i)
      [] shape = "empty"    -> Line("star", 0, i)
      [] shape = "overlong" -> Line("star", 1, i) \o Overlong(i)

StreamOf(s) ==
    LET first[i \in 0 .. Len(s)] ==
            IF i = 0 THEN <<>> ELSE first[i - 1] \o Frame(s[i], i)
    IN  first[Len(s)]

----------------------------------------------------------------------------
(* resp::parse_command                                                      *)

More == [status |-> "more", args |-> <<>>, next |-> 0]
Invalid == [status |-> "invalid", args |-> <<>>, next |-> 0]
Parsed(args, next) == [status |-> "command", args |-> args, next |-> next]

(* read_line: up to and with the next line feed, or to the end of the data. *)
LineEnd(buf, p) ==
    LET feeds == {q \in p .. Len(buf) : buf[q].t = "crlf"}
    IN  IF feeds = {} THEN Len(buf) ELSE CHOOSE q \in feeds : \A r \in feeds : q <= r

(* The number of the header line at p, with the line's end trimmed; the end *)
(* of the data ends a line too.                                             *)
IsHeader(buf, p, mark) ==
    /\ p < LineEnd(buf, p)
    /\ buf[p].t = mark /\ buf[p + 1].t = "num"
    /\ \A r \in p + 2 .. LineEnd(buf, p) : buf[r].t = "crlf"

(* Mutant: the two bytes behind an argument are skipped unseen.             *)
TrailerUnchecked(buf, e, args) ==
    IF e > Len(buf) THEN More ELSE Parsed(args, e + 1)

(* Mutant: an argument that is not all there is an error.                   *)
TrailerRefuses(buf, e, args) ==
    IF e > Len(buf) \/ buf[e].t # "crlf" THEN Invalid ELSE Parsed(args, e + 1)

(* An argument's bytes, up to e, and the CR LF behind them.                 *)
Trailer(buf, e, args) ==
    IF e > Len(buf) \/ (e = Len(buf) /\ buf[e].t # "crlf") THEN More
    ELSE IF buf[e].t # "crlf" THEN Invalid
    ELSE Parsed(args, e + 1)

(* One argument at p: its header and as many bytes as that says.            *)
Argument(buf, p) ==
    LET data == LineEnd(buf, p) + 1
    IN  IF p > Len(buf) THEN More
        ELSE IF ~ IsHeader(buf, p, "dollar") THEN Invalid
        ELSE Trailer(buf, data + buf[p + 1].v, <<buf[data].of>>)

(* What has been read, and one argument more.                               *)
WithArgument(sofar, a) ==
    IF sofar.status # "command" THEN sofar
    ELSE IF a.status # "command" THEN a
    ELSE Parsed(sofar.args \o a.args, a.next)

(* The array header and as many arguments as it says; `next` is where the   *)
(* rest begins.                                                             *)
ParseCommand(buf) ==
    LET argument[p \in 1 .. Len(buf) + 1] == Argument(buf, p)
        read[n \in 0 .. buf[2].v] ==
            IF n = 0 THEN Parsed(<<>>, LineEnd(buf, 1) + 1)
            ELSE WithArgument(read[n - 1], argument[read[n - 1].next])
    IN  IF buf = <<>> THEN More
        ELSE IF ~ IsHeader(buf, 1, "star") THEN Invalid
        ELSE read[buf[2].v]

Buffer == SubSeq(stream, start + 1, received)
Name(args) == Head(args)

----------------------------------------------------------------------------
(* Acl::check of the session's client: `disabled` names the refused ones.   *)
is_command_allowed(args) == args = <<>> \/ script[Name(args)] # "denied"

Nothing == [id |-> 0, res |-> "none"]
Answer(i, res) == [id |-> i, res |-> res]
Results == {"result", "error", "forbidden", "emptyCommand", "invalid", "pong", "push"}

Init ==
    /\ kind \in Kinds
    /\ script \in UNION {[1 .. n -> Shapes] : n \in 1 .. MaxCommands}
    /\ stream = StreamOf(script)
    /\ start = 0 /\ received = 0
    /\ pc = "recv" /\ hand = Nothing /\ count = 0
    /\ out = <<>> /\ writer = "running" /\ answers = <<>> /\ status = 0
    /\ peer = "open" /\ faults = 0 /\ pushes = 0
    /\ executed = <<>> /\ lost = {} /\ badCut = FALSE

(* The places where a message may not end: behind the mark of a header, and *)
(* within the header of an empty array, which is taken as complete.         *)
CutsHeader(n) ==
    /\ n < Len(stream)
    /\ \/ stream[n].t \in {"star", "dollar"}
       \/ script[stream[n].of] = "empty" /\ stream[n + 1].of = stream[n].of

(* receiver.next() of a socket returns a message with the next tokens.      *)
ReceiveMessage(n) ==
    /\ pc = "recv" /\ kind # "http" /\ peer = "open"
    /\ received' = n
    /\ badCut' = (badCut \/ CutsHeader(n))
    /\ pc' = "parse"
    /\ UNCHANGED <<input, start, hand, count, output, peer, faults, pushes,
                   executed, lost>>

(* The body of a POST is there as a whole; it may end anywhere.  An empty   *)
(* one is refused.                                                          *)
ReceiveBody(n) ==
    /\ pc = "recv" /\ kind = "http" /\ peer = "open"
    /\ received' = n
    /\ badCut' = (n > 0 /\ CutsHeader(n))
    /\ IF n = 0 THEN pc' = "done" /\ status' = 400
                ELSE pc' = "parse" /\ UNCHANGED status
    /\ UNCHANGED <<input, start, hand, count, out, writer, answers, peer,
                   faults, pushes, executed, lost>>

(* A Ping is answered with a Pong, past the buffer.                         *)
ReceivePing ==
    /\ pc = "recv" /\ kind # "http" /\ peer = "open" /\ pushes < MaxPushes
    /\ pushes' = pushes + 1
    /\ pc' = "reply" /\ hand' = Answer(0, "pong")
    /\ UNCHANGED <<input, buffer, count, output, peer, faults, history>>

(* A Close message, an error of the socket or its end: the handler returns. *)
ReceiveClose ==
    /\ pc = "recv" /\ kind # "http" /\ peer = "closed"
    /\ pc' = "done"
    /\ UNCHANGED <<input, buffer, hand, count, output, peer, faults, pushes,
                   history>>

----------------------------------------------------------------------------
(* The loop over the commands in the buffer                                 *)

(* buffer.drain(..consumed)                                                 *)
Consume(r) == start' = start + r.next - 1

(* Mutant: `continue` before the bytes are drained.                         *)
SkipEmptyKeeps(r) == UNCHANGED start
SkipEmpty(r) == Consume(r)

(* buffer.clear(), and the answer that says so.                             *)
Refuse ==
    /\ lost' = lost \cup {k.of : k \in ToSet(Buffer)}
    /\ start' = received
    /\ pc' = "reply" /\ hand' = Answer(0, "invalid")

(* handle_socket_raw: an empty command is skipped, there is no ACL, and     *)
(* what cannot be parsed is thrown away and answered with an error.         *)
RawParse ==
    /\ pc = "parse" /\ kind = "raw"
    /\ LET r == ParseCommand(Buffer) IN
       CASE r.status = "command" /\ r.args = <<>> ->
              SkipEmpty(r) /\ UNCHANGED <<pc, hand, lost>>
         [] r.status = "command" /\ r.args # <<>> ->
              /\ Consume(r)
              /\ pc' = "execute" /\ hand' = Answer(Name(r.args), "none")
              /\ UNCHANGED lost
         [] r.status = "more" ->
              pc' = "recv" /\ UNCHANGED <<start, hand, lost>>
         [] r.status = "invalid" ->
              Refuse
    /\ UNCHANGED <<input, received, count, output, peer, faults, pushes,
                   executed, badCut>>

(* handle_ws: the ACL is asked, execute_command answers an empty command,   *)
(* and what cannot be parsed is answered, then thrown away.                 *)
CompatParse ==
    /\ pc = "parse" /\ kind = "compat"
    /\ LET r == ParseCommand(Buffer) IN
       CASE r.status = "command" ->
              /\ Consume(r)
              /\ IF r.args = <<>>
                   THEN pc' = "reply" /\ hand' = Answer(0, "emptyCommand")
                 ELSE IF ~ is_command_allowed(r.args)
                   THEN pc' = "reply" /\ hand' = Answer(Name(r.args), "forbidden")
                   ELSE pc' = "execute" /\ hand' = Answer(Name(r.args), "none")
              /\ UNCHANGED lost
         [] r.status = "more" ->
              pc' = "recv" /\ UNCHANGED <<start, hand, lost>>
         [] r.status = "invalid" ->
              Refuse
    /\ UNCHANGED <<input, received, count, output, peer, faults, pushes,
                   executed, badCut>>

OverLimit == count + 1 > MaxPipeline

Respond(code) == pc' = "done" /\ status' = code

(* command_raw: the body ends the loop, the limit, an incomplete and an     *)
(* invalid command end the request with 400.                                *)
HttpParse ==
    /\ pc = "parse" /\ kind = "http"
    /\ LET r == ParseCommand(Buffer) IN
       CASE Buffer = <<>> ->
              /\ Respond(200) /\ answers' = out
              /\ UNCHANGED <<start, hand, count, out>>
         [] r.status = "command" /\ OverLimit ->
              /\ Consume(r) /\ count' = count + 1
              /\ Respond(400) /\ UNCHANGED <<hand, out, answers>>
         [] r.status = "command" /\ ~ OverLimit ->
              /\ Consume(r) /\ count' = count + 1
              /\ IF r.args = <<>>
                   THEN /\ out' = Append(out, Answer(0, "emptyCommand"))
                        /\ UNCHANGED <<pc, hand>>
                 ELSE IF ~ is_command_allowed(r.args)
                   THEN /\ out' = Append(out, Answer(Name(r.args), "forbidden"))
                        /\ UNCHANGED <<pc, hand>>
                   ELSE /\ pc' = "execute" /\ hand' = Answer(Name(r.args), "none")
                        /\ UNCHANGED out
              /\ UNCHANGED <<answers, status>>
         [] Buffer # <<>> /\ r.status # "command" ->
              Respond(400) /\ UNCHANGED <<start, hand, count, out, answers>>
    /\ UNCHANGED <<input, received, writer, peer, faults, pushes, history>>

----------------------------------------------------------------------------
(* Executing and answering                                                  *)

(* Mutant: the frame of a request's command is not appended to `out`.       *)
AnsweredDropsFrame(res) ==
    /\ pc' = IF kind = "http" THEN "parse" ELSE "reply"
    /\ hand' = IF kind = "http" THEN Nothing ELSE Answer(hand.id, res)
    /\ UNCHANGED out

(* The answer of a command goes to the client, or to `out` of the request.  *)
Answered(res) ==
    IF kind = "http"
      THEN /\ out' = Append(out, Answer(hand.id, res))
           /\ pc' = "parse" /\ hand' = Nothing
      ELSE pc' = "reply" /\ hand' = Answer(hand.id, res) /\ UNCHANGED out

(* Redis runs the command; its answer is a value or an error.               *)
Execute ==
    /\ pc = "execute"
    /\ executed' = Append(executed, hand.id)
    /\ Answered("result")
    /\ UNCHANGED <<input, buffer, count, writer, answers, status, peer, faults,
                   pushes, lost, badCut>>

(* There is no connection for the command, or it breaks before Redis has    *)
(* read the command.                                                        *)
ExecuteFails ==
    /\ pc = "execute" /\ faults < MaxFaults
    /\ faults' = faults + 1
    /\ Answered("error")
    /\ UNCHANGED <<input, buffer, count, writer, answers, status, peer, pushes,
                   history>>

(* The client of a POST goes away: the server drops the request.            *)
Cancel ==
    /\ pc \in {"recv", "execute"} /\ kind = "http" /\ peer = "closed"
    /\ pc' = "done"
    /\ UNCHANGED <<input, buffer, hand, count, output, peer, faults, pushes,
                   history>>

(* What ends the handling of a message, rather than one of its commands.    *)
EndsMessage == hand.res \in {"invalid", "pong"}

AfterReply == IF EndsMessage THEN "recv" ELSE "parse"

(* Mutant: the channel has no bound.                                        *)
EnqueueUnbounded(a) == out' = Append(out, a)
(* tx.send of the channel to the writer task waits for room.                *)
Enqueue(a) == Len(out) < OutCap /\ out' = Append(out, a)

(* A socket's client has seen the answer of a command; pongs, pushes and    *)
(* errors that name no command are not recorded.                            *)
Seen(a) == IF a.id = 0 THEN answers ELSE Append(answers, a)

(* sender.send of handle_socket_raw.                                        *)
RawReply ==
    /\ pc = "reply" /\ kind = "raw"
    /\ IF peer = "closed"
         THEN pc' = "done" /\ UNCHANGED <<answers, hand>>
         ELSE /\ answers' = Seen(hand)
              /\ pc' = AfterReply
              /\ hand' = Nothing
    /\ UNCHANGED <<input, buffer, count, out, writer, status, peer, faults,
                   pushes, history>>

(* Without a writer tx.send fails, which is ignored for "Invalid RESP".     *)
CompatReply ==
    /\ pc = "reply" /\ kind = "compat"
    /\ \/ /\ writer = "running" /\ Enqueue(hand)
          /\ pc' = AfterReply
       \/ /\ writer = "ended"
          /\ pc' = IF hand.res = "invalid" THEN "recv" ELSE "done"
          /\ UNCHANGED out
    /\ hand' = Nothing
    /\ UNCHANGED <<input, buffer, count, writer, answers, status, peer, faults,
                   pushes, history>>

(* Mutant: `if let` where the code says `while let`.                        *)
WriterGoesOnOnce == writer' = "ended" /\ out' = <<>>
WriterGoesOn == out' = Tail(out) /\ UNCHANGED writer

(* The writer task of handle_ws.                                            *)
WriterSends ==
    /\ kind = "compat" /\ writer = "running" /\ out # <<>>
    /\ IF peer = "closed"
         THEN writer' = "ended" /\ out' = <<>> /\ UNCHANGED answers
         ELSE answers' = Seen(Head(out)) /\ WriterGoesOn
    /\ UNCHANGED <<input, buffer, handler, status, peer, faults, pushes, history>>

(* The push task of handle_ws puts a frame of the session into the channel. *)
Push ==
    /\ kind = "compat" /\ writer = "running" /\ pushes < MaxPushes
    /\ Enqueue(Answer(0, "push"))
    /\ pushes' = pushes + 1
    /\ UNCHANGED <<input, buffer, handler, writer, answers, status, peer, faults,
                   history>>

PeerCloses ==
    /\ peer = "open" /\ pc # "done"
    /\ peer' = "closed"
    /\ UNCHANGED <<input, buffer, handler, output, faults, pushes, history>>

----------------------------------------------------------------------------
Parse == RawParse \/ CompatParse \/ HttpParse
Reply == RawReply \/ CompatReply

Next ==
    \/ \E n \in received + 1 .. Len(stream) : ReceiveMessage(n)
    \/ \E n \in 0 .. Len(stream) : ReceiveBody(n)
    \/ ReceivePing \/ ReceiveClose
    \/ RawParse \/ CompatParse \/ HttpParse
    \/ Execute \/ ExecuteFails \/ Cancel
    \/ RawReply \/ CompatReply \/ WriterSends \/ Push \/ PeerCloses

Spec == Init /\ [][Next]_vars

(* The handler and the writer task are scheduled, and Redis answers what it *)
(* is asked.  Nothing is assumed of the client.                             *)
Fairness ==
    /\ WF_vars(Parse) /\ WF_vars(Execute) /\ WF_vars(Reply)
    /\ WF_vars(WriterSends) /\ WF_vars(ReceiveClose) /\ WF_vars(Cancel)

FairSpec == Spec /\ Fairness

----------------------------------------------------------------------------
(* Properties                                                               *)

Ids == DOMAIN script
(* The last token of command i has come.                                    *)
Whole(i) == \A p \in DOMAIN stream : stream[p].of = i => p <= received
Delivered == IF kind = "http" THEN out ELSE answers \o out
IdsOf(s) == {s[k].id : k \in DOMAIN s} \ {0}
Rising(s) == \A j, k \in DOMAIN s : j < k => s[j] < s[k]
RisingIds(s) ==
    \A j, k \in DOMAIN s : j < k /\ s[j].id # 0 /\ s[k].id # 0 => s[j].id < s[k].id

(* The variables stay in their domains; the channel of handle_ws holds no   *)
(* more than its capacity.                                                  *)
TypeOK ==
    /\ kind \in Kinds
    /\ script \in Seq(Shapes) /\ Len(script) \in 1 .. MaxCommands
    /\ start \in 0 .. received /\ received \in 0 .. Len(stream)
    /\ pc \in {"recv", "parse", "execute", "reply", "done"}
    /\ hand \in [id : Ids \cup {0}, res : Results \cup {"none"}]
    /\ count \in 0 .. MaxCommands
    /\ out \in Seq([id : Ids \cup {0}, res : Results])
    /\ kind = "compat" => Len(out) <= OutCap
    /\ writer \in {"running", "ended"}
    /\ answers \in Seq([id : Ids \cup {0}, res : Results])
    /\ status \in {0, 200, 400}
    /\ peer \in {"open", "closed"}
    /\ faults \in 0 .. MaxFaults /\ pushes \in 0 .. MaxPushes
    /\ executed \in Seq(Ids) /\ lost \in SUBSET Ids /\ badCut \in BOOLEAN

(* Redis is given the well-formed commands of the client, in their order,   *)
(* none of them twice however the bytes were cut, and on a compat           *)
(* connection none that the ACL refuses.                                    *)
ExecutedAsSent ==
    /\ Rising(executed)
    /\ \A i \in ToSet(executed) :
          \/ script[i] = "allowed"
          \/ kind = "raw" /\ script[i] = "denied"

(* A POST executes no more commands than max_pipeline_commands, and is      *)
(* given no more answers.                                                   *)
PipelineLimit ==
    kind = "http" =>
        /\ Len(executed) <= MaxPipeline
        /\ status = 200 => Len(answers) <= MaxPipeline

(* The answers of a connection are in the order of its commands, one for    *)
(* each, and no executed command is without one: it is with the client, on  *)
(* its way, or in the handler's hand, until the handler is gone. A POST has *)
(* its answers all together, within the pipeline limit.                     *)
AnswersInOrder ==
    /\ RisingIds(Delivered)
    /\ pc # "done" /\ writer = "running" =>
          ToSet(executed) \subseteq IdsOf(Delivered) \cup {hand.id}
    /\ PipelineLimit

(* A handler that waits for the next message has handled every command that *)
(* has come: executed it, refused it, or reported the bytes as invalid; a   *)
(* POST that is answered with 200 has an answer for each of its commands.   *)
NothingLeftBehind ==
    /\ pc = "recv" /\ kind # "http" /\ writer = "running" =>
          \A i \in Ids :
              Whole(i) /\ script[i] \in WellFormed \ {"empty"} =>
                  i \in IdsOf(Delivered) \cup lost
    /\ kind = "http" /\ status = 200 /\ ~ badCut =>
          Len(answers) = Cardinality({i \in Ids : Whole(i)})

(* Commands are thrown away only when the client has sent something that is *)
(* no command, or has ended a message within a header where the parser does *)
(* not wait for more; any other cut of the stream loses nothing, and no     *)
(* command is left in the buffer unnoticed.                                 *)
LossIsExplained ==
    /\ lost # {} => badCut \/ \E i \in Ids : script[i] \notin WellFormed
    /\ NothingLeftBehind

(* A message is handled to its end: the handler comes back for the next     *)
(* one, or it has returned.                                                 *)
MessagesEnd == pc = "parse" ~> pc \in {"recv", "done"}

(* An executed command is answered, unless the client goes away.            *)
ExecutedIsAnswered ==
    \A i \in 1 .. MaxCommands :
        i \in ToSet(executed) ~>
            \/ i \in IdsOf(answers)
            \/ peer = "closed" \/ status = 400
=============================================================================
