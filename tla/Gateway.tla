------------------------------ MODULE Gateway ------------------------------
(***************************************************************************)
(* The commands of a server that Startup has brought up: HTTP requests     *)
(* with their formats and entity tags, gRPC calls and streams, and the     *)
(* JSON WebSocket.  Each takes a command apart, asks the access rules (not *)
(* the WebSocket, and not HTTP for a subscription), runs it and answers.   *)
(* Redis has one key "k" in each database, which others write too; pools   *)
(* and connections are the subject of CommandPools, the messages of        *)
(* subscriptions that of PubSubManager.                                    *)
(***************************************************************************)
EXTENDS Startup, Acl, SequencesExt

CONSTANTS
    Peers,      \* the connections of clients
    Kind,       \* Kind[p]: "http", "unary", "stream" or "json"
    Address,    \* Address[p]: the address of the client
    Auths,      \* the credentials of requests, "" for none
    AclTable,   \* AclTable[t]: the rules of a config whose acl is t
    Urls,       \* the URLs of HTTP requests
    Commands,   \* the commands of gRPC and WebSocket messages: [db, name, args]
    Values,     \* the replies a read of "k" may have
    OutCap,     \* capacity of a reply channel
    MaxAsked,   \* bound: requests of all clients
    MaxWrites,  \* bound: writes by others
    MaxServedEdits  \* bound: edits of its files that a server may have behind
                    \* it when requests come (Startup follows the others)

Databases == FieldType["database"]
Stored == Values \cup {"nil", "a"}

ASSUME GatewayAssumption ==
    /\ {"database", "acl"} \subseteq DOMAIN FieldType /\ "0" \in Databases
    /\ FieldType["acl"] \cup {"none"} \subseteq DOMAIN AclTable
    /\ \A t \in DOMAIN AclTable : Len(AclTable[t]) \in Nat
    /\ \A p \in Peers : Kind[p] \in {"http", "unary", "stream", "json"}
    /\ \A u \in Urls : u.prefix \in Databases \cup {"none", "256", "bare"}
    /\ Commands \subseteq [db : Databases \cup {"none", "256"}, name : STRING,
                            args : Seq(STRING)]
    /\ \A c \in Commands : Len(c.args) = 2 => c.args[2] \in Stored
    /\ OutCap \in Nat \ {0} /\ MaxAsked \in Nat /\ MaxWrites \in Nat
    /\ MaxServedEdits \in Nat
ASSUME TextsAssumption ==
    /\ Values \subseteq STRING
    /\ \A t \in DOMAIN Escapes : Escapes[t] \in STRING
    /\ \A u \in Urls :
         {u.name, u.key, u.ext, u.jsonp, u.callback} \subseteq STRING

(* Texts are sequences of characters, of which this is all that is needed. *)
Words == {"", ".", "sha1 ", "value", "fields", "nil", "a", "OK"}
TextLaws(texts) ==
    /\ Words \subseteq STRING
    /\ \A a, b, c \in texts :
         /\ a \o b \in STRING
         /\ a \o b = "" => a = ""
         /\ a \o b = a \o c => b = c

VARIABLES
    store,   \* store[d]: what a read of "k" in database d replies
    writes,  \* the writes by others
    task,    \* task[p]: "idle", "exec", "send", "stream" or "ended"
    hand,    \* hand[p]: the command or the reply in hand
    asked,   \* asked[p]: the messages p has sent
    owed,    \* owed[p]: which of them are to be answered, in order
    out,     \* out[p]: the reply channel
    got,     \* got[p]: which answers have reached the client
    pushes,  \* pushes[p]: p has subscribed, and messages share its channel
    gone,    \* gone[p]: the client has gone
    last,    \* last[p]: the latest response to an HTTP request
    cache,   \* cache[p]: the latest response the client may ask to confirm
    login    \* login[p]: the credentials with which p has opened its stream

traffic == <<task, hand, asked, owed, out, got, pushes, gone, last, cache>>
redis == <<store, writes>>

Nothing == [name |-> ""]
Serving(mode) == At("serving") /\ run.cfg.mode = mode
Rules == AclTable[run.cfg.acl]
Who(p, auth) == [ip |-> Address[p], auth |-> auth]

----------------------------------------------------------------------------
(* The HTTP request: WebdisRequestParser and the tables of format.rs, of   *)
(* which .html, .xml, .jpg and the like behave as .txt and .png do.        *)

content_type_for_extension ==
    [json |-> "application/json", raw |-> "text/plain",
     txt |-> "text/plain", png |-> "image/png"]
from_extension == [json |-> "Json", raw |-> "Raw", txt |-> "Text", png |-> "Text"]

select_jsonp_callback(url) == IF url.jsonp # "" THEN url.jsonp ELSE url.callback

(* A suffix counts only if it is known and its dot is not escaped.         *)
Stripped(url) == ~url.escaped /\ url.ext \in DOMAIN from_extension
WithSuffix(url, text) ==
    IF url.ext = "" \/ Stripped(url) THEN text ELSE text \o "." \o url.ext

PathError(url) ==
    CASE url.prefix = "256" -> "InvalidDatabaseIndex"
      [] url.prefix = "bare" -> "MissingCommandAfterDatabasePrefix"
      [] OTHER -> ""

ParsedRequest(url, body, tag) ==
    LET ext == IF Stripped(url) THEN url.ext ELSE "json"
        format == from_extension[ext]
        bare == url.key = ""
        key == IF bare THEN <<>> ELSE <<decode(WithSuffix(url, url.key))>>
    IN  [db |-> IF url.prefix = "none" THEN run.cfg.database ELSE url.prefix,
         name |-> decode(IF bare THEN WithSuffix(url, url.name) ELSE url.name),
         args |-> IF body \in {"none", ""} THEN key ELSE Append(key, body),
         format |-> format,
         callback |-> IF format = "Json" THEN select_jsonp_callback(url) ELSE "",
         override |-> url.type,
         extType |-> IF Stripped(url) THEN content_type_for_extension[ext] ELSE "",
         etag |-> body = "none", ifNoneMatch |-> tag]

----------------------------------------------------------------------------
(* The responses.  "value" wraps a reply as JSON, "fields" is the object   *)
(* that parse_info_output makes of the text of INFO.                       *)

json_value_response(status, payload, cb) ==
    [status |-> status, body |-> Append(payload, cb), tag |-> "", cors |-> FALSE,
     label |-> IF cb = "" THEN "application/json" ELSE "application/javascript"]
Plain(status, body, label) ==
    [status |-> status, body |-> body, tag |-> "", cors |-> FALSE, label |-> label]

IsText(v) == v \in {"a", "b", "OK"}
redis_value_to_json(c, v) ==
    IF c.name = "INFO" /\ IsText(v) THEN <<"fields", v>> ELSE <<"value", v>>
redis_value_to_bytes(v) == IF v = "nil" THEN "" ELSE v
HasBytes(v) == IsText(v) \/ v = "nil"

(* What the SHA-1 of the entity tag is taken over: texts one behind the    *)
(* other, with nothing between them.  No tag is the empty text.            *)
Joined(a, b) == a \o b
Hashed(texts) ==
    LET digest[i \in 0 .. Len(texts)] ==
            IF i = 0 THEN "sha1 " ELSE Joined(digest[i - 1], texts[i])
    IN  digest[Len(texts)]
TextTag(c, v) == Hashed(<<c.name>> \o c.args \o <<redis_value_to_bytes(v)>>)
(* Mutant: the tag is made of the request alone.                           *)
JsonTagOfRequest(c, v) == Hashed(<<c.name>> \o c.args)
JsonTag(c, v) ==
    Hashed(<<c.name>> \o c.args \o <<c.callback>> \o redis_value_to_json(c, v))

(* The end of process_request, which early returns do not reach.           *)
WithHeaders(c, r) ==
    [r EXCEPT !.cors = TRUE,
              !.label = IF c.override # "" THEN c.override
                          ELSE IF c.callback = "" /\ r.label = "" THEN c.extType
                          ELSE r.label]

NotModified(tag) ==
    [status |-> 304, body |-> <<>>, tag |-> tag, cors |-> TRUE, label |-> ""]

Tagged(c, tag, r) ==
    IF ~c.etag THEN WithHeaders(c, r)
      ELSE IF c.ifNoneMatch = tag THEN NotModified(tag)
      ELSE WithHeaders(c, [r EXCEPT !.tag = tag])

TextOk(c, v) ==
    IF HasBytes(v)
      THEN Tagged(c, TextTag(c, v), Plain(200, <<redis_value_to_bytes(v)>>, ""))
      ELSE json_value_response(500, <<"error">>, "")
JsonOk(c, v) ==
    Tagged(c, JsonTag(c, v),
           json_value_response(200, <<c.name>> \o redis_value_to_json(c, v), c.callback))
RawOk(c, v) == WithHeaders(c, Plain(200, <<"resp", v>>, "text/plain"))

Responded(c, v) ==
    CASE c.format = "Raw" -> RawOk(c, v)
      [] c.format = "Text" -> TextOk(c, v)
      [] c.format = "Json" -> JsonOk(c, v)

Failed(c, status) ==
    WithHeaders(c, CASE c.format = "Raw" -> Plain(200, <<"-ERR">>, "text/plain")
                     [] c.format = "Text" -> Plain(status, <<"error">>, "text/plain")
                     [] c.format = "Json" -> json_value_response(status, <<"error">>, c.callback))

----------------------------------------------------------------------------
(* Redis: GET stands for a command that reads, and INFO for one whose text *)
(* is turned into fields; what it does not know it refuses.                *)

Reply(c) ==
    CASE c.name = "GET" /\ c.args = <<"k">> -> store[c.db]
      [] c.name = "GET" /\ c.args # <<"k">> -> "nil"
      [] c.name = "SET" /\ Len(c.args) = 2 -> "OK"
      [] c.name = "INFO" -> "a"
      [] OTHER -> "refused"
Effect(c) ==
    IF c.name = "SET" /\ Len(c.args) = 2
      THEN [store EXCEPT ![c.db] = c.args[2]] ELSE store

(* What execute returns: the reply, or one of its two errors.              *)
Outcome(c, r) ==
    \/ /\ run.size > 0
       /\ store' = Effect(c)
       /\ r = Reply(c)
    \/ run.size > 0 /\ r = "unavailable" /\ UNCHANGED store
StatusOf(r) == IF r = "unavailable" THEN 503 ELSE 500
IsError(r) == r \in {"refused", "unavailable"}
Replies == Values \cup {"nil", "a", "OK", "refused", "unavailable"}

----------------------------------------------------------------------------
(* HTTP.                                                                   *)

(* Bounds: MaxAsked messages of all clients together, MaxServedEdits.      *)
Requests == MapThenSumSet(LAMBDA p : asked[p], Peers)
Ask(p) ==
    /\ task[p] = "idle" /\ ~gone[p]
    /\ Requests < MaxAsked /\ edits <= MaxServedEdits

Hold(p, place, h) ==
    /\ task' = [task EXCEPT ![p] = place]
    /\ hand' = [hand EXCEPT ![p] = h]

(* The response, and what a plain request to the URL would have been given. *)
Answer(p, r, url, full) ==
    /\ last' = [last EXCEPT ![p] = [resp |-> r, url |-> url, full |-> full]]
    /\ task' = [task EXCEPT ![p] = "idle"]
    /\ hand' = [hand EXCEPT ![p] = Nothing]

(* A client that has kept a response to the same URL may ask to confirm it. *)
ConditionalTags(p, url) ==
    {""} \cup (IF cache[p].url = url THEN {cache[p].tag} ELSE {})

process_request(p, url, body) ==
    /\ Serving("rest") /\ Kind[p] = "http" /\ Ask(p)
    /\ asked' = [asked EXCEPT ![p] = @ + 1]
    /\ \E auth \in Auths, tag \in ConditionalTags(p, url) :
         LET c == ParsedRequest(url, body, tag)
             refused == json_value_response(403, <<"Forbidden">>, c.callback)
             wrong == json_value_response(400, <<PathError(url)>>, select_jsonp_callback(url))
         IN  IF PathError(url) # "" THEN Answer(p, wrong, url, wrong.body)
               ELSE IF ~check(Rules, Who(p, auth), c.name)
               THEN Answer(p, refused, url, refused.body)
               ELSE /\ hand' = [hand EXCEPT ![p] = [cmd |-> c, url |-> url,
                                                   who |-> Who(p, auth)]]
                    /\ task' = [task EXCEPT ![p] = "exec"]
                    /\ UNCHANGED last
    /\ UNCHANGED <<owed, out, got, pushes, gone, cache>> /\ UNCHANGED redis

handle_get(p) == \E url \in Urls : process_request(p, url, "none")
handle_post(p) == \E url \in Urls, body \in {"", "a"} : process_request(p, url, body)
handle_put(p) == \E url \in Urls, body \in {"", "a"} : process_request(p, url, body)

HttpResponse(c, r) == IF IsError(r) THEN Failed(c, StatusOf(r)) ELSE Responded(c, r)

(* The client keeps a tagged response, and what a plain request would have *)
(* been given instead of a 304 is noted beside it.                         *)
ExecuteHttp(p) ==
    /\ Kind[p] = "http" /\ task[p] = "exec"
    /\ \E r \in Replies :
         LET c == hand[p].cmd
             full == HttpResponse([c EXCEPT !.ifNoneMatch = ""], r)
             resp == HttpResponse(c, r)
         IN  /\ Outcome(c, r)
             /\ Answer(p, resp, hand[p].url, full.body)
             /\ cache' = IF resp.status = 200 /\ resp.tag # ""
                           THEN [cache EXCEPT ![p] = [url |-> hand[p].url, tag |-> resp.tag,
                                                      body |-> resp.body]]
                           ELSE cache
    /\ UNCHANGED <<writes, asked, owed, out, got, pushes, gone>>

(* GET /SUBSCRIBE/{*channel} has a route of its own, on which nobody asks  *)
(* the rules.                                                              *)
handle_subscribe(p) ==
    /\ Serving("rest") /\ Kind[p] = "http" /\ Ask(p)
    /\ asked' = [asked EXCEPT ![p] = @ + 1]
    /\ Hold(p, "stream", [cmd |-> [name |-> "SUBSCRIBE"]])
    /\ UNCHANGED <<owed, out, got, pushes, gone, last, cache>> /\ UNCHANGED redis

----------------------------------------------------------------------------
(* gRPC: execute answers by its status; the items of execute_stream are    *)
(* each answered, refused ones too.                                        *)

BadCommand(c) == c.name = "" \/ c.db = "256"
command_from_proto(c) ==
    [c EXCEPT !.db = IF c.db = "none" THEN run.cfg.database ELSE c.db]
Authorized(p, c, auth) == check(Rules, Who(p, auth), c.name)

execute(p) ==
    /\ Serving("grpc") /\ Kind[p] = "unary" /\ Ask(p)
    /\ asked' = [asked EXCEPT ![p] = @ + 1]
    /\ \E c \in Commands, auth \in Auths :
         IF BadCommand(c) \/ ~Authorized(p, command_from_proto(c), auth)
           THEN UNCHANGED <<task, hand>>
           ELSE Hold(p, "exec", [cmd |-> command_from_proto(c), who |-> Who(p, auth)])
    /\ UNCHANGED <<owed, out, got, pushes, gone, last, cache>> /\ UNCHANGED redis

ExecuteUnary(p) ==
    /\ Kind[p] = "unary" /\ task[p] = "exec"
    /\ \E r \in Replies : Outcome(hand[p].cmd, r)
    /\ Hold(p, "idle", Nothing)
    /\ UNCHANGED <<writes, asked, owed, out, got, pushes, gone, last, cache>>

(* A subscription is asked about like a command; a channel has a name.     *)
subscribe(p) ==
    /\ Serving("grpc") /\ Kind[p] = "unary" /\ Ask(p)
    /\ asked' = [asked EXCEPT ![p] = @ + 1]
    /\ \E named \in BOOLEAN, auth \in Auths :
         LET c == [name |-> "SUBSCRIBE"]
         IN  IF ~named \/ ~Authorized(p, c, auth) THEN UNCHANGED <<task, hand>>
               ELSE Hold(p, "stream", [cmd |-> c, who |-> Who(p, auth)])
    /\ UNCHANGED <<owed, out, got, pushes, gone, last, cache>> /\ UNCHANGED redis

(* The messages of either end with the client or with their ring.          *)
EndSubscription(p) ==
    /\ task[p] = "stream"
    /\ Hold(p, "idle", Nothing)
    /\ UNCHANGED <<asked, owed, out, got, pushes, gone, last, cache>> /\ UNCHANGED redis

Owe(p) ==
    /\ asked' = [asked EXCEPT ![p] = @ + 1]
    /\ owed' = [owed EXCEPT ![p] = Append(@, asked[p] + 1)]

(* The call: its credentials are read once, for all the items to come.     *)
OpenStream(p) ==
    /\ Serving("grpc") /\ Kind[p] = "stream" /\ Ask(p) /\ login[p] = {}
    /\ \E auth \in Auths : login' = [login EXCEPT ![p] = {auth}]

(* The next item, which may lack its command; its number is its            *)
(* correlation id.                                                         *)
execute_stream(p) ==
    /\ Ask(p)
    /\ Owe(p)
    /\ \E auth \in login[p], c \in Commands \cup {Nothing} :
         IF c = Nothing \/ BadCommand(c) \/ ~Authorized(p, command_from_proto(c), auth)
           THEN Hold(p, "send", [reply |-> "error", id |-> asked[p] + 1])
           ELSE Hold(p, "exec", [cmd |-> command_from_proto(c), id |-> asked[p] + 1,
                                 who |-> Who(p, auth)])
    /\ UNCHANGED <<out, got, pushes, gone, last, cache>> /\ UNCHANGED redis

(* The next item cannot be read: that is the last thing sent, no reply.    *)
FailStream(p) ==
    /\ login[p] # {} /\ task[p] = "idle" /\ ~gone[p] /\ Len(out[p]) < OutCap
    /\ out' = [out EXCEPT ![p] = Append(@, 0)]
    /\ Hold(p, "ended", Nothing)
    /\ UNCHANGED <<asked, owed, got, pushes, gone, last, cache>> /\ UNCHANGED redis

----------------------------------------------------------------------------
(* The JSON WebSocket: no rules, no ids, and silence for what is not a     *)
(* command.                                                                *)

JsonCommand(p) ==
    /\ Serving("rest") /\ run.cfg.websockets /\ Kind[p] = "json" /\ Ask(p)
    /\ \E c \in Commands :
         Hold(p, "exec", [cmd |-> [c EXCEPT !.db = run.cfg.database], id |-> asked[p] + 1])
    /\ Owe(p)
    /\ UNCHANGED <<out, got, pushes, gone, last, cache>> /\ UNCHANGED redis

JsonOther(p) ==
    /\ Serving("rest") /\ run.cfg.websockets /\ Kind[p] = "json" /\ Ask(p)
    /\ asked' = [asked EXCEPT ![p] = @ + 1]
    /\ \E subscribes \in BOOLEAN :
         pushes' = [pushes EXCEPT ![p] = @ \/ subscribes]
    /\ UNCHANGED <<task, hand, owed, out, got, gone, last, cache>> /\ UNCHANGED redis

(* The forwarder of a subscription puts a message into the same channel.   *)
Push(p) ==
    /\ pushes[p] /\ ~gone[p] /\ Len(out[p]) < OutCap
    /\ out' = [out EXCEPT ![p] = Append(@, 0)]
    /\ UNCHANGED <<task, hand, asked, owed, got, pushes, gone, last, cache>>
    /\ UNCHANGED redis

----------------------------------------------------------------------------
(* What the two have in common: run the command, put its reply into the    *)
(* channel, and write the channel to the client.                           *)

InOrder(p) == Kind[p] \in {"stream", "json"}

ExecuteNext(p) ==
    /\ InOrder(p) /\ task[p] = "exec"
    /\ \E r \in Replies :
         /\ Outcome(hand[p].cmd, r)
         /\ Hold(p, "send", [reply |-> r, id |-> hand[p].id])
    /\ UNCHANGED <<writes, asked, owed, out, got, pushes, gone, last, cache>>

(* Mutants: a channel without a bound, and try_send, which drops what does *)
(* not fit.                                                                *)
SendReplyUnbounded(p) ==
    /\ InOrder(p) /\ task[p] = "send"
    /\ out' = [out EXCEPT ![p] = Append(@, hand[p].id)]
    /\ Hold(p, "idle", Nothing)
    /\ UNCHANGED <<asked, owed, got, pushes, gone, last, cache>> /\ UNCHANGED redis
SendReplyTries(p) ==
    /\ InOrder(p) /\ task[p] = "send"
    /\ out' = IF Len(out[p]) < OutCap
                THEN [out EXCEPT ![p] = Append(@, hand[p].id)] ELSE out
    /\ Hold(p, "idle", Nothing)
    /\ UNCHANGED <<asked, owed, got, pushes, gone, last, cache>> /\ UNCHANGED redis

(* When the receiver has gone, the stream ends and the WebSocket goes on   *)
(* to its next message, which is the end of the socket.                    *)
SendReply(p) ==
    /\ InOrder(p) /\ task[p] = "send"
    /\ IF gone[p]
         THEN /\ Hold(p, "ended", Nothing)
              /\ UNCHANGED out
         ELSE /\ Len(out[p]) < OutCap
              /\ out' = [out EXCEPT ![p] = Append(@, hand[p].id)]
              /\ Hold(p, "idle", Nothing)
    /\ UNCHANGED <<asked, owed, got, pushes, gone, last, cache>> /\ UNCHANGED redis

Deliver(p) ==
    /\ InOrder(p) /\ out[p] # <<>> /\ ~gone[p]
    /\ out' = [out EXCEPT ![p] = Tail(@)]
    /\ got' = IF Head(out[p]) = 0 THEN got
               ELSE [got EXCEPT ![p] = Append(@, Head(out[p]))]
    /\ UNCHANGED <<task, hand, asked, owed, pushes, gone, last, cache>>
    /\ UNCHANGED redis

Leave(p) ==
    /\ At("serving") /\ InOrder(p) /\ ~gone[p] /\ asked[p] > 0
    /\ gone' = [gone EXCEPT ![p] = TRUE]
    /\ out' = [out EXCEPT ![p] = <<>>]
    /\ task' = IF task[p] = "idle" THEN [task EXCEPT ![p] = "ended"] ELSE task
    /\ UNCHANGED <<hand, asked, owed, got, pushes, last, cache>> /\ UNCHANGED redis

(* Others write to Redis while requests are on their way.                  *)
Write ==
    /\ At("serving") /\ writes < MaxWrites /\ edits <= MaxServedEdits
    /\ writes' = writes + 1
    /\ \E d \in DOMAIN store, v \in Values : store' = [store EXCEPT ![d] = v]
    /\ UNCHANGED traffic

----------------------------------------------------------------------------
NoResponse == [resp |-> [status |-> 0]]
Init ==
    /\ StartInit
    /\ store = [d \in Databases |-> "nil"]
    /\ writes = 0
    /\ task = [p \in Peers |-> "idle"]
    /\ hand = [p \in Peers |-> Nothing]
    /\ asked = [p \in Peers |-> 0]
    /\ owed = [p \in Peers |-> <<>>]
    /\ out = [p \in Peers |-> <<>>]
    /\ got = [p \in Peers |-> <<>>]
    /\ pushes = [p \in Peers |-> FALSE]
    /\ gone = [p \in Peers |-> FALSE]
    /\ last = [p \in Peers |-> NoResponse]
    /\ cache = [p \in Peers |-> [url |-> [name |-> ""], tag |-> "", body |-> <<>>]]
    /\ login = [p \in Peers |-> {}]

Handlers ==
    \/ Write
    \/ \E p \in Peers :
          \/ handle_get(p) \/ handle_post(p) \/ handle_put(p) \/ ExecuteHttp(p)
          \/ handle_subscribe(p) \/ execute(p) \/ ExecuteUnary(p)
          \/ subscribe(p) \/ EndSubscription(p)
          \/ execute_stream(p) \/ FailStream(p) \/ JsonCommand(p) \/ JsonOther(p) \/ Push(p)
          \/ ExecuteNext(p) \/ SendReply(p) \/ Deliver(p) \/ Leave(p)

vars == <<startVars, redis, traffic, login>>
Next ==
    \/ StartNext /\ UNCHANGED <<redis, traffic, login>>
    \/ Handlers /\ UNCHANGED <<startVars, login>>
    \/ \E p \in Peers : OpenStream(p) /\ UNCHANGED <<startVars, redis, traffic>>

Spec == Init /\ [][Next]_vars

----------------------------------------------------------------------------
(* Process, files, tasks and channels stay in their domains; a reply       *)
(* channel never holds more than its capacity.                             *)
TypeOK ==
    /\ run.pc \in {"idle", "exists", "write", "load", "pool", "pubsub",
                   "compat", "listen", "serving", "exited"}
    /\ \A f \in Files : files[f] \in Documents
                             \cup {NoFile, default_document, starter_document}
    /\ store \in [Databases -> Stored]
    /\ task \in [Peers -> {"idle", "exec", "send", "stream", "ended"}]
    /\ asked \in [Peers -> Nat] /\ out \in [Peers -> Seq(Nat)]
    /\ \A p \in Peers : Len(out[p]) <= OutCap
    /\ \A p \in Peers : task[p] = "exec" => hand[p].cmd.db \in DOMAIN store

(* The clients of a process that is about to listen, made by three         *)
(* different paths and at different times, talk to the same Redis, as the  *)
(* same user and in the same database; only their keep-alive may differ.   *)
OneRedis ==
    At("listen") \/ At("serving") =>
        \A a, b \in run.clients :
            [a EXCEPT !.keepAlive = 0] = [b EXCEPT !.keepAlive = 0]

(* What the last word of the rules forbids to the client that sent it does *)
(* not run: no command of an HTTP request to the command routes, no gRPC   *)
(* call, no item of a gRPC stream and no gRPC subscription.  That leaves   *)
(* the two ways on which the code asks no rules, the WebSocket and the     *)
(* HTTP route of SUBSCRIBE.                                                *)
DeniedNeverRuns ==
    \A p \in Peers :
        (task[p] = "exec" /\ Kind[p] # "json") \/ (task[p] = "stream" /\ Kind[p] # "http")
          => LastWord(Rules, hand[p].who, hand[p].cmd.name)

(* A client that is told "not modified" still has the very body that it    *)
(* would have been sent, whoever has written since it was cached.          *)
NotModifiedIsCurrent ==
    \A p \in Peers :
        last[p].resp.status = 304 => cache[p].url = last[p].url /\ cache[p].body = last[p].full

(* The replies in a channel, without the messages that it carries too.     *)
Replied(q) ==
    LET first[i \in 0 .. Len(q)] ==
            IF i = 0 THEN <<>>
              ELSE IF q[i] = 0 THEN first[i - 1] ELSE Append(first[i - 1], q[i])
    IN  first[Len(q)]

(* Replies of a gRPC stream and of a WebSocket leave in the order of their *)
(* commands, one for each, whatever else shares the channel.               *)
RepliesInOrder ==
    \A p \in Peers :
        InOrder(p) =>
          LET open == IF task[p] \in {"exec", "send"} THEN <<hand[p].id>> ELSE <<>>
          IN  IF gone[p] THEN IsPrefix(got[p], owed[p])
                ELSE got[p] \o Replied(out[p]) \o open = owed[p]
============================================================================
