------------------------------ MODULE Startup ------------------------------
(***************************************************************************)
(* The start of a server: the three binaries (redis-web, redis-web-grpc    *)
(* and webdis), the search for a config file, --write-default-config and   *)
(* --write-minimal-config, the load of the file, the construction of the   *)
(* Redis clients and the listener.  The file system is shared: an operator *)
(* edits files, and the UNIX socket of Redis comes and goes, between any   *)
(* two steps.                                                              *)
(*                                                                         *)
(* A config document is a function from the paths of its leaves to their   *)
(* texts; the loader turns texts into numbers and flags wherever the field *)
(* has that type, so a text stands for each of them.  "" is no value.      *)
(***************************************************************************)
EXTENDS Naturals, Sequences, TLC

CONSTANTS
    Documents,    \* the documents an operator may put into a file
    Placeholders, \* the texts of the form $NAME
    Env,          \* Env[v]: the value of placeholder v, for those that are set
    FieldType,    \* FieldType[k]: the texts that field k accepts, if it is not a string
    NumberOf,     \* NumberOf[t]: the number a numeric text stands for
    Credentials,  \* Credentials[t]: user and password of a value of redis_auth
    Escapes,      \* Escapes[t]: what percent-decoding makes of t, if not t itself
    Hosts,        \* the texts that are IP addresses
    Invocations,  \* the command lines: [bin, path, write]
    MaxEdits      \* bound: changes of the file system by others

VARIABLES
    files,    \* files[f]: the document in file f, or NoFile
    socketUp, \* the UNIX socket of Redis is there
    edits,    \* how often others have changed the file system
    run       \* the process: its place, command line, config and clients

startVars == <<files, socketUp, edits, run>>

Files == {"redis-web.json", "redis-web.min.json", "webdis.json", "webdis.min.json"}
NoFile == [absent |-> "yes"]
Present(f) == files[f] # NoFile

decode(t) == IF t \in DOMAIN Escapes THEN Escapes[t] ELSE t

----------------------------------------------------------------------------
(* The file names and documents of the compatibility crate and of Config.  *)

Legacy(bin) == bin = "webdis"
default_config_name(bin) ==
    IF Legacy(bin) THEN "webdis.json" ELSE "redis-web.json"
default_minimal_config_name(bin) ==
    IF Legacy(bin) THEN "webdis.min.json" ELSE "redis-web.min.json"

resolve_default_config(bin) ==
    LET tried == <<"redis-web.json", "redis-web.min.json", "webdis.json">>
        there == SelectSeq(tried, Present)
    IN  IF Legacy(bin) THEN "webdis.json"
          ELSE IF there = <<>> THEN "redis-web.json" ELSE Head(there)

(* Config::default() without its null fields; the texts are the defaults.  *)
default_document ==
    [redis_host |-> "127.0.0.1", redis_port |-> "6379",
     http_host |-> "0.0.0.0", transport_mode |-> "rest",
     http_threads |-> "4", database |-> "0", pool_size_per_thread |-> "10",
     websockets |-> "false"] @@ ("grpc.host" :> "0.0.0.0")
starter_document ==
    [redis_host |-> "127.0.0.1", redis_port |-> "6379",
     http_host |-> "127.0.0.1", database |-> "0"]

----------------------------------------------------------------------------
(* Config::new: placeholders are expanded before anything has a type.      *)

Dangling(doc) ==
    \E k \in DOMAIN doc : doc[k] \in Placeholders \ DOMAIN Env
expand_env_vars_in_json(doc) ==
    [k \in DOMAIN doc |-> IF doc[k] \in DOMAIN Env THEN Env[doc[k]] ELSE doc[k]]
HasItsTypes(doc) ==
    \A k \in DOMAIN doc \cap DOMAIN FieldType : doc[k] \in FieldType[k]

Field(doc, k, default) == IF k \in DOMAIN doc THEN doc[k] ELSE default

(* The old key counts only when the new one is absent.                     *)
apply_legacy_aliases(doc, key, old) == Field(doc, key, Field(doc, old, ""))

ConfigOf(doc) ==
    [host |-> Field(doc, "redis_host", "127.0.0.1"),
     port |-> Field(doc, "redis_port", "6379"),
     socket |-> Field(doc, "redis_socket", ""),
     ssl |-> Field(doc, "ssl.enabled", "false") = "true",
     auth |-> Field(doc, "redis_auth", ""),
     keepAlive |-> Field(doc, "hiredis.keep_alive_sec", ""),
     database |-> Field(doc, "database", "0"),
     mode |-> Field(doc, "transport_mode", "rest"),
     threads |-> apply_legacy_aliases(doc, "http_threads", "threads"),
     poolSize |-> apply_legacy_aliases(doc, "pool_size_per_thread", "pool_size"),
     workers |-> Field(doc, "runtime_worker_threads", ""),
     compat |-> Field(doc, "compat_hiredis.enabled", "false") = "true",
     websockets |-> Field(doc, "websockets", "false") = "true",
     acl |-> Field(doc, "acl", "none"),
     listen |-> IF Field(doc, "transport_mode", "rest") = "grpc"
                  THEN Field(doc, "grpc.host", "0.0.0.0")
                  ELSE Field(doc, "http_host", "0.0.0.0")]

----------------------------------------------------------------------------
(* The clients.  A URL carries the credentials as they stand in the config *)
(* and its reader decodes them; a socket gets them as they are.            *)

redis_username_password(c) ==
    IF c.auth = "" THEN <<"", "">> ELSE Credentials[c.auth]

get_redis_url(c) ==
    LET cred == redis_username_password(c)
    IN  [addr |-> c.host \o ":" \o c.port, tls |-> c.ssl,
         user |-> decode(cred[1]), password |-> decode(cred[2]),
         db |-> c.database, keepAlive |-> 0]

connection_info_for_unix_socket_redis(c) ==
    LET cred == redis_username_password(c)
    IN  [addr |-> c.socket, tls |-> FALSE, user |-> cred[1],
         password |-> cred[2], db |-> c.database, keepAlive |-> 0]

maybe_apply_tcp_keepalive(c, info) ==
    IF c.keepAlive = "" THEN info
      ELSE [info EXCEPT !.keepAlive = NumberOf[c.keepAlive]]

(* What is wrong with a socket at the moment one is needed.                *)
SocketOk(c) == c.socket = "" \/ socketUp

pool_connection_info(c) ==
    IF c.socket # "" THEN connection_info_for_unix_socket_redis(c)
      ELSE maybe_apply_tcp_keepalive(c, get_redis_url(c))
(* Mutant: the Pub/Sub client forgets that a socket takes precedence.      *)
create_pubsub_client_by_url(c) == get_redis_url(c)
create_pubsub_client(c) ==
    IF c.socket # "" THEN connection_info_for_unix_socket_redis(c)
      ELSE get_redis_url(c)
create_client(c) == pool_connection_info(c)

PoolSize(c) ==
    NumberOf[IF c.poolSize = "" THEN "10" ELSE c.poolSize]
      * NumberOf[IF c.threads = "" THEN "4" ELSE c.threads]

----------------------------------------------------------------------------
Idle == [pc |-> "idle"]
Exit(code) == [pc |-> "exited", code |-> code]

StartInit ==
    /\ \E d \in Documents :
          files = [f \in Files |-> IF f = "redis-web.json" THEN d ELSE NoFile]
    /\ socketUp = TRUE
    /\ edits = 0
    /\ run = Idle

At(pc) == run.pc = pc
Goto(r) == run' = r /\ UNCHANGED <<files, socketUp, edits>>

(* The path of the command line, or the one the binary falls back to.      *)
ConfigPath(i) ==
    IF i.path # "" THEN i.path
      ELSE CASE i.write = "minimal" -> default_minimal_config_name(i.bin)
             [] i.write = "default" -> default_config_name(i.bin)
             [] i.write = "no" -> resolve_default_config(i.bin)

Invoke(i) ==
    /\ At("idle")
    /\ Goto(IF i.write = "both" THEN Exit(1)
              ELSE [pc |-> IF i.write = "no" THEN "load" ELSE "exists",
                    bin |-> i.bin, write |-> i.write, path |-> ConfigPath(i)])

(* write_default_config and write_minimal_config: the test, ...            *)
CheckAbsent ==
    /\ At("exists")
    /\ Goto(IF Present(run.path)
              THEN Exit(1) ELSE [run EXCEPT !.pc = "write"])

(* ... and fs::write, which replaces what is there by then.                *)
WriteConfig ==
    /\ At("write")
    /\ files' = [files EXCEPT ![run.path] =
                   IF run.write = "default" THEN default_document
                                            ELSE starter_document]
    /\ run' = Exit(0)
    /\ UNCHANGED <<socketUp, edits>>

WrongMode(bin, c) == (bin = "redis-web-grpc") # (c.mode = "grpc")

(* load_config, the check of the mode and the Tokio runtime, which panics  *)
(* on zero threads.                                                        *)
LoadConfig ==
    /\ At("load")
    /\ LET doc == files[run.path]
           full == expand_env_vars_in_json(doc)
           c == ConfigOf(full)
           loads == /\ Present(run.path)
                    /\ ~Dangling(doc)
                    /\ HasItsTypes(full)
                    /\ ~WrongMode(run.bin, c)
       IN  Goto(IF ~loads THEN Exit(1)
                  ELSE IF c.workers = "0" THEN Exit(101)
                  ELSE [pc |-> "pool", cfg |-> c])

(* build_runtime: create_pool refuses TLS over a socket, ...               *)
BuildPool ==
    /\ At("pool")
    /\ Goto(IF (run.cfg.socket # "" /\ run.cfg.ssl) \/ ~SocketOk(run.cfg)
              THEN Exit(1)
              ELSE [pc |-> "pubsub", cfg |-> run.cfg,
                    size |-> PoolSize(run.cfg),
                    pool |-> pool_connection_info(run.cfg)])

(* ... the Pub/Sub client looks at the socket again, ...                   *)
BuildPubSub ==
    /\ At("pubsub")
    /\ Goto(IF ~SocketOk(run.cfg) THEN Exit(1)
              ELSE [pc |-> "compat", cfg |-> run.cfg, size |-> run.size,
                    clients |-> {run.pool, create_pubsub_client(run.cfg)}])

(* ... and so do the two clients of the session manager.                   *)
BuildCompat ==
    /\ At("compat")
    /\ LET wanted == run.cfg.mode = "rest" /\ run.cfg.compat
           both == {create_client(run.cfg), create_pubsub_client(run.cfg)}
       IN  Goto(IF ~wanted THEN [run EXCEPT !.pc = "listen"]
                  ELSE IF ~SocketOk(run.cfg) THEN Exit(1)
                  ELSE [pc |-> "listen", cfg |-> run.cfg, size |-> run.size,
                        clients |-> run.clients \cup both])

(* serve: an address that cannot be read, or is in use, ends the process.  *)
Listen ==
    /\ At("listen")
    /\ IF run.cfg.listen \in Hosts
         THEN Goto([run EXCEPT !.pc = "serving"]) \/ Goto(Exit(1))
         ELSE Goto(Exit(1))

----------------------------------------------------------------------------
(* Others: an operator writes or removes a file, Redis restarts, and the   *)
(* program is started again after it has ended.                            *)

Edit ==
    /\ edits < MaxEdits /\ ~At("serving")
    /\ edits' = edits + 1
    /\ \/ \E f \in Files, d \in Documents \cup {NoFile} :
             files' = [files EXCEPT ![f] = d] /\ UNCHANGED socketUp
       \/ socketUp' = ~socketUp /\ UNCHANGED files
    /\ UNCHANGED run

Again == At("exited") /\ Goto(Idle)

Program ==
    \/ \E i \in Invocations : Invoke(i)
    \/ CheckAbsent \/ WriteConfig \/ LoadConfig
    \/ BuildPool \/ BuildPubSub \/ BuildCompat \/ Listen

StartNext == Program \/ Edit \/ Again
============================================================================
