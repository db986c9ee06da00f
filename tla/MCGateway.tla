----------------------------- MODULE MCGateway -----------------------------
(* Documents that serve over HTTP, a socket or gRPC, and documents that do *)
(* not get that far; rules that refuse, give back and ask for credentials. *)
EXTENDS Gateway

MCDocuments ==
    { [acl |-> "rules", websockets |-> "true", http_threads |-> "1", database |-> "0"],
      [transport_mode |-> "grpc", acl |-> "rules", database |-> "1"],
      ("compat_hiredis.enabled" :> "true") @@ ("hiredis.keep_alive_sec" :> "3")
        @@ [redis_port |-> "$PORT", redis_auth |-> "pair", database |-> "1",
            http_host |-> "localhost"],
      ("compat_hiredis.enabled" :> "true")
        @@ [redis_socket |-> "/redis.sock", redis_auth |-> "single",
            http_host |-> "localhost"],
      ("ssl.enabled" :> "true") @@ [redis_socket |-> "/redis.sock"],
      [redis_port |-> "$UNSET"],
      [database |-> "300"],
      [runtime_worker_threads |-> "0"],
      [threads |-> "0", http_threads |-> "1", pool_size |-> "0"] }
MCPlaceholders == {"$PORT", "$UNSET"}
MCEnv == "$PORT" :> "6380"
Numbers == {"0", "1", "3", "4", "10", "6379", "6380"}
MCFieldType ==
    [redis_port |-> Numbers, http_threads |-> Numbers, threads |-> Numbers,
     pool_size |-> Numbers, database |-> {"0", "1"}, websockets |-> {"true", "false"},
     acl |-> {"none", "rules"}]
MCNumberOf == ("0" :> 0) @@ ("1" :> 1) @@ ("3" :> 3) @@ ("4" :> 4) @@ ("10" :> 10)
MCCredentials == [pair |-> <<"u", "p%40">>, single |-> <<"", "">>]
MCEscapes == ("p%40" :> "p@") @@ ("G%45T" :> "GET")
MCHosts == {"0.0.0.0", "127.0.0.1"}
MCInvocations ==
    { [bin |-> "redis-web", path |-> "", write |-> "no"],
      [bin |-> "redis-web-grpc", path |-> "redis-web.json", write |-> "no"],
      [bin |-> "redis-web", path |-> "", write |-> "default"],
      [bin |-> "webdis", path |-> "", write |-> "minimal"],
      [bin |-> "webdis", path |-> "webdis.json", write |-> "no"],
      [bin |-> "webdis", path |-> "", write |-> "both"] }

MCPeers == {"h", "u", "s", "j"}
MCKind == [h |-> "http", u |-> "unary", s |-> "stream", j |-> "json"]
MCAddress == [h |-> "10.0.0.1", u |-> "10.0.0.1", s |-> "8.8.8.8", j |-> "8.8.8.8"]
MCSubnets == "10.0.0.0/8" :> {"10.0.0.1"}
Rule(ip, auth, enabled, disabled) ==
    [ip |-> ip, auth |-> auth, enabled |-> enabled, disabled |-> disabled]
MCAclTable ==
    [none |-> <<>>,
     rules |-> << Rule("", "", {}, {"*"}), Rule("10.0.0.0/8", "", {"GET"}, {"GET"}),
                  Rule("10.0.0.0/33", "me", {"*"}, {}), Rule("", "me", {}, {"INFO"}) >>]

Url(prefix, name, key, ext, escaped, cb, type) ==
    [prefix |-> prefix, name |-> name, key |-> key, ext |-> ext,
     escaped |-> escaped, jsonp |-> "", callback |-> cb, type |-> type]
MCUrls ==
    { Url("none", "GET", "k", "", FALSE, "f", ""),
      Url("1", "G%45T", "k", "png", FALSE, "", ""),
      Url("none", "GET", "k", "png", TRUE, "", ""),
      Url("none", "SET", "k", "raw", FALSE, "", ""),
      Url("none", "INFO", "", "json", FALSE, "", "t"),
      Url("256", "GET", "k", "foo", FALSE, "", ""),
      Url("bare", "", "", "", FALSE, "", "") }
Cmd(db, name, args) == [db |-> db, name |-> name, args |-> args]
MCCommands ==
    {Cmd("none", "GET", <<"k">>), Cmd("1", "SET", <<"k", "a">>), Cmd("256", "GET", <<"k">>)}

ASSUME TextsAreSequences ==
    TextLaws(Words \cup {"GET", "k", "png", "f", "list"})
============================================================================
