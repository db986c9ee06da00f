-------------------------- MODULE MCPubSubManager --------------------------
(* Instances of PubSubManager for TLC.                                     *)
EXTENDS PubSubManager, TLC

CONSTANTS h, g, w   \* an HTTP, a gRPC and a WebSocket subscriber

ThreeKinds == h :> "http" @@ g :> "grpc" @@ w :> "ws"
ChannelSymmetry == Permutations(Channels)
HttpAndGrpc == h :> "http" @@ g :> "grpc"
OneHttp == h :> "http"
OneWebSocket == w :> "ws"
============================================================================
