--------------------------- MODULE MCCompatPubSub ---------------------------
(* Instances of CompatPubSub for TLC.                                      *)
EXTENDS CompatPubSub, TLC

CONSTANTS a, p      \* a channel and a pattern

Command(op, kind, args) == [op |-> op, kind |-> kind, args |-> args]

SubscribeOnly == {Command("SUBSCRIBE", Channels, <<a>>)}
(* A channel and a pattern; with arguments and without.                    *)
Mixed ==
    {Command("SUBSCRIBE", Channels, <<a>>),
     Command("SUBSCRIBE", Patterns, <<p>>),
     Command("SUBSCRIBE", Channels, <<>>),
     Command("UNSUBSCRIBE", Channels, <<>>),
     Command("UNSUBSCRIBE", Patterns, <<p>>)}
Symmetry == Permutations(Handlers) \cup Permutations(Tasks)
============================================================================
