-------------------------------- MODULE Acl --------------------------------
(***************************************************************************)
(* The access rules of the config and their check.  A rule applies to who  *)
(* asks: when it asks for credentials only they count, otherwise the       *)
(* address does.  Command names are compared without their case, so a name *)
(* stands for all its spellings; "*" names every command.                  *)
(***************************************************************************)
EXTENDS Integers, Sequences

CONSTANTS
    Subnets   \* Subnets[t]: the addresses of a text that can be parsed as a subnet

(* Acl::new: what cannot be parsed, or is absent, does not restrict.       *)
AclRule(c) ==
    [restricted |-> c.ip \in DOMAIN Subnets,
     net |-> IF c.ip \in DOMAIN Subnets THEN Subnets[c.ip] ELSE {},
     auth |-> c.auth, enabled |-> c.enabled, disabled |-> c.disabled]

Matches(rule, who) ==
    IF rule.auth # ""
      THEN who.auth = rule.auth
      ELSE rule.restricted => who.ip \in rule.net

Names(set, command) == "*" \in set \/ command \in set

(* Mutant: what one rule has enabled no later rule takes back.             *)
JudgeForGood(allowed, rule, who, command) ==
    IF ~Matches(rule, who) THEN allowed
      ELSE Names(rule.enabled, command) \/ allowed

(* What one rule makes of the verdict so far: enabled supersedes disabled. *)
Judge(allowed, rule, who, command) ==
    IF ~Matches(rule, who) THEN allowed
      ELSE Names(rule.enabled, command)
             \/ (allowed /\ ~Names(rule.disabled, command))

(* The rules are asked in their order; allowed[i] is the verdict of the    *)
(* first i of them.                                                        *)
check(rules, who, command) ==
    LET allowed[i \in 0 .. Len(rules)] ==
            IF i = 0 THEN TRUE
              ELSE Judge(allowed[i - 1], AclRule(rules[i]), who, command)
    IN  allowed[Len(rules)]

----------------------------------------------------------------------------
(* The reference: of the rules that apply and name the command, the last   *)
(* one decides; without one the command is allowed.                        *)
Deciding(rules, who, command) ==
    {i \in 1 .. Len(rules) :
       LET r == AclRule(rules[i])
       IN  Matches(r, who) /\ Names(r.enabled \cup r.disabled, command)}

LastWord(rules, who, command) ==
    LET D == Deciding(rules, who, command)
        last == CHOOSE i \in D : \A j \in D : j <= i
    IN  D = {} \/ Names(rules[last].enabled, command)
============================================================================
