---------------------------- MODULE MC_Targeting ----------------------------
(* Values for Targeting: addresses of two networks with four hosts each and *)
(* of a second family, versions that differ in length or are no numbers,    *)
(* ranges at and beyond their boundaries.                                   *)
EXTENDS Targeting

V4(n) == [fam |-> 4, n |-> n]
V6(n) == [fam |-> 6, n |-> n]
MCAddresses == {V4(n) : n \in 0..7} \cup {V6(n) : n \in 0..2}

Tag(n, v) == [name |-> n, value |-> v]
Env == Tag("env", "prod")
Test == Tag("env", "test")
Site == Tag("site", "")

MCBuckets == [k \in {"i", "h", "n"} |-> IF k = "i" THEN 0 ELSE IF k = "h" THEN 1 ELSE 3]

Typical == [version |-> <<1, 2>>, ip |-> V4(5), tags |-> {Env}, ids |-> <<"i", "h", "n">>]

MCFleet ==
  LET versions == {<<1>>, <<1, 2, 0>>, <<1, 2, 1>>, <<1, 10>>, <<1, Text, 3>>, <<Text>>, <<2, 0, 1>>, <<0, 9>>}
      addresses == {NoAddress, V4(0), V4(3), V4(4), V4(6), V4(7), V6(0), V6(2)}
      tags == {{}, {Test}, {Site}, {Env, Test}, {Env, Site}, {Test, Site}}
      ids == {<<NoKey, "h", "n">>, <<NoKey, NoKey, "n">>, <<NoKey, NoKey, NoKey>>}
  IN  {Typical}
      \cup {[Typical EXCEPT !.version = v] : v \in versions}
      \cup {[Typical EXCEPT !.ip = i] : i \in addresses}
      \cup {[Typical EXCEPT !.tags = t] : t \in tags}
      \cup {[Typical EXCEPT !.ids = i] : i \in ids}

Clause(o, v) == [op |-> o, ver |-> v]
Constraints ==
  {<<>>, <<<<>>, <<>>>>, <<<<<<>>, <<>>>>>>,
   <<<<Clause(">=", <<1, 2>>), Clause("<", <<1, 10>>)>>>>,
   <<<<Clause("=", <<1, 2, 0>>)>>, <<Clause(">", <<2>>)>>>>,
   <<<<Clause("<=", <<1, Text>>)>>>>}

Selectors ==
  {{}, {[kind |-> "addr", addr |-> V4(5)]},
   {[kind |-> "short", start |-> V4(5), octet |-> 2]},
   {[kind |-> "short", start |-> V4(5), octet |-> 0]},
   {[kind |-> "short", start |-> V4(6), octet |-> 4]},
   {[kind |-> "range", start |-> V4(3), end |-> V4(6)], [kind |-> "addr", addr |-> V4(5)]},
   {[kind |-> "range", start |-> V4(6), end |-> V4(3)]},
   {[kind |-> "range", start |-> V4(7), end |-> V6(1)]},
   {[kind |-> "prefix", addr |-> V4(6), size |-> 4], [kind |-> "addr", addr |-> V4(5)]},
   {[kind |-> "prefix", addr |-> V4(4), size |-> 2]},
   {[kind |-> "prefix", addr |-> V6(0), size |-> 2]}}

MCGroups == [tags : {{}, {Env}, {Site}, {Env, Test}}, ips : Selectors, constraint : Constraints]
MCCanaries ==
  [percent : {0, 1, 2, 4}, tags : {{}, {Env}, {Env, Test}}, ips : {{}} \cup {s \in Selectors : \E i \in s : i.kind = "addr"},
   constraint : {<<>>, <<<<Clause(">=", <<1, 2>>)>>>>}]

(* Selectors of groups and of canaries are evaluated apart: one of them is  *)
(* as plain as can be, the canary for none or all of the agents.            *)
Apart ==
  \/ group = [tags |-> {}, ips |-> {}, constraint |-> <<>>]
  \/ /\ canary.percent \in {0, Buckets}
     /\ canary.tags = {} /\ canary.ips = {} /\ canary.constraint = <<>>

InitApart == Init /\ Apart
NextApart == Next /\ Apart'

SpecApart == InitApart /\ [][NextApart]_vars
=============================================================================
