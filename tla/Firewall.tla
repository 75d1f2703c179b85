-------------------------------- MODULE Firewall --------------------------------
(***************************************************************************)
(* The rules of ufw (internal/firewall/firewall.go, handlers_firewall.go)  *)
(* and the pages that show them.  Each request is one ufw command, which   *)
(* holds ufw's own lock; what goes stale is the number that a page gives   *)
(* a rule.                                                                 *)
(***************************************************************************)
EXTENDS Naturals, Sequences, FiniteSets, SequencesExt, Functions

CONSTANTS
  Browsers,
  Specs,       \* what ValidSpec accepts
  BothStacks   \* the subset of them that names no address: ufw makes two rules

Actions == {"allow", "deny"}
Rule(spec, action, v6) == [spec |-> spec, action |-> action, v6 |-> v6]

(* A rule of another direction than IN and OUT, which the page leaves out. *)
Routed == Rule("routed", "allow", FALSE)
Rules == {Rule(s, a, v) : s \in Specs, a \in Actions, v \in BOOLEAN} \cup {Routed}

VARIABLES
  enabled,     \* ufw filters
  rules,       \* in the order of ufw status numbered: IPv4 first
  page,        \* what each browser last listed: number -> rule
  old,         \* history: pages older than the last change of the rules
  wanted,      \* history: the rules that were asked for
  disturbed    \* history: an old page was gone by

firewallVars == <<enabled, rules, page, old, wanted, disturbed>>

(* Rules, pages and histories hold rules. *)
TypeOK ==
  /\ enabled \in BOOLEAN /\ disturbed \in BOOLEAN
  /\ rules \in Seq(Rules) /\ wanted \subseteq Rules
  /\ \A b \in Browsers : Range(page[b]) \subseteq Rules \ {Routed}
  /\ old \subseteq Browsers

Init ==
  /\ enabled \in BOOLEAN
  /\ rules \in {<<>>, <<Routed>>}
  /\ page = [b \in Browsers |-> <<>>]
  /\ wanted = Range(rules) /\ old = {} /\ disturbed = FALSE

(* Mutant: numbered by their place on the page. *)
Renumbered(list) == SelectSeq(list, LAMBDA r : r # Routed)

(* parseRules: the lines it understands, by the numbers that ufw gave them. *)
Numbered(list) == Restrict(list, {n \in DOMAIN list : list[n] # Routed})

(* A ufw that is disabled lists no rule. *)
GetStatus(b) ==
  /\ page' = [page EXCEPT ![b] = IF enabled THEN Numbered(rules) ELSE <<>>]
  /\ old' = old \ {b}
  /\ UNCHANGED <<enabled, rules, wanted, disturbed>>

(* ufw turns the rule it has of this kind, or puts the new one at the end of
   its family's. *)
SameKind(r, s) == r.spec = s.spec /\ r.v6 = s.v6
Put(list, rule) ==
  LET v4 == {n \in DOMAIN list : ~list[n].v6}
  IN IF \E n \in DOMAIN list : SameKind(list[n], rule)
     THEN [n \in DOMAIN list |-> IF SameKind(list[n], rule) THEN rule ELSE list[n]]
     ELSE IF rule.v6 THEN Append(list, rule) ELSE InsertAt(list, Cardinality(v4) + 1, rule)

Changed(list) == rules' = list /\ old' = IF list = rules THEN old ELSE Browsers

Add(action, spec) ==
  LET v4 == Rule(spec, action, FALSE)
      v6 == Rule(spec, action, TRUE)
      new == {v4} \cup (IF spec \in BothStacks THEN {v6} ELSE {})
  IN /\ Changed(IF spec \in BothStacks THEN Put(Put(rules, v4), v6) ELSE Put(rules, v4))
     /\ wanted' = {r \in wanted : \A s \in new : ~SameKind(r, s)} \cup new
     /\ UNCHANGED <<enabled, page, disturbed>>

(* The number is all that the request says; ufw refuses one it does not have. *)
Delete(b) ==
  \E n \in DOMAIN page[b] :
    /\ Changed(IF n <= Len(rules) THEN RemoveAt(rules, n) ELSE rules)
    /\ wanted' = wanted \ {page[b][n]}
    /\ disturbed' = (disturbed \/ b \in old)
    /\ UNCHANGED <<enabled, page>>

SetEnabled ==
  /\ enabled' = ~enabled
  /\ UNCHANGED <<rules, page, old, wanted, disturbed>>

Next ==
  \/ \E b \in Browsers : GetStatus(b) \/ Delete(b)
  \/ \E a \in Actions, s \in Specs : Add(a, s)
  \/ SetEnabled

(* "removes the rule with the given numeric ID": ufw has the rules that were
   added and not deleted, each once, and those that no page shows, unless a
   page older than the last change was gone by. *)
RulesAsAsked ==
  ~disturbed =>
    /\ Range(rules) = wanted
    /\ \A m, n \in DOMAIN rules : SameKind(rules[m], rules[n]) => m = n
==============================================================================
