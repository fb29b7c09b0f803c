------------------------------- MODULE MCTriage -------------------------------
(***************************************************************************)
(* Triage over short statements, cut the way Cuts says.  The wrong answer  *)
(* is in `bad`; `off` is a wider result under a `from` and an error        *)
(* without one; `boom` is a panic; a `create` done twice is an error; an   *)
(* `over` needs its `sum`; and `vague` is a word rudb's parser does not    *)
(* take.                                                                   *)
(***************************************************************************)
EXTENDS Reducer

Has(s, word) == \E i \in DOMAIN s : s[i] = word

-----------------------------------------------------------------------------
Seeds ==
  {<<"select", "bad", ",", "off", "from", "t">>,
   <<"select", "a", "--", ",", "bad">>,
   <<"(", "bad", "and", "7", ")">>,
   <<"off", "from", "vague">>,
   <<"select", "sum", "bad", "over">>,
   <<"select", "boom">>,
   <<"create", "bad">>,
   <<"create", "t">>,
   <<"select", "a">>}

MCBlank == <<>>

\* Everything the seeds can be cut down to, a cut at a time.
Grown[k \in 0..10] ==
  IF k = 0 THEN [seen |-> {}, fresh |-> Seeds]
  ELSE LET before == Grown[k - 1]
           seen == before.seen \cup before.fresh
           Made(s) == LET cs == CutsOf(s) IN {cs[i] : i \in DOMAIN cs} \cup {Tidied(s)}
       IN  [seen |-> seen,
            fresh |-> UNION {Made(s) : s \in before.fresh} \ (seen \cup {MCBlank})]

MCStatements == Grown[10].seen

MCParses(s) ==
  /\ Len(s) > 1
  /\ s[1] \in {"select", "create", "("}
  /\ ~Has(s, "vague")
  /\ Has(s, "over") => Has(s, "sum")
  /\ s[2] \notin {"from", ",", "and"}
  /\ s[Len(s)] \notin {"from", ",", "and", "select", "("}

MCSignatures == {"panicked", "syntax", "wrong", "wider", "unbound", "exists"}

MCFails(s, dirty) ==
  IF Has(s, "boom") THEN {"panicked"}
  ELSE {w \in MCSignatures \ {"panicked"} :
          CASE w = "syntax"  -> s = MCBlank \/ (Has(s, "vague") /\ Has(s, "from"))
            [] w = "wrong"   -> Has(s, "bad") /\ Len(s) > 1
            [] w = "wider"   -> Has(s, "off") /\ Has(s, "from") /\ ~Has(s, "vague")
            [] w = "unbound" -> Has(s, "off") /\ ~Has(s, "from")
            [] w = "exists"  -> Has(s, "create") /\ (dirty \/ Has(s, "bad"))}

MCLeaves(s) == Has(s, "create")
MCPanics(s) == Has(s, "boom")
MCFiles == {<<s, t>> : s \in Seeds, t \in Seeds}
=============================================================================
