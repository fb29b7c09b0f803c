---------------------------- MODULE MCShellSession ----------------------------
(***************************************************************************)
(* Small instances of ShellSession.  The texts stand for their kinds.      *)
(***************************************************************************)
EXTENDS ShellSession

Kind(word, out, what) == [opens |-> word, prints |-> out, leaves |-> what]

\* Statements whose words say what they leave.
PlainKinds == [
  create   |-> Kind("other", FALSE, "data"),
  setting  |-> Kind("setting", FALSE, "process"),
  pragma   |-> Kind("setting", TRUE, "nothing"),
  temp     |-> Kind("owned", FALSE, "process"),
  execute  |-> Kind("owned", FALSE, "data"),
  select   |-> Kind("other", TRUE, "nothing")]

\* And the ones that leave data and print rows.
PrintingKinds == [
  create    |-> Kind("other", FALSE, "data"),
  returning |-> Kind("other", TRUE, "data"),
  temp      |-> Kind("owned", FALSE, "process")]

PlainTexts  == DOMAIN PlainKinds
PlainOpens  == [t \in PlainTexts |-> PlainKinds[t].opens]
PlainPrints == [t \in PlainTexts |-> PlainKinds[t].prints]
PlainLeaves == [t \in PlainTexts |-> PlainKinds[t].leaves]

PrintingTexts  == DOMAIN PrintingKinds
PrintingOpens  == [t \in PrintingTexts |-> PrintingKinds[t].opens]
PrintingPrints == [t \in PrintingTexts |-> PrintingKinds[t].prints]
PrintingLeaves == [t \in PrintingTexts |-> PrintingKinds[t].leaves]
=============================================================================
