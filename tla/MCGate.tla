------------------------------- MODULE MCGate -------------------------------
(* Gate.tla over a small corpus: every mode, both drift units, the four    *)
(* stages of the cascade, a document filtered by target, one that waits    *)
(* for the answer, one whose category keeps it from this scope.            *)
EXTENDS Gate, TLC

CONSTANTS guard, click, drift, clock, reply, foreignDoc,
          edit, shell, write, ok, failed

None == [mode |-> NotSet, threshold |-> NotSet, driftUnit |-> NotSet,
         enforce |-> NotSet, response |-> NotSet]

MCDocs == {guard, click, drift, clock, reply, foreignDoc}
MCActions == {edit, shell, write}
MCAnswers == {ok, failed}
MCSources == {"file", "skill", "tool"}

MCSelects == edit :> {guard, drift, foreignDoc} @@ shell :> {guard, click, reply}
             @@ write :> {drift, clock}

MCTargets == edit :> {"*", "Edit"} @@ shell :> {"*", "Bash"} @@ write :> {"*", "Write"}

MCOwner == [d \in MCDocs |-> CASE d = click -> "skill" [] d = drift -> "tool" [] OTHER -> "file"]

MCDecl == [d \in MCDocs |->
  CASE d = guard -> [None EXCEPT !.mode = "dumb"]
    [] d = clock -> [None EXCEPT !.driftUnit = "turn", !.threshold = 1, !.enforce = FALSE]
    [] d = reply -> [None EXCEPT !.response = {ok}]
    [] OTHER -> None]

MCDefaults == [s \in MCSources |->
  IF s = "skill" THEN [None EXCEPT !.enforce = TRUE]
  ELSE IF s = "tool" THEN [None EXCEPT !.enforce = TRUE, !.threshold = 1]
  ELSE [None EXCEPT !.enforce = TRUE]]

MCAdmitted == MCDocs \ {foreignDoc}

MCGlobal == [mode |-> "smart", threshold |-> 2, driftUnit |-> "tool"]

MCFilter == [s \in MCSources \cup {"global"} |->
  CASE s = "tool" -> [mode |-> "blacklist", list |-> {"Edit"}]
    [] s = "global" -> [mode |-> "whitelist", list |-> {"*"}]
    [] OTHER -> [mode |-> NotSet, list |-> {}]]

=============================================================================
