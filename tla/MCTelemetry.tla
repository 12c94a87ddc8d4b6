---------------------------- MODULE MCTelemetry ----------------------------
(* Small instances of Telemetry for TLC. *)
EXTENDS Telemetry, TLC

CONSTANTS p1, p2

TwoProcesses == {p1, p2}

\* Processes differ only by name.
ProcessSymmetry == Permutations(TwoProcesses)

\* Consent was given and the client is not registered yet; a first use is what a
\* suppressed question that may be asked again looks like.
StoredConfigs == {[NewConfig EXCEPT !.consent = "enabled"]}

Emitting(flush, completed) ==
  [kind |-> "emit", flush |-> flush, completed |-> completed, choice |-> "not_now"]
Choice(kind, choice) ==
  [kind |-> kind, flush |-> FALSE, completed |-> FALSE, choice |-> choice]
\* A script's event, the stop hook's, and what people choose.
GivenCommands ==
  {Emitting(FALSE, FALSE), Emitting(TRUE, TRUE),
   Choice("ensure", "enabled"), Choice("consent", "declined"), Choice("consent", "not_now")}

=============================================================================
