-------------------------- MODULE MCCodexAuthGate --------------------------
(* A small instance of CodexAuthGate for TLC. *)
EXTENDS CodexAuthGate

CONSTANTS c1, c2, c3

ThreeCallers == {c1, c2, c3}

\* Auto mode with an access token, ChatGPT only, and API key with both secrets set.
ThreeEnvironments ==
  {[mode |-> "auto", key |-> FALSE, token |-> TRUE],
   [mode |-> "chatgpt", key |-> FALSE, token |-> FALSE],
   [mode |-> "api-key", key |-> TRUE, token |-> TRUE]}

=============================================================================
