--------------------------- MODULE MCPluginRuntime --------------------------
EXTENDS PluginRuntime

ThePaths == <<"one.so", "two.so", "other.so">>
TheDirs == [p \in Range(ThePaths) |-> IF p = "other.so" THEN "staged" ELSE "extensions"]

(* A directory is read as a whole, but for one subtree, or not at all.     *)
TheUnread == {{}, {"one.so"}, Range(ThePaths)}

(* A source with a dialog, a parser that is a toolbox too, a toolbox that  *)
(* lies about its dialog, a parser without encodings, an old ABI.          *)
TheImages == <<
    [exports |-> {"data_source", "dialog"}, manifest |-> "bare", abi |-> TRUE, dialog |-> TRUE],
    [exports |-> {"message_parser", "toolbox"}, manifest |-> "ok", abi |-> TRUE, dialog |-> FALSE],
    [exports |-> {"toolbox"}, manifest |-> "ok", abi |-> TRUE, dialog |-> TRUE],
    [exports |-> {"message_parser"}, manifest |-> "bare", abi |-> TRUE, dialog |-> FALSE],
    [exports |-> {"toolbox"}, manifest |-> "ok", abi |-> FALSE, dialog |-> FALSE]>>
=============================================================================
