------------------------------- MODULE Dispatcher -------------------------------
(***************************************************************************)
(* mcp::JsonRpcDispatcher (src/src/json_rpc/stdio_jsonrpc.cpp) with the    *)
(* handlers CreateDispatcher registers                                     *)
(* (src/src/mcp_demo_server_main.cpp): what can come of calling a method.  *)
(* The handlers live in a map that nothing changes once a server has it.   *)
(***************************************************************************)

\* What a handler finds in the params of a request: no string where one is
\* required (or no object at all), the name of nothing registered, or the
\* name of a registered tool, resource or prompt.
Params == {"malformed", "unknown", "registered"}

\* Handlers that ignore their params and return.
PlainMethods ==
  {"initialize", "notifications/initialized", "ping", "tools/list",
   "resources/list", "prompts/list"}

Handlers == PlainMethods \union {"tools/call", "resources/read", "prompts/get"}

HasHandler(method) == method \in Handlers

\* CallTool turns a missing tool and an exception of the tool into a result;
\* ReadResource and GetPrompt throw for a missing name and let exceptions of
\* user code pass; all three read the name with params.at(...).  What user
\* code returns may hold text that json::dump refuses, not being UTF-8.
Outcomes(method, params) ==
  CASE method \in PlainMethods -> {"result"}
    [] method \notin PlainMethods /\ params = "malformed" -> {"throws"}
    [] method = "tools/call" /\ params = "unknown" -> {"result"}
    [] method = "tools/call" /\ params = "registered" ->
         {"result", "unprintable"}
    [] method \in {"resources/read", "prompts/get"} /\ params = "unknown" ->
         {"throws"}
    [] method \in {"resources/read", "prompts/get"}
         /\ params = "registered" -> {"result", "unprintable", "throws"}
===============================================================================
