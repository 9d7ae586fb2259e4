----------------------------- MODULE MCPipeline -----------------------------
(* Requests for the instances of Pipeline.                                 *)
EXTENDS Pipeline, TLC

CONSTANTS p1, p2

Request(by, input, stages, from, to, mode) ==
  [by |-> by, input |-> input, stages |-> stages, from |-> from, to |-> to, mode |-> mode]

\* p1 drives the Host: two requests that compile, one whose last stage cannot be
\* fed.  p2 does in another order what p1 does, or is local: two that work, two
\* that are refused when submitted, and two that fail when they run.
SomeOffers == (p1 :>
    {Request("host", "text", <<"ai", "music">>, 1, 2, "project"),
     Request("host", "grant", <<"asr", "sfx">>, 1, 2, "stored"),
     Request("host", "grant", <<"asr", "music", "ai">>, 1, 3, "text")})
  @@ (p2 :>
    {Request("host", "grant", <<"asr", "ai">>, 1, 2, "text"),
     Request("local", "file", <<"process">>, 1, 1, "stored"),
     Request("local", "file", <<"tts", "process", "asr">>, 2, 2, "stored"),
     Request("local", "text", <<"tts", "process">>, 2, 2, "stored"),
     Request("local", "text", <<"ai">>, 1, 1, "text"),
     Request("local", "file", <<"process", "tts">>, 1, 1, "websocket"),
     Request("local", "text", <<"tts">>, 1, 1, "stored")})
=============================================================================
