-------------------------- MODULE MCRequestCompiler --------------------------
(* Requests of each dialect that extend, trim, re-encode and echo another. *)
EXTENDS RequestCompiler

T(word) == [prefixes |-> 0, word |-> word]
Echo(word) == [prefixes |-> 1, word |-> word]

Node(type, role, id, form, text) ==
  [type |-> type, role |-> role, id |-> id, form |-> form, text |-> text,
   cache |-> FALSE, more |-> FALSE]
Says(role, text) == Node("message", role, 0, "string", text)
Lists(role) == Node("message", role, 0, "array", NoText)
Part(type, text) == Node(type, "none", 0, "none", text)
Block(type) == Node(type, "none", 0, "none", NoText)
Call(id) == Node("call", "none", id, "none", NoText)
Answer(role, id, text) == Node("result", role, id, "string", text)
Marked(n) == [n EXCEPT !.cache = TRUE, !.more = TRUE]

At(i) == <<i, 0, 0>>
In(i, j) == <<i, j, 0>>
Listed(i, role, n) == (At(i) :> Lists(role)) @@ (In(i, 1) :> n)

Plainly == [instructions |-> Absent, max_tokens |-> "given",
            max_output_tokens |-> Absent, chat_only |-> "given"]
Both == [Plainly EXCEPT !.max_output_tokens = "more"]

Sent(path, list, params, tree) ==
  [path |-> path, list |-> list, params |-> params, tree |-> tree]

(* Messages API: a turn with thinking and a tool call, its answer with an  *)
(* image; the first message again as an array; an answer without a call.   *)
Tooled == (In(2, 1) :> Block("thinking")) @@ (In(2, 2) :> Part("text", T("b"))) @@
          (In(2, 3) :> Call(1)) @@ (At(2) :> Lists("assistant")) @@
          (At(3) :> Lists("user")) @@ (In(3, 1) :> Node("result", "none", 1, "array", NoText)) @@
          (<<3, 1, 1>> :> Part("text", T("a"))) @@ (In(3, 2) :> Marked(Block("image")))
AnthropicTrees ==
  {At(1) :> Says("user", T("a")),
   (At(1) :> Says("user", T("a"))) @@ Tooled,
   (At(1) :> Lists("user")) @@ (In(1, 1) :> Marked(Part("text", T("a")))) @@ Tooled,
   At(1) :> Says("user", Echo("a")),
   (At(1) :> Lists("user")) @@ (In(1, 1) :> Node("result", "none", 7, "string", T("a")))}

(* Chat Completions: calls and answers, their trimmed history, and system  *)
(* messages between which an echo of the anchor comes back; a developer    *)
(* who says what the user said, and is left by a trim.                     *)
Instructed == (At(1) :> Says("system", T("b"))) @@ (At(2) :> Says("system", T("b")))
Called == (At(1) :> Says("assistant", T("b"))) @@ (<<1, Calls, 1>> :> Call(1)) @@
          (At(2) :> Node("message", "tool", 1, "string", T("b")))
ChatTrees ==
  {(At(1) :> Lists("user")) @@ (In(1, 1) :> Marked(Part("text", T("a")))) @@
     (In(1, 2) :> Marked(Block("image"))) @@
     (At(2) :> Says("assistant", T("b"))) @@ (<<2, Calls, 1>> :> Call(1)) @@
     (At(3) :> Node("message", "tool", 1, "string", T("b"))),
   Called @@ (At(3) :> Says("user", T("b"))),
   Instructed @@ (At(3) :> Says("user", T("a"))) @@
     (At(4) :> Says("system", T("b"))) @@ (At(5) :> Says("system", T("b"))),
   Instructed @@ (At(3) :> Says("user", Echo("a"))),
   Listed(1, "user", Part("text", T("a"))) @@ Listed(2, "developer", Part("text", T("a"))) @@
     (At(3) :> Says("user", T("b"))),
   Listed(1, "developer", Part("text", T("a"))) @@ (At(2) :> Says("user", T("b")))}

(* Responses: unknown fields, an empty string, and a trimmed history in    *)
(* which a developer says what the user said.                              *)
Twice == Listed(1, "user", Part("input_text", T("a"))) @@ (At(2) :> Says("user", T("b")))
ResponsesTrees ==
  {Listed(1, "user", Marked(Part("input_text", T("a")))) @@ (In(1, 2) :> Block("document")) @@
     (At(2) :> Call(1)) @@ (At(3) :> Answer("none", 1, T("b"))),
   At(1) :> Says("user", T(Blank)),
   Twice @@ Listed(3, "user", Part("input_text", T("a"))) @@ (At(4) :> Says("user", T("b"))),
   Twice @@ Listed(3, "developer", Part("input_text", T("a"))) @@ (At(4) :> Says("user", T("b")))}

AllRequests ==
  {Sent(Anthropic, "messages", Plainly, tree) : tree \in AnthropicTrees} \cup
  {Sent(Chat, "messages", Plainly, tree) : tree \in ChatTrees} \cup
  {Sent(Responses, "input", Plainly, tree) : tree \in ResponsesTrees} \cup
  {Sent(Chat, "input", params, At(1) :> Says("user", T("a"))) : params \in {Plainly, Both}}

=============================================================================
