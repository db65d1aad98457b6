------------------------------ MODULE Providers ------------------------------
(***************************************************************************)
(* The three provider dialects: what the codecs of providers/ see in a     *)
(* request, what the adapters of adapters/ make of it when they parse it   *)
(* and write it again, and what the compiler may put in its place.         *)
(*                                                                         *)
(* The body of a request is a tree, a function from places to nodes:       *)
(* <<i, 0, 0>> is message or input item i, <<i, j, 0>> part j of its       *)
(* content, <<i, j, k>> block k inside the tool result at part j, and      *)
(* <<i, Calls, k>> entry k of its tool_calls.  Content that is a plain     *)
(* string is the text of its message or result.  A hash is the value it is *)
(* taken of, without the cache_control that stableStringify leaves out.    *)
(* System messages of the Messages API have a string for their content.    *)
(***************************************************************************)
EXTENDS Naturals

CONSTANTS
  Words,        \* texts and payloads, told apart only as far as they matter
  Blank,        \* the empty text
  Evicted       \* the eviction marker

ASSUME WordAssumption == {Blank, Evicted} \subseteq Words

Anthropic == "anthropic-messages"
Chat == "openai-chat-completions"
Responses == "openai-responses"
Providers == {Anthropic, Chat, Responses}

(* A text, behind any number of bootstrap texts; a node that is not a text *)
(* has none.                                                               *)
Texts == [prefixes : Nat, word : Words \cup {"none"}]
Plain(word) == [prefixes |-> 0, word |-> word]
NoText == [prefixes |-> 0, word |-> "none"]

TextTypes == {"text", "input_text", "output_text"}
MediaTypes == {"image", "document"}
NodeTypes == TextTypes \cup MediaTypes \cup
             {"message", "result", "call", "thinking", "server-tool", "other"}
Roles == {"none", "system", "developer", "user", "assistant", "tool"}

(* more: fields the proxy does not know; cache: a cache_control. *)
Nodes == [type : NodeTypes, role : Roles, id : Nat,
          form : {"none", "string", "array"},
          text : Texts, cache : BOOLEAN, more : BOOLEAN]

Places == Nat \X Nat \X Nat
Calls == 99

IsText(n) == n.type \in TextTypes \/ n.form = "string"
IsMedia(n) == n.type \in MediaTypes
IsContainer(n) == n.type \in {"message", "result"} /\ n.form # "string"

Item(p) == <<p[1], 0, 0>>
Items(tree) == {p \in DOMAIN tree : p = Item(p)}
RoleAt(tree, p) == tree[Item(p)].role

(* The content of a message, and the blocks of a result. *)
IsPart(p) == p[2] \notin {0, Calls} /\ p[3] = 0
Parts(tree, item) == {p \in DOMAIN tree : IsPart(p) /\ Item(p) = item}

(***************************************************************************)
(* Occurrences: project() of the codecs.                                   *)
(***************************************************************************)
AnthropicOccurrences(tree) ==
  {p \in DOMAIN tree :
     IF RoleAt(tree, p) = "system" THEN p = Item(p) ELSE ~IsContainer(tree[p])}

(* Mid-conversation instructions, thinking and tool calls are protected. *)
AnthropicMutable(tree, p) ==
  /\ RoleAt(tree, p) \in {"user", "assistant"}
  /\ IsText(tree[p]) \/ IsMedia(tree[p])

ChatRoles == {"user", "assistant", "tool"}

ChatOccurrences(tree) == {p \in DOMAIN tree : ~IsContainer(tree[p])}

ChatMutable(tree, p) ==
  \/ IsText(tree[p]) /\ RoleAt(tree, p) \in ChatRoles
  \/ IsMedia(tree[p]) /\ RoleAt(tree, p) = "user"

ResponsesOccurrences(tree) == {p \in DOMAIN tree : ~IsContainer(tree[p])}

ResponsesMutable(tree, p) ==
  \/ tree[p].type = "result" /\ IsText(tree[p])
  \/ /\ RoleAt(tree, p) \in {"user", "assistant"}
     /\ IsText(tree[p]) \/ IsMedia(tree[p])

Occurrences(provider, tree) ==
  CASE provider = Anthropic -> AnthropicOccurrences(tree)
    [] provider = Chat -> ChatOccurrences(tree)
    [] provider = Responses -> ResponsesOccurrences(tree)

Mutable(provider, tree, p) ==
  CASE provider = Anthropic -> AnthropicMutable(tree, p)
    [] provider = Chat -> ChatMutable(tree, p)
    [] provider = Responses -> ResponsesMutable(tree, p)

Kind(tree, p) ==
  LET role == RoleAt(tree, p)
  IN  IF IsMedia(tree[p]) THEN tree[p].type
      ELSE IF ~IsText(tree[p]) THEN "protected"
      ELSE IF tree[p].type = "result" \/ p[3] > 0 \/ role = "tool" THEN "tool-result-text"
      ELSE IF role = "assistant" THEN "assistant-text"
      ELSE IF role = "user" \/ tree[p].form # "string" THEN "user-text"
      ELSE "other"

(* What a hash of a block is taken of. *)
Hashed(n) == [n EXCEPT !.cache = FALSE]

(* What the path of an occurrence leads to, before and after: the text of  *)
(* a text, all of another block.                                           *)
ValueAt(before, after) ==
  IF IsText(before) /\ IsText(after) THEN [text |-> after.text] ELSE [block |-> Hashed(after)]

Value(n) == ValueAt(n, n)

UpTo(q, p) ==
  \/ q[1] < p[1]
  \/ q[1] = p[1] /\ q[2] < p[2]
  \/ q[1] = p[1] /\ q[2] = p[2] /\ q[3] <= p[3]

(* A Chat message of another role is one more occurrence as a whole, after *)
(* those of its content: never a target, but a predecessor.                *)
Envelopes(provider, tree) ==
  {m \in Items(tree) : provider = Chat /\ RoleAt(tree, m) \notin ChatRoles}

Whole(tree, m) == {<<q, Hashed(tree[q])>> : q \in {q \in DOMAIN tree : Item(q) = m}}

(* Mutant: an identifier does not hash its predecessors. *)
IdentityAlone(provider, tree, p) == {<<p, Kind(tree, p), Value(tree[p])>>}

(* The identifier of an occurrence hashes its predecessors too. *)
Identity(provider, tree, p) ==
  [content |-> {<<q, Kind(tree, q), Value(tree[q])>> :
                  q \in {q \in Occurrences(provider, tree) : UpTo(q, p)}},
   wholes |-> {<<m, Whole(tree, m)>> :
                 m \in {m \in Envelopes(provider, tree) : m[1] < p[1]}}]

(***************************************************************************)
(* Structure: what inspectStructure() of the codecs reports.               *)
(***************************************************************************)
CallsOf(tree) == {p \in DOMAIN tree : tree[p].type = "call"}
AnswersOf(tree) == {p \in DOMAIN tree : tree[p].type = "result" \/ tree[p].role = "tool"}

(* Each tool result follows the one call that has its id. *)
Paired(tree) ==
  /\ \A c, d \in CallsOf(tree) : tree[c].id = tree[d].id => c = d
  /\ \A r, s \in AnswersOf(tree) : tree[r].id = tree[s].id => r = s
  /\ \A r \in AnswersOf(tree) : \E c \in CallsOf(tree) :
       tree[c].id = tree[r].id /\ c[1] < r[1]

Filled(tree, m) ==
  \/ tree[m].form = "string" /\ tree[m].text # Plain(Blank)
  \/ tree[m].form = "array" /\ Parts(tree, m) # {}

EndsInServerTool(tree, m) ==
  /\ tree[m].role = "assistant"
  /\ \E p \in Parts(tree, m) :
       /\ tree[p].type = "server-tool"
       /\ \A q \in Parts(tree, m) : q[2] <= p[2]

(* A system message stands between a user turn, or a server tool use, and  *)
(* the assistant's turn.                                                   *)
SystemPlaced(tree, m) ==
  LET before == <<m[1] - 1, 0, 0>>
      after == <<m[1] + 1, 0, 0>>
  IN  /\ m[1] > 1
      /\ tree[before].role = "user" \/ EndsInServerTool(tree, before)
      /\ after \in DOMAIN tree => tree[after].role = "assistant"

AnthropicSound(tree) ==
  /\ Paired(tree)
  /\ \A m \in Items(tree) :
       /\ tree[m].role \in {"user", "assistant", "system"}
       /\ Filled(tree, m)
       /\ tree[m].role = "system" => SystemPlaced(tree, m)
  /\ \A p \in DOMAIN tree :
       /\ tree[p].type = "thinking" /\ IsPart(p) =>
            /\ RoleAt(tree, p) = "assistant"
            /\ \A q \in Parts(tree, Item(p)) :
                 q[2] < p[2] => tree[q].type = "thinking"
       /\ tree[p].type = "call" => RoleAt(tree, p) = "assistant"
       /\ tree[p].type = "result" => RoleAt(tree, p) = "user" /\ tree[p].form # "none"
       /\ tree[p].type = "text" /\ IsPart(p) => tree[p].text # Plain(Blank)

ChatSound(tree) ==
  /\ Paired(tree)
  /\ \A m \in Items(tree) : tree[m].role \in Roles \ {"none"}
  /\ \A c \in CallsOf(tree) : RoleAt(tree, c) = "assistant"

ResponsesSound(tree) ==
  /\ Paired(tree)
  /\ \A m \in Items(tree) :
       /\ tree[m].type = "message" =>
            tree[m].role \in {"user", "assistant", "system", "developer"} /\ tree[m].form # "none"
       /\ tree[m].type = "result" => tree[m].form = "string"

Sound(provider, tree) ==
  CASE provider = Anthropic -> AnthropicSound(tree)
    [] provider = Chat -> ChatSound(tree)
    [] provider = Responses -> ResponsesSound(tree)

(* itemOrderHash: the roles, ids and slots, in their order. *)
AnthropicOrder(tree) ==
  {<<m, tree[m].role>> : m \in Items(tree)} \cup
  {<<p, "mutable-payload", 0>> :
     p \in {p \in DOMAIN tree : IsPart(p) /\ (tree[p].type = "text" \/ IsMedia(tree[p]))}} \cup
  {<<<<m[1], 1, 0>>, "mutable-payload", 0>> : m \in {m \in Items(tree) : tree[m].form = "string"}} \cup
  {<<p, tree[p].type, tree[p].id>> :
     p \in {p \in DOMAIN tree : IsPart(p) /\ tree[p].type # "text" /\ ~IsMedia(tree[p])}}

ChatOrder(tree) ==
  {<<p, tree[p].role, tree[p].id>> : p \in Items(tree) \cup CallsOf(tree)}

ResponsesOrder(tree) ==
  {<<m, tree[m].type, tree[m].role, tree[m].id>> : m \in Items(tree)}

Order(provider, tree) ==
  CASE provider = Anthropic -> AnthropicOrder(tree)
    [] provider = Chat -> ChatOrder(tree)
    [] provider = Responses -> ResponsesOrder(tree)

(* protectedHashes: what a surgery may not change. *)
Envelope(n) == [role |-> n.role, id |-> n.id, more |-> n.more]

AnthropicProtected(tree) ==
  {<<m, Envelope(tree[m])>> : m \in Items(tree)} \cup
  {<<p, Envelope(tree[p])>> : p \in {p \in DOMAIN tree : IsPart(p) /\ tree[p].type = "result"}} \cup
  {<<p, [cache |-> TRUE]>> :
     p \in {p \in DOMAIN tree :
              IsPart(p) /\ tree[p].cache /\ (tree[p].type = "text" \/ IsMedia(tree[p]))}} \cup
  {<<p, Hashed(tree[p])>> :
     p \in {p \in DOMAIN tree :
              \/ RoleAt(tree, p) = "system"
              \/ /\ IsPart(p)
                 /\ tree[p].type \notin {"text", "result"} \cup MediaTypes}}

ChatProtected(tree) ==
  {<<m, Envelope(tree[m])>> : m \in Items(tree)} \cup
  {<<p, Hashed(tree[p])>> :
     p \in CallsOf(tree) \cup
           {p \in DOMAIN tree : IsPart(p) /\ tree[p].type \notin {"text"} \cup MediaTypes}}

ResponsesProtected(tree) ==
  {<<m, [role |-> tree[m].role]>> : m \in {m \in Items(tree) : tree[m].type = "message"}} \cup
  {<<m, Envelope(tree[m])>> : m \in {m \in Items(tree) : tree[m].type = "result"}} \cup
  {<<p, Hashed(tree[p])>> :
     p \in {p \in DOMAIN tree : ~IsText(tree[p]) /\ ~IsMedia(tree[p]) /\ ~IsContainer(tree[p])}}

Protected(provider, tree) ==
  CASE provider = Anthropic -> AnthropicProtected(tree)
    [] provider = Chat -> ChatProtected(tree)
    [] provider = Responses -> ResponsesProtected(tree)

(* validate() finds no error in what became of a request. *)
Valid(provider, before, after) ==
  /\ Sound(provider, after)
  /\ Items(after) = Items(before)
  /\ Order(provider, after) = Order(provider, before)
  /\ Protected(provider, after) = Protected(provider, before)

(***************************************************************************)
(* The adapters: parse() and serialize().                                  *)
(***************************************************************************)
(* A content block of a ContextItem: a text alone, or all of the original. *)
Parsed(n) == IF IsText(n) THEN [kind |-> "text", text |-> n.text]
             ELSE [kind |-> "raw", raw |-> n]

(* Mutant: the fields of a text block that are not its text are dropped. *)
WrittenBare(block, original) ==
  IF block.kind = "text" THEN [original EXCEPT !.text = block.text, !.more = FALSE]
  ELSE block.raw

(* The text goes back into what it came from. *)
Written(block, original) ==
  IF block.kind = "text" THEN [original EXCEPT !.text = block.text] ELSE block.raw

AnthropicRewritten(tree) == [p \in DOMAIN tree |-> Written(Parsed(tree[p]), tree[p])]

ChatRewritten(tree) == [p \in DOMAIN tree |-> Written(Parsed(tree[p]), tree[p])]

TextBlock(type, text, cache) ==
  [type |-> type, role |-> "none", id |-> 0, form |-> "none",
   text |-> text, cache |-> cache, more |-> FALSE]

ResponsesTextType(role) == IF role = "assistant" THEN "output_text" ELSE "input_text"

(* An array's texts are made anew, of the type that goes with the role; an *)
(* empty string is taken for no content.                                   *)
ResponsesRewritten(tree) ==
  [p \in DOMAIN tree |->
     LET n == tree[p]
         role == RoleAt(tree, p)
     IN  IF role \notin {"user", "assistant"} THEN n
         ELSE IF n.type \in TextTypes
         THEN TextBlock(IF role = "user" THEN "input_text" ELSE "output_text", n.text, FALSE)
         ELSE IF n.type = "message" /\ n.form = "string" /\ n.text = Plain(Blank)
         THEN [n EXCEPT !.form = "array"]
         ELSE n]

Rewritten(provider, tree) ==
  CASE provider = Anthropic -> AnthropicRewritten(tree)
    [] provider = Chat -> ChatRewritten(tree)
    [] provider = Responses -> ResponsesRewritten(tree)

(***************************************************************************)
(* What an edit puts in the place of an occurrence.                        *)
(***************************************************************************)
(* Mutant: the marker forgets the cache mark of what it replaces. *)
MarkerBare(provider, tree, p, text) ==
  TextBlock(IF provider = Responses THEN ResponsesTextType(RoleAt(tree, p)) ELSE "text",
            text, FALSE)

(* The block that stands for an image or a document. *)
MarkerBlock(provider, tree, p, text) ==
  CASE provider = Anthropic -> TextBlock("text", text, tree[p].cache)
    [] provider = Chat -> TextBlock("text", text, FALSE)
    [] provider = Responses ->
         TextBlock(ResponsesTextType(RoleAt(tree, p)), text, tree[p].cache)

(* setAtPath puts a text where the content of a string was, too.           *)
Edited(provider, tree, p, text) ==
  IF IsMedia(tree[p]) THEN MarkerBlock(provider, tree, p, text)
  ELSE [tree[p] EXCEPT !.text = text,
                       !.form = IF tree[p].type \in TextTypes THEN @ ELSE "string"]

=============================================================================
