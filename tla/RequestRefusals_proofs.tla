------------------------ MODULE RequestRefusals_proofs ------------------------
(***************************************************************************)
(* A request is only refused for a cause: proofs about RequestCompiler for *)
(* any requests that are bodies of their dialect.                          *)
(*                                                                         *)
(* First, what may become of a node keeps a sound tree valid, dialect by   *)
(* dialect; then, whatever adapter, surgeries and bootstrap text do to a   *)
(* request is of that kind.                                                *)
(***************************************************************************)
EXTENDS RequestCompiler_proofs

(***************************************************************************)
(* Nodes.                                                                  *)
(***************************************************************************)
(* A tree is a body of its dialect (ShapeAssumption). *)
Shaped(provider, tree) ==
  \A p \in DOMAIN tree :
    LET n == tree[p]
    IN  /\ Item(p) \in DOMAIN tree
        /\ p[1] > 1 => <<p[1] - 1, 0, 0>> \in DOMAIN tree
        /\ p = Item(p) => n.type \notin TextTypes \cup MediaTypes
        /\ p # Item(p) => n.type # "message" /\ n.role = "none"
        /\ p = Item(p) /\ provider # Responses => n.type = "message"
        /\ n.type \in TextTypes \cup MediaTypes => n.form = "none"
        /\ n.form = "string" =>
             n.type = "message" \/ (n.type = "result" /\ provider # Chat)
        /\ provider # Responses /\ n.type \in TextTypes => n.type = "text"

(* What adapter, surgeries and bootstrap text can make of a node: itself,  *)
(* another text in its place, a text made anew, no content for the empty   *)
(* string, or a text for an image or document.                             *)
Became(provider, before, after) ==
  /\ after.type \in TextTypes =>
       /\ after.role = "none" /\ after.form = "none"
       /\ provider # Responses => after.type = "text"
  /\ \/ after = before
     \/ IsText(before) /\ after = [before EXCEPT !.text = after.text]
     \/ provider = Responses /\ before.type \in TextTypes /\ after.type \in TextTypes
     \/ /\ provider = Responses
        /\ before.type = "message" /\ before.form = "string"
        /\ after = [before EXCEPT !.form = "array"]
     \/ /\ IsMedia(before) /\ after.type \in TextTypes
        /\ provider # Chat => after.cache = before.cache

(* What the two nodes have in common. *)
Kin(provider, before, after) ==
  /\ after.role = before.role
  /\ after.type \in TextTypes \cup MediaTypes <=> before.type \in TextTypes \cup MediaTypes
  /\ before.type \notin TextTypes \cup MediaTypes =>
       after.type = before.type /\ after.id = before.id /\ after.more = before.more
  /\ ~IsText(before) /\ ~IsMedia(before) => after = before
  /\ IsText(before) => IsText(after) \/ (after.type = "message" /\ after.form = "array")
  /\ IsMedia(before) => IsMedia(after) \/ IsText(after)

(* And outside the Responses dialect. *)
KinForm(provider, before, after) ==
  /\ provider # Responses => after.form = before.form
  /\ provider # Responses =>
       (after.type = "text" \/ IsMedia(after) <=> before.type = "text" \/ IsMedia(before))
  /\ provider = Anthropic => after.cache = before.cache
  /\ provider = Responses /\ before.type = "result" => after.form = before.form
  /\ before.type = "message" /\ before.form # "none" => after.form # "none"

LEMMA NodesAreKin ==
  ASSUME NEW provider \in Providers, NEW before \in Nodes, NEW after \in Nodes,
         before.type \in TextTypes \cup MediaTypes => before.role = "none" /\ before.form = "none",
         provider # Responses /\ before.type \in TextTypes => before.type = "text",
         Became(provider, before, after)
  PROVE  Kin(provider, before, after) /\ KinForm(provider, before, after)
<1> USE DEF IsText, IsMedia, TextTypes, MediaTypes, Anthropic, Chat, Responses
<1>1. CASE after = before
  BY <1>1 DEF Kin, KinForm
<1>2. CASE IsText(before) /\ after = [before EXCEPT !.text = after.text]
  <2>1. /\ after.type = before.type /\ after.role = before.role /\ after.id = before.id
        /\ after.form = before.form /\ after.more = before.more /\ after.cache = before.cache
    BY <1>2 DEF Nodes
  <2> QED
    BY <1>2, <2>1 DEF Kin, KinForm
<1>3. CASE provider = Responses /\ before.type \in TextTypes /\ after.type \in TextTypes
  BY <1>3 DEF Became, Kin, KinForm
<1>4. CASE /\ provider = Responses
           /\ before.type = "message" /\ before.form = "string"
           /\ after = [before EXCEPT !.form = "array"]
  <2>1. /\ after.type = before.type /\ after.role = before.role /\ after.id = before.id
        /\ after.form = "array" /\ after.more = before.more /\ after.cache = before.cache
    BY <1>4 DEF Nodes
  <2> QED
    BY <1>4, <2>1 DEF Kin, KinForm
<1>5. CASE /\ IsMedia(before) /\ after.type \in TextTypes
           /\ provider # Chat => after.cache = before.cache
  BY <1>5 DEF Became, Kin, KinForm
<1> QED
  BY <1>1, <1>2, <1>3, <1>4, <1>5 DEF Became


LEMMA RequestIsShaped ==
  ASSUME NEW r \in Requests
  PROVE  Shaped(Provider(r), r.tree)
BY ShapeAssumption, Zenon DEF Shaped

(***************************************************************************)
(* Trees.                                                                  *)
(***************************************************************************)
(* What adapter, surgeries and bootstrap text can make of a tree. *)
Derived(provider, before, after) ==
  /\ DOMAIN before \subseteq Places
  /\ \A p \in DOMAIN before : before[p] \in Nodes
  /\ after \in [DOMAIN before -> Nodes]
  /\ Shaped(provider, before)
  /\ \A p \in DOMAIN before : Became(provider, before[p], after[p])

LEMMA DerivedIsKin ==
  ASSUME NEW provider \in Providers, NEW before, NEW after,
         Derived(provider, before, after),
         NEW p \in DOMAIN before
  PROVE  /\ DOMAIN after = DOMAIN before
         /\ before[p] \in Nodes /\ after[p] \in Nodes /\ p \in Places
         /\ Kin(provider, before[p], after[p])
         /\ KinForm(provider, before[p], after[p])
<1>1. before[p] \in Nodes /\ after[p] \in Nodes /\ p \in Places /\ DOMAIN after = DOMAIN before
  BY DEF Derived
<1>2. /\ before[p].type \in TextTypes \cup MediaTypes =>
           before[p].role = "none" /\ before[p].form = "none"
      /\ provider # Responses /\ before[p].type \in TextTypes => before[p].type = "text"
  BY DEF Derived, Shaped
<1>3. Became(provider, before[p], after[p])
  BY DEF Derived
<1> QED
  BY <1>1, <1>2, <1>3, NodesAreKin

(* The two trees have the same items, parts, calls and answers. *)
SameFrame(before, after) ==
  /\ DOMAIN after = DOMAIN before
  /\ Items(after) = Items(before)
  /\ CallsOf(after) = CallsOf(before)
  /\ AnswersOf(after) = AnswersOf(before)
  /\ \A m : Parts(after, m) = Parts(before, m)
  /\ \A p \in DOMAIN before : RoleAt(after, p) = RoleAt(before, p)
  /\ \A p \in CallsOf(before) \cup AnswersOf(before) \cup Items(before) :
       after[p].id = before[p].id /\ after[p].type = before[p].type /\ after[p].more = before[p].more
  /\ \A p \in DOMAIN before : after[p].role = before[p].role
  /\ Paired(before) => Paired(after)

LEMMA FrameStays ==
  ASSUME NEW provider \in Providers, NEW before, NEW after,
         Derived(provider, before, after)
  PROVE  SameFrame(before, after)
<1>1. DOMAIN after = DOMAIN before
  BY DEF Derived
<1>2. \A p \in DOMAIN before : Kin(provider, before[p], after[p])
  BY DerivedIsKin
<1>3. \A p \in DOMAIN before : after[p].role = before[p].role
  BY <1>2 DEF Kin
<1>4. \A p \in DOMAIN before :
        /\ before[p].type \in TextTypes \cup MediaTypes =>
             after[p].type \in TextTypes \cup MediaTypes /\ before[p].role = "none"
        /\ before[p].type \notin TextTypes \cup MediaTypes =>
             after[p].id = before[p].id /\ after[p].type = before[p].type
             /\ after[p].more = before[p].more
  <2> TAKE p \in DOMAIN before
  <2>1. Kin(provider, before[p], after[p])
    BY <1>2
  <2>2. before[p].type \in TextTypes \cup MediaTypes => before[p].role = "none"
    BY DEF Derived, Shaped
  <2> QED
    BY <2>1, <2>2 DEF Kin
<1>5. Items(after) = Items(before)
  BY <1>1 DEF Items
<1>6. CallsOf(after) = CallsOf(before)
  <2>1. \A p \in DOMAIN before : after[p].type = "call" <=> before[p].type = "call"
    BY <1>4 DEF TextTypes, MediaTypes
  <2> QED
    BY <1>1, <2>1 DEF CallsOf
<1>7. AnswersOf(after) = AnswersOf(before)
  <2>1. \A p \in DOMAIN before : after[p].type = "result" <=> before[p].type = "result"
    BY <1>4 DEF TextTypes, MediaTypes
  <2> QED
    BY <1>1, <1>3, <2>1 DEF AnswersOf
<1>8. \A m : Parts(after, m) = Parts(before, m)
  BY <1>1 DEF Parts
<1>9. \A p \in DOMAIN before : RoleAt(after, p) = RoleAt(before, p)
  <2>1. \A p \in DOMAIN before : Item(p) \in DOMAIN before
    BY DEF Derived, Shaped
  <2> QED
    BY <1>3, <2>1 DEF RoleAt
<1>10. \A p \in CallsOf(before) \cup AnswersOf(before) \cup Items(before) :
         after[p].id = before[p].id /\ after[p].type = before[p].type /\ after[p].more = before[p].more
  <2> TAKE p \in CallsOf(before) \cup AnswersOf(before) \cup Items(before)
  <2>1. p \in DOMAIN before
    BY DEF CallsOf, AnswersOf, Items
  <2>2. before[p].type \notin TextTypes \cup MediaTypes
    <3>1. CASE p \in CallsOf(before)
      BY <3>1 DEF CallsOf, TextTypes, MediaTypes
    <3>2. CASE p \in AnswersOf(before)
      BY <1>4, <2>1, <3>2 DEF AnswersOf, TextTypes, MediaTypes
    <3>3. CASE p \in Items(before)
      BY <2>1, <3>3 DEF Items, Derived, Shaped
    <3> QED
      BY <3>1, <3>2, <3>3
  <2> QED
    BY <1>4, <2>1, <2>2
<1>11. ASSUME Paired(before) PROVE Paired(after)
  BY <1>6, <1>7, <1>10, <1>11 DEF Paired
<1> QED
  BY <1>1, <1>3, <1>5, <1>6, <1>7, <1>8, <1>9, <1>10, <1>11 DEF SameFrame

(***************************************************************************)
(* What came of a sound request is valid, dialect by dialect.              *)
(***************************************************************************)
(* The nodes of a part that is no text, image or document, nor a result    *)
(* with a string, are as received.                                         *)
LEMMA BlocksStay ==
  ASSUME NEW provider \in Providers, NEW before, NEW after,
         Derived(provider, before, after),
         NEW p \in DOMAIN before, ~IsText(before[p]), ~IsMedia(before[p])
  PROVE  after[p] = before[p]
BY DerivedIsKin DEF Kin

(* Text or media stay so, and so does another block. *)
LEMMA SlotsStay ==
  ASSUME NEW provider \in Providers, NEW before, NEW after,
         Derived(provider, before, after),
         NEW p \in DOMAIN before
  PROVE  /\ IsMedia(after[p]) \/ after[p].type \in TextTypes
              <=> IsMedia(before[p]) \/ before[p].type \in TextTypes
         /\ ~IsMedia(before[p]) /\ before[p].type \notin TextTypes =>
              after[p].type = before[p].type /\ after[p].id = before[p].id
              /\ after[p].more = before[p].more
         /\ provider # Responses =>
              (before[p].type \in TextTypes <=> before[p].type = "text") /\
              (after[p].type \in TextTypes <=> after[p].type = "text")
<1>1. Kin(provider, before[p], after[p])
  BY DerivedIsKin
<1>2. Became(provider, before[p], after[p]) /\ (provider # Responses => (before[p].type \in TextTypes => before[p].type = "text"))
  BY DEF Derived, Shaped
<1> QED
  BY <1>1, <1>2 DEF Kin, Became, IsMedia, TextTypes

LEMMA AnthropicStaysSound ==
  ASSUME NEW before, NEW after,
         Derived(Anthropic, before, after),
         AnthropicSound(before),
         \A p \in DOMAIN before :
           \/ after[p] = before[p]
           \/ after[p].text # Plain(Blank)
           \/ p[3] # 0
           \/ before[p].type = "result"
  PROVE  AnthropicSound(after)
<1> Anthropic \in Providers /\ Anthropic # Responses
  BY DEF Providers, Anthropic, Responses
<1>1. SameFrame(before, after)
  BY FrameStays
<1>2. DOMAIN after = DOMAIN before /\ Items(after) = Items(before)
  BY <1>1 DEF SameFrame
<1>3. \A p \in DOMAIN before : KinForm(Anthropic, before[p], after[p])
  BY DerivedIsKin
<1>4. \A p \in DOMAIN before : after[p].form = before[p].form
  BY <1>3 DEF KinForm
<1>5. \A p \in DOMAIN before :
        /\ before[p].type \notin {"text"} \cup MediaTypes <=> after[p].type \notin {"text"} \cup MediaTypes
        /\ before[p].type \notin {"text"} \cup MediaTypes => after[p].type = before[p].type
  BY SlotsStay DEF IsMedia
<1>6. ASSUME NEW m \in Items(before) PROVE Filled(after, m)
  <2>1. m \in DOMAIN before /\ m[3] = 0 /\ before[m].type # "result"
    <3>1. m \in DOMAIN before /\ m = <<m[1], 0, 0>>
      BY DEF Items, Item
    <3>2. before[m].type = "message"
      BY <3>1 DEF Derived, Shaped, Item
    <3> QED
      BY <3>1, <3>2
  <2>2. Filled(before, m)
    BY DEF AnthropicSound
  <2>3. CASE before[m].form = "string" /\ before[m].text # Plain(Blank)
    <3>1. after[m].text # Plain(Blank)
      BY <2>1, <2>3
    <3> QED
      BY <1>4, <2>1, <2>3, <3>1 DEF Filled
  <2>4. CASE before[m].form = "array" /\ Parts(before, m) # {}
    BY <1>1, <1>4, <2>1, <2>4 DEF Filled, SameFrame
  <2> QED
    BY <2>2, <2>3, <2>4 DEF Filled
<1>7. ASSUME NEW m \in Items(before), EndsInServerTool(before, m) PROVE EndsInServerTool(after, m)
  <2>1. m \in DOMAIN before /\ after[m].role = before[m].role
    BY <1>1 DEF Items, SameFrame
  <2>2. PICK p \in Parts(before, m) :
          before[p].type = "server-tool" /\ \A q \in Parts(before, m) : q[2] <= p[2]
    BY <1>7 DEF EndsInServerTool
  <2>3. p \in DOMAIN before
    BY DEF Parts
  <2>4. after[p].type = "server-tool"
    BY <1>5, <2>2, <2>3 DEF MediaTypes
  <2>5. Parts(after, m) = Parts(before, m)
    BY <1>1 DEF SameFrame
  <2> QED
    BY <1>7, <2>1, <2>2, <2>4, <2>5 DEF EndsInServerTool
<1>8. ASSUME NEW m \in Items(before), SystemPlaced(before, m) PROVE SystemPlaced(after, m)
  <2> DEFINE prior == <<m[1] - 1, 0, 0>>
  <2> DEFINE next == <<m[1] + 1, 0, 0>>
  <2>1. m \in DOMAIN before /\ m[1] > 1
    BY <1>8 DEF Items, SystemPlaced
  <2>2. prior \in DOMAIN before
    BY <2>1 DEF Derived, Shaped
  <2>3. prior \in Items(before)
    BY <2>2 DEF Items, Item
  <2>4. before[prior].role = "user" \/ EndsInServerTool(before, prior)
    BY <1>8 DEF SystemPlaced
  <2>5. after[prior].role = "user" \/ EndsInServerTool(after, prior)
    BY <1>1, <1>7, <2>2, <2>3, <2>4 DEF SameFrame
  <2>6. next \in DOMAIN before => after[next].role = "assistant"
    BY <1>1, <1>8 DEF SystemPlaced, SameFrame
  <2> QED
    BY <1>2, <2>1, <2>5, <2>6 DEF SystemPlaced
<1>9. ASSUME NEW m \in Items(before)
      PROVE  /\ after[m].role \in {"user", "assistant", "system"}
             /\ Filled(after, m)
             /\ after[m].role = "system" => SystemPlaced(after, m)
  <2>1. m \in DOMAIN before /\ after[m].role = before[m].role
    BY <1>1 DEF Items, SameFrame
  <2> QED
    BY <1>6, <1>8, <2>1 DEF AnthropicSound
<1>10. ASSUME NEW p \in DOMAIN before
       PROVE  /\ after[p].type = "thinking" /\ IsPart(p) =>
                   /\ RoleAt(after, p) = "assistant"
                   /\ \A q \in Parts(after, Item(p)) :
                        q[2] < p[2] => after[q].type = "thinking"
              /\ after[p].type = "call" => RoleAt(after, p) = "assistant"
              /\ after[p].type = "result" => RoleAt(after, p) = "user" /\ after[p].form # "none"
              /\ after[p].type = "text" /\ IsPart(p) => after[p].text # Plain(Blank)
  <2>1. RoleAt(after, p) = RoleAt(before, p) /\ Parts(after, Item(p)) = Parts(before, Item(p))
    BY <1>1 DEF SameFrame
  <2>2. ASSUME after[p].type = "thinking", IsPart(p)
        PROVE  /\ RoleAt(after, p) = "assistant"
               /\ \A q \in Parts(after, Item(p)) : q[2] < p[2] => after[q].type = "thinking"
    <3>1. before[p].type = "thinking"
      BY <1>5, <2>2 DEF MediaTypes
    <3>2. /\ RoleAt(before, p) = "assistant"
          /\ \A q \in Parts(before, Item(p)) : q[2] < p[2] => before[q].type = "thinking"
      BY <2>2, <3>1 DEF AnthropicSound
    <3>3. \A q \in Parts(before, Item(p)) : q \in DOMAIN before
      BY DEF Parts
    <3>4. \A q \in DOMAIN before : before[q].type = "thinking" => after[q].type = "thinking"
      BY <1>5 DEF MediaTypes
    <3> QED
      BY <2>1, <3>2, <3>3, <3>4
  <2>3. ASSUME after[p].type = "call" PROVE RoleAt(after, p) = "assistant"
    <3>1. before[p].type = "call"
      BY <1>5, <2>3 DEF MediaTypes
    <3> QED
      BY <2>1, <3>1 DEF AnthropicSound
  <2>4. ASSUME after[p].type = "result" PROVE RoleAt(after, p) = "user" /\ after[p].form # "none"
    <3>1. before[p].type = "result"
      BY <1>5, <2>4 DEF MediaTypes
    <3> QED
      BY <1>4, <2>1, <3>1 DEF AnthropicSound
  <2>5. ASSUME after[p].type = "text", IsPart(p) PROVE after[p].text # Plain(Blank)
    <3>1. before[p].type # "result"
      BY <1>5, <2>5 DEF MediaTypes
    <3>2. p[3] = 0
      BY <2>5 DEF IsPart
    <3>3. CASE after[p] = before[p]
      BY <2>5, <3>3 DEF AnthropicSound
    <3> QED
      BY <3>1, <3>2, <3>3
  <2> QED
    BY <2>2, <2>3, <2>4, <2>5
<1>11. Paired(after)
  BY <1>1 DEF SameFrame, AnthropicSound
<1> QED
  BY <1>2, <1>9, <1>10, <1>11 DEF AnthropicSound

LEMMA AnthropicStaysInOrder ==
  ASSUME NEW before, NEW after,
         Derived(Anthropic, before, after)
  PROVE  AnthropicOrder(after) = AnthropicOrder(before)
<1> Anthropic \in Providers /\ Anthropic # Responses
  BY DEF Providers, Anthropic, Responses
<1> DEFINE Roled(tree) == {<<m, tree[m].role>> : m \in Items(tree)}
<1> DEFINE Slots(tree) ==
  {p \in DOMAIN tree : IsPart(p) /\ (tree[p].type = "text" \/ IsMedia(tree[p]))}
<1> DEFINE Strings(tree) == {m \in Items(tree) : tree[m].form = "string"}
<1> DEFINE Others(tree) ==
  {p \in DOMAIN tree : IsPart(p) /\ tree[p].type # "text" /\ ~IsMedia(tree[p])}
<1> DEFINE Named(tree) == {<<p, tree[p].type, tree[p].id>> : p \in Others(tree)}
<1>1. SameFrame(before, after)
  BY FrameStays
<1>2. DOMAIN after = DOMAIN before /\ Items(after) = Items(before)
  BY <1>1 DEF SameFrame
<1>3. \A p \in DOMAIN before : KinForm(Anthropic, before[p], after[p])
  BY DerivedIsKin
<1>4. \A p \in DOMAIN before :
        /\ after[p].type = "text" \/ IsMedia(after[p]) <=> before[p].type = "text" \/ IsMedia(before[p])
        /\ before[p].type # "text" /\ ~IsMedia(before[p]) =>
             after[p].type = before[p].type /\ after[p].id = before[p].id
  BY SlotsStay
<1>5. Roled(after) = Roled(before)
  <2>1. \A m \in Items(before) : after[m].role = before[m].role
    BY <1>1 DEF Items, SameFrame
  <2> QED
    BY <1>2, <2>1
<1>6. Slots(after) = Slots(before)
  BY <1>2, <1>4
<1>7. Strings(after) = Strings(before)
  <2>1. \A m \in Items(before) : after[m].form = before[m].form
    BY <1>3 DEF Items, KinForm
  <2> QED
    BY <1>2, <2>1
<1>8. Named(after) = Named(before)
  <2>1. Others(after) = Others(before)
    BY <1>2, <1>4
  <2>2. \A p \in Others(before) : after[p].type = before[p].type /\ after[p].id = before[p].id
    BY <1>4
  <2> QED
    BY <2>1, <2>2
<1>9. \A tree : AnthropicOrder(tree) =
        Roled(tree) \cup {<<p, "mutable-payload", 0>> : p \in Slots(tree)}
        \cup {<<<<m[1], 1, 0>>, "mutable-payload", 0>> : m \in Strings(tree)} \cup Named(tree)
  BY DEF AnthropicOrder
<1> HIDE DEF Roled, Slots, Strings, Named
<1> QED
  BY <1>5, <1>6, <1>7, <1>8, <1>9

LEMMA AnthropicKeepsProtected ==
  ASSUME NEW before, NEW after,
         Derived(Anthropic, before, after),
         \A p \in DOMAIN before : RoleAt(before, p) = "system" => after[p] = before[p]
  PROVE  AnthropicProtected(after) = AnthropicProtected(before)
<1> Anthropic \in Providers /\ Anthropic # Responses
  BY DEF Providers, Anthropic, Responses
<1> DEFINE Wrappings(tree) == {<<m, Envelope(tree[m])>> : m \in Items(tree)}
<1> DEFINE Results(tree) == {p \in DOMAIN tree : IsPart(p) /\ tree[p].type = "result"}
<1> DEFINE Answers(tree) == {<<p, Envelope(tree[p])>> : p \in Results(tree)}
<1> DEFINE Cached(tree) ==
  {p \in DOMAIN tree : IsPart(p) /\ tree[p].cache /\ (tree[p].type = "text" \/ IsMedia(tree[p]))}
<1> DEFINE Fixed(tree) ==
  {p \in DOMAIN tree : \/ RoleAt(tree, p) = "system"
                       \/ IsPart(p) /\ tree[p].type \notin {"text", "result"} \cup MediaTypes}
<1> DEFINE Hashes(tree) == {<<p, Hashed(tree[p])>> : p \in Fixed(tree)}
<1>1. SameFrame(before, after)
  BY FrameStays
<1>2. DOMAIN after = DOMAIN before /\ Items(after) = Items(before)
  BY <1>1 DEF SameFrame
<1>3. \A p \in DOMAIN before : after[p].cache = before[p].cache /\ after[p].role = before[p].role
  BY <1>1, DerivedIsKin DEF KinForm, SameFrame
<1>4. \A p \in DOMAIN before :
        /\ after[p].type = "text" \/ IsMedia(after[p]) <=> before[p].type = "text" \/ IsMedia(before[p])
        /\ before[p].type # "text" /\ ~IsMedia(before[p]) =>
             after[p].type = before[p].type /\ after[p].id = before[p].id
             /\ after[p].more = before[p].more
  BY SlotsStay
<1>5. Wrappings(after) = Wrappings(before)
  <2>1. \A m \in Items(before) : Envelope(after[m]) = Envelope(before[m])
    BY <1>1 DEF Items, SameFrame, Envelope
  <2> QED
    BY <1>2, <2>1
<1>6. Answers(after) = Answers(before)
  <2>1. Results(after) = Results(before)
    BY <1>2, <1>4 DEF IsMedia, MediaTypes
  <2>2. \A p \in Results(before) : Envelope(after[p]) = Envelope(before[p])
    BY <1>3, <1>4 DEF IsMedia, MediaTypes, Envelope
  <2> QED
    BY <2>1, <2>2
<1>7. Cached(after) = Cached(before)
  BY <1>2, <1>3, <1>4
<1>8. Hashes(after) = Hashes(before)
  <2>1. \A p \in DOMAIN before : RoleAt(after, p) = RoleAt(before, p)
    BY <1>1 DEF SameFrame
  <2>2. Fixed(after) = Fixed(before)
    BY <1>2, <1>4, <2>1 DEF IsMedia
  <2>3. ASSUME NEW p \in Fixed(before) PROVE after[p] = before[p]
    <3>1. CASE RoleAt(before, p) = "system"
      BY <3>1
    <3>2. CASE IsPart(p) /\ before[p].type \notin {"text", "result"} \cup MediaTypes
      <4>1. p # Item(p)
        <5>1. p \in Places
          BY DEF Derived
        <5> QED
          BY <3>2, <5>1 DEF IsPart, Item, Places
      <4>2. ~IsMedia(before[p]) /\ before[p].type \notin TextTypes
        BY <3>2, SlotsStay DEF IsMedia
      <4>3. before[p].form # "string"
        BY <3>2, <4>1 DEF Derived, Shaped
      <4> QED
        BY <4>2, <4>3, BlocksStay DEF IsText
    <3> QED
      BY <3>1, <3>2
  <2> QED
    BY <2>2, <2>3
<1>9. \A tree : AnthropicProtected(tree) =
        Wrappings(tree) \cup Answers(tree)
        \cup {<<p, [cache |-> TRUE]>> : p \in Cached(tree)} \cup Hashes(tree)
  BY DEF AnthropicProtected
<1> HIDE DEF Wrappings, Answers, Cached, Hashes
<1> QED
  BY <1>5, <1>6, <1>7, <1>8, <1>9

LEMMA ChatStaysValid ==
  ASSUME NEW before, NEW after,
         Derived(Chat, before, after),
         ChatSound(before)
  PROVE  Valid(Chat, before, after)
<1> Chat \in Providers /\ Chat # Responses /\ Chat # Anthropic /\ Responses # Chat
  BY DEF Providers, Chat, Responses, Anthropic
<1>1. SameFrame(before, after)
  BY FrameStays
<1>2. /\ DOMAIN after = DOMAIN before /\ Items(after) = Items(before)
      /\ CallsOf(after) = CallsOf(before)
      /\ \A p \in Items(before) \cup CallsOf(before) :
           p \in DOMAIN before /\ after[p].role = before[p].role /\ after[p].id = before[p].id
  BY <1>1 DEF SameFrame, Items, CallsOf
<1>3. ChatSound(after)
  <2>1. \A c \in CallsOf(before) : RoleAt(after, c) = RoleAt(before, c)
    BY <1>1 DEF SameFrame, CallsOf
  <2>2. Paired(after)
    BY <1>1 DEF SameFrame, ChatSound
  <2> QED
    BY <1>2, <2>1, <2>2 DEF ChatSound
<1>4. ChatOrder(after) = ChatOrder(before)
  BY <1>2 DEF ChatOrder
<1>5. ChatProtected(after) = ChatProtected(before)
  <2> DEFINE Wrappings(tree) == {<<m, Envelope(tree[m])>> : m \in Items(tree)}
  <2> DEFINE Fixed(tree) ==
    CallsOf(tree) \cup {p \in DOMAIN tree : IsPart(p) /\ tree[p].type \notin {"text"} \cup MediaTypes}
  <2> DEFINE Hashes(tree) == {<<p, Hashed(tree[p])>> : p \in Fixed(tree)}
  <2>1. Wrappings(after) = Wrappings(before)
    <3>1. \A m \in Items(before) : Envelope(after[m]) = Envelope(before[m])
      BY <1>1, <1>2 DEF SameFrame, Envelope
    <3> QED
      BY <1>2, <3>1
  <2>2. Fixed(after) = Fixed(before)
    <3>1. \A p \in DOMAIN before :
            after[p].type \notin {"text"} \cup MediaTypes <=> before[p].type \notin {"text"} \cup MediaTypes
      BY SlotsStay DEF IsMedia
    <3> QED
      BY <1>2, <3>1
  <2>3. ASSUME NEW p \in Fixed(before) PROVE after[p] = before[p]
    <3>1. p \in DOMAIN before /\ before[p].type \notin {"text"} \cup MediaTypes
      BY DEF CallsOf, MediaTypes
    <3>2. before[p].type # "message"
      <4>1. CASE p \in CallsOf(before)
        BY <4>1 DEF CallsOf
      <4>2. CASE IsPart(p)
        <5>1. p \in Places
          BY <3>1 DEF Derived
        <5>2. p # Item(p)
          BY <4>2, <5>1 DEF IsPart, Item, Places
        <5> QED
          BY <3>1, <5>2 DEF Derived, Shaped
      <4> QED
        BY <4>1, <4>2
    <3>3. ~IsMedia(before[p]) /\ before[p].type \notin TextTypes
      BY <3>1, SlotsStay DEF IsMedia
    <3>4. before[p].form # "string"
      BY <3>1, <3>2 DEF Derived, Shaped
    <3> QED
      BY <3>1, <3>3, <3>4, BlocksStay DEF IsText
  <2>4. Hashes(after) = Hashes(before)
    BY <2>2, <2>3
  <2>5. \A tree : ChatProtected(tree) = Wrappings(tree) \cup Hashes(tree)
    BY DEF ChatProtected
  <2> HIDE DEF Wrappings, Hashes
  <2> QED
    BY <2>1, <2>4, <2>5
<1>6. /\ Sound(Chat, after) = ChatSound(after)
      /\ \A tree : Order(Chat, tree) = ChatOrder(tree) /\ Protected(Chat, tree) = ChatProtected(tree)
  BY DEF Sound, Order, Protected
<1> QED
  BY <1>2, <1>3, <1>4, <1>5, <1>6 DEF Valid

LEMMA ResponsesStayValid ==
  ASSUME NEW before, NEW after,
         Derived(Responses, before, after),
         ResponsesSound(before)
  PROVE  Valid(Responses, before, after)
<1> Responses \in Providers /\ Chat # Responses /\ Responses # Anthropic
  BY DEF Providers, Chat, Responses, Anthropic
<1>1. SameFrame(before, after)
  BY FrameStays
<1>2. /\ DOMAIN after = DOMAIN before /\ Items(after) = Items(before)
      /\ \A m \in Items(before) :
           /\ m \in DOMAIN before
           /\ after[m].role = before[m].role /\ after[m].id = before[m].id
           /\ after[m].type = before[m].type /\ after[m].more = before[m].more
  BY <1>1 DEF SameFrame, Items
<1>3. \A p \in DOMAIN before : KinForm(Responses, before[p], after[p])
  BY DerivedIsKin
<1>4. ResponsesSound(after)
  <2>1. Paired(after)
    BY <1>1 DEF SameFrame, ResponsesSound
  <2>2. ASSUME NEW m \in Items(before)
        PROVE  /\ before[m].type = "message" /\ before[m].form # "none" => after[m].form # "none"
               /\ before[m].type = "result" => after[m].form = before[m].form
    BY <1>2, <1>3 DEF KinForm
  <2> QED
    BY <1>2, <2>1, <2>2 DEF ResponsesSound
<1>5. ResponsesOrder(after) = ResponsesOrder(before)
  BY <1>2 DEF ResponsesOrder
<1>6. ResponsesProtected(after) = ResponsesProtected(before)
  <2> DEFINE Messages(tree) == {m \in Items(tree) : tree[m].type = "message"}
  <2> DEFINE Roled(tree) == {<<m, [role |-> tree[m].role]>> : m \in Messages(tree)}
  <2> DEFINE Results(tree) == {m \in Items(tree) : tree[m].type = "result"}
  <2> DEFINE Wrappings(tree) == {<<m, Envelope(tree[m])>> : m \in Results(tree)}
  <2> DEFINE Fixed(tree) ==
    {p \in DOMAIN tree : ~IsText(tree[p]) /\ ~IsMedia(tree[p]) /\ ~IsContainer(tree[p])}
  <2> DEFINE Hashes(tree) == {<<p, Hashed(tree[p])>> : p \in Fixed(tree)}
  <2>1. Roled(after) = Roled(before)
    BY <1>2
  <2>2. Wrappings(after) = Wrappings(before)
    <3>1. Results(after) = Results(before)
      BY <1>2
    <3>2. \A m \in Results(before) : Envelope(after[m]) = Envelope(before[m])
      BY <1>2 DEF Envelope
    <3> QED
      BY <3>1, <3>2
  <2>3. \A p \in Fixed(before) : after[p] = before[p]
    BY BlocksStay
  <2>4. Fixed(after) = Fixed(before)
    <3>1. ASSUME NEW p \in Fixed(before) PROVE p \in Fixed(after)
      BY <1>2, <2>3
    <3>2. ASSUME NEW p \in Fixed(after) PROVE p \in Fixed(before)
      <4>1. p \in DOMAIN before /\ ~IsText(after[p]) /\ ~IsMedia(after[p]) /\ ~IsContainer(after[p])
        BY <1>2
      <4>2. Kin(Responses, before[p], after[p])
        BY <4>1, DerivedIsKin
      <4>3. ~IsText(before[p]) /\ ~IsMedia(before[p])
        BY <4>1, <4>2 DEF Kin, IsContainer
      <4>4. after[p] = before[p]
        BY <4>1, <4>3, BlocksStay
      <4> QED
        BY <4>1, <4>4
    <3> QED
      BY <3>1, <3>2
  <2>5. Hashes(after) = Hashes(before)
    BY <2>3, <2>4
  <2>6. \A tree : ResponsesProtected(tree) = Roled(tree) \cup Wrappings(tree) \cup Hashes(tree)
    BY DEF ResponsesProtected
  <2> HIDE DEF Roled, Wrappings, Hashes
  <2> QED
    BY <2>1, <2>2, <2>5, <2>6
<1>7. /\ Sound(Responses, after) = ResponsesSound(after)
      /\ \A tree : Order(Responses, tree) = ResponsesOrder(tree)
                   /\ Protected(Responses, tree) = ResponsesProtected(tree)
  BY DEF Sound, Order, Protected
<1> QED
  BY <1>2, <1>4, <1>5, <1>6, <1>7 DEF Valid

LEMMA DerivedIsValid ==
  ASSUME NEW provider \in Providers, NEW before, NEW after,
         Derived(provider, before, after),
         Sound(provider, before),
         provider = Anthropic =>
           \A p \in DOMAIN before :
             \/ after[p] = before[p]
             \/ /\ RoleAt(before, p) # "system"
                /\ after[p].text # Plain(Blank) \/ p[3] # 0 \/ before[p].type = "result"
  PROVE  Valid(provider, before, after)
<1>1. CASE provider = Anthropic
  <2>1. AnthropicSound(before)
    BY <1>1 DEF Sound, Anthropic, Chat, Responses
  <2>2. AnthropicSound(after)
    BY <1>1, <2>1, AnthropicStaysSound
  <2>3. AnthropicOrder(after) = AnthropicOrder(before)
    BY <1>1, AnthropicStaysInOrder
  <2>4. AnthropicProtected(after) = AnthropicProtected(before)
    BY <1>1, AnthropicKeepsProtected
  <2>5. Items(after) = Items(before)
    BY FrameStays DEF SameFrame
  <2>6. /\ Sound(provider, after) = AnthropicSound(after)
        /\ \A tree : Order(provider, tree) = AnthropicOrder(tree)
                     /\ Protected(provider, tree) = AnthropicProtected(tree)
    BY <1>1 DEF Sound, Order, Protected, Anthropic, Chat, Responses
  <2> QED
    BY <2>2, <2>3, <2>4, <2>5, <2>6 DEF Valid
<1>2. CASE provider = Chat
  <2>1. ChatSound(before)
    BY <1>2 DEF Sound, Chat, Anthropic, Responses
  <2> QED
    BY <1>2, <2>1, ChatStaysValid
<1>3. CASE provider = Responses
  <2>1. ResponsesSound(before)
    BY <1>3 DEF Sound, Chat, Anthropic, Responses
  <2> QED
    BY <1>3, <2>1, ResponsesStayValid
<1> QED
  BY <1>1, <1>2, <1>3 DEF Providers

(***************************************************************************)
(* What becomes of the nodes of a request.                                 *)
(***************************************************************************)
(* The adapter. *)
LEMMA RewrittenBecame ==
  ASSUME NEW r \in Requests, NEW p \in DOMAIN r.tree
  PROVE  /\ AsParsed(Provider(r), r.tree[p], Rewritten(Provider(r), r.tree)[p])
         /\ Became(Provider(r), r.tree[p], Rewritten(Provider(r), r.tree)[p])
<1> DEFINE provider == Provider(r)
<1> DEFINE before == r.tree[p]
<1> DEFINE after == Rewritten(provider, r.tree)[p]
<1>1. provider \in Providers /\ before \in Nodes
  BY ProviderOfRequest, RequestAssumption
<1>2. AsParsed(provider, before, after)
  BY <1>1, RewrittenAsParsed
<1>3. /\ before.type \in TextTypes => before.role = "none" /\ before.form = "none"
      /\ provider # Responses /\ before.type \in TextTypes => before.type = "text"
  BY RequestIsShaped DEF Shaped
<1>4. ASSUME after.type \in TextTypes
      PROVE  /\ after.role = "none" /\ after.form = "none"
             /\ provider # Responses => after.type = "text"
  <2>1. CASE after = before
    BY <1>3, <1>4, <2>1
  <2>2. CASE provider = Responses /\ after # before
    <3>1. after = ResponsesRewritten(r.tree)[p]
      BY <2>2 DEF Rewritten, Anthropic, Chat, Responses
    <3>2. after =
            IF RoleAt(r.tree, p) \notin {"user", "assistant"} THEN before
            ELSE IF before.type \in TextTypes
            THEN TextBlock(IF RoleAt(r.tree, p) = "user" THEN "input_text" ELSE "output_text",
                           before.text, FALSE)
            ELSE IF before.type = "message" /\ before.form = "string" /\ before.text = Plain(Blank)
            THEN [before EXCEPT !.form = "array"]
            ELSE before
      BY <3>1 DEF ResponsesRewritten
    <3> HIDE DEF after, before
    <3>3. CASE \E type, text : after = TextBlock(type, text, FALSE)
      BY <2>2, <3>3 DEF TextBlock
    <3>4. CASE before.type = "message" /\ after = [before EXCEPT !.form = "array"]
      <4>1. after.type = "message"
        BY <1>1, <3>4 DEF Nodes
      <4> QED
        BY <1>4, <4>1 DEF TextTypes
    <3> QED
      BY <2>2, <3>2, <3>3, <3>4
  <2>3. CASE provider # Responses /\ after # before
    BY <1>2, <2>3 DEF AsParsed
  <2> QED
    BY <2>1, <2>2, <2>3
<1> HIDE DEF after, before
<1> QED
  BY <1>2, <1>4 DEF AsParsed, Became, after, before

(* A surgery. *)
LEMMA EditedBecame ==
  ASSUME request \in Requests,
         NEW p \in DOMAIN request.tree, NEW word \in Words,
         Mutable(Provider(request), request.tree, p),
         candidate.tree[p] \in Nodes,
         AsParsed(Provider(request), request.tree[p], candidate.tree[p]),
         Became(Provider(request), request.tree[p], candidate.tree[p])
  PROVE  Became(Provider(request), request.tree[p],
                Edited(Provider(request), candidate.tree, p, Plain(word)))
<1> DEFINE provider == Provider(request)
<1> DEFINE before == request.tree[p]
<1> DEFINE parsed == candidate.tree[p]
<1> DEFINE edited == Edited(provider, candidate.tree, p, Plain(word))
<1>1. provider \in Providers /\ before \in Nodes /\ parsed \in Nodes
  BY ProviderOfRequest, RequestAssumption
<1>2. Carried(before, edited, word)
  BY EditedCarries
<1>3. ASSUME edited.type \in TextTypes
      PROVE  /\ edited.role = "none" /\ edited.form = "none"
             /\ provider # Responses => edited.type = "text"
  <2>1. CASE IsMedia(parsed)
    <3>1. edited = MarkerBlock(provider, candidate.tree, p, Plain(word))
      BY <2>1 DEF Edited
    <3>2. \E type, cache : /\ edited = TextBlock(type, Plain(word), cache)
                           /\ provider # Responses => type = "text"
      BY <1>1, <3>1 DEF MarkerBlock, Providers, Anthropic, Chat, Responses
    <3> HIDE DEF edited
    <3> QED
      BY <3>2 DEF TextBlock
  <2>2. CASE ~IsMedia(parsed)
    <3> DEFINE form == IF parsed.type \in TextTypes THEN parsed.form ELSE "string"
    <3>1. edited = [parsed EXCEPT !.text = Plain(word), !.form = form]
      BY <2>2 DEF Edited
    <3> HIDE DEF edited, form
    <3>2. edited.type = parsed.type /\ edited.role = parsed.role /\ edited.form = form
      BY <1>1, <3>1 DEF Nodes
    <3> QED
      BY <1>3, <3>2 DEF Became, form
  <2> QED
    BY <2>1, <2>2
<1> HIDE DEF edited
<1> SUFFICES Became(provider, before, edited)
  BY DEF edited
<1>4. CASE IsMedia(before)
  BY <1>2, <1>3, <1>4 DEF Carried, Became
<1>5. CASE ~IsMedia(before)
  <2>1. IsText(before) /\ Like(before, edited, edited.text)
    BY <1>2, <1>5 DEF Carried
  <2> QED
    BY <1>3, <2>1 DEF Like, Became
<1> QED
  BY <1>4, <1>5

(* The bootstrap text. *)
LEMMA PrefixedBecame ==
  ASSUME NEW provider, NEW before \in Nodes, NEW n \in Nodes,
         Became(provider, before, n), IsText(n)
  PROVE  Became(provider, before, Prefixed(n))
<1> DEFINE text == [n.text EXCEPT !.prefixes = @ + 1]
<1> DEFINE after == Prefixed(n)
<1>1. /\ after = [n EXCEPT !.text = text]
      /\ after.type = n.type /\ after.form = n.form /\ after.cache = n.cache /\ after.text = text
  BY NodePrefixed
<1> HIDE DEF text, after
<1> SUFFICES Became(provider, before, after)
  BY DEF after
<1>2. after.role = n.role
  BY <1>1 DEF Nodes
<1>3. CASE n = before
  BY <1>1, <1>2, <1>3 DEF Became
<1>4. CASE IsText(before) /\ n = [before EXCEPT !.text = n.text]
  <2>1. after = [before EXCEPT !.text = text]
    BY <1>1, <1>4 DEF Nodes
  <2> QED
    BY <1>1, <1>2, <1>4, <2>1 DEF Became
<1>5. CASE provider = Responses /\ before.type \in TextTypes /\ n.type \in TextTypes
  BY <1>1, <1>2, <1>5 DEF Became
<1>6. CASE /\ before.type = "message" /\ n = [before EXCEPT !.form = "array"]
  <2>1. n.type = "message" /\ n.form = "array"
    BY <1>6 DEF Nodes
  <2> QED
    BY <2>1 DEF IsText, TextTypes
<1>7. CASE /\ IsMedia(before) /\ n.type \in TextTypes
           /\ provider # Chat => n.cache = before.cache
  BY <1>1, <1>2, <1>7 DEF Became
<1> QED
  BY <1>3, <1>4, <1>5, <1>6, <1>7 DEF Became

(***************************************************************************)
(* The invariant.                                                          *)
(***************************************************************************)
(* What is known of a place while a request is compiled. *)
Worked(p) ==
  LET provider == Provider(request)
      before == request.tree[p]
      after == candidate.tree[p]
  IN  /\ Became(provider, before, after)
      /\ p \notin DOMAIN applied => AsParsed(provider, before, after)
      /\ p \in DOMAIN applied =>
           /\ IsText(after)
           /\ applied[p] = ValueAt(before, after)
           /\ provider = Anthropic => RoleAt(request.tree, p) # "system"
           /\ provider = Chat => RoleAt(request.tree, p) \in ChatRoles \/ Misplaced
           /\ after.text = Plain(Blank) =>
                \E i \in DOMAIN orders :
                  orders[i].at = p /\ orders[i].action.text = Blank

(* No two active surgeries are on one occurrence, and each knows the value *)
(* the user saw there.                                                     *)
OrdersTold ==
  /\ \A i, j \in DOMAIN orders : orders[i].identity = orders[j].identity => i = j
  /\ \A i \in DOMAIN orders :
       /\ orders[i].at \in Places
       /\ orders[i].source = Value(orders[i].seen[orders[i].at])

(* A surgery is stale only when the user saw something else, and none      *)
(* meets another one at its place.                                         *)
Judged ==
  \A i \in DOMAIN results :
    /\ results[i].outcome # "rejected"
    /\ results[i].outcome = "stale" => i \in DOMAIN orders /\ ~AsSeen(orders[i])

Compiling ==
  phase \in {"editing", "checking"} =>
    Judged /\ \A p \in DOMAIN request.tree : Worked(p)

(* The anchor is in the request, with the bootstrap text or without it.    *)
AnchorFound ==
  phase = "editing" /\ placement.status = "anchored" => Found(placement.anchor, request)

RInv == OrdersTold /\ Compiling /\ AnchorFound /\ RefusedForCause

LEMMA InitExplains == Init => RInv
<1> SUFFICES ASSUME Init PROVE RInv
  OBVIOUS
<1>1. orders = <<>> /\ phase = "resting"
  BY DEF Init
<1> QED
  BY <1>1 DEF RInv, OrdersTold, Compiling, AnchorFound, RefusedForCause

(***************************************************************************)
(* Between requests.                                                       *)
(***************************************************************************)
LEMMA RestingExplains ==
  ASSUME OrdersTold', phase' \notin {"editing", "checking", "refused"}
  PROVE  RInv'
BY DEF RInv, Compiling, AnchorFound, RefusedForCause

LEMMA OrderExplains ==
  ASSUME IInv, RInv, NEW p, NEW action, OrderSurgery(p, action)
  PROVE  RInv'
<1> DEFINE order == [at |-> p, identity |-> Identity(Provider(catalog), catalog.tree, p),
                     source |-> Value(catalog.tree[p]),
                     action |-> action, seen |-> catalog.tree]
<1>1. orders' = Append(orders, order)
  BY DEF OrderSurgery
<1>2. catalog # None /\ catalog \in Requests /\ IsSequence(orders)
  BY DEF IInv, OrdersKnown, OrderSurgery
<1>3. p \in Places
  <2>1. p \in Occurrences(Provider(catalog), catalog.tree)
    BY DEF OrderSurgery
  <2>2. p \in DOMAIN catalog.tree
    BY <1>2, <2>1, ProviderOfRequest, OccurrencesAreThere
  <2> QED
    BY <1>2, <2>2, RequestAssumption
<1>4. \A i \in DOMAIN orders : orders[i].identity # order.identity
  BY DEF OrderSurgery
<1>5. order.at \in Places /\ order.source = Value(order.seen[order.at])
  BY <1>3
<1> HIDE DEF order
<1>6. /\ Len(orders) \in Nat /\ DOMAIN orders = 1 .. Len(orders)
      /\ DOMAIN orders' = 1 .. Len(orders) + 1
      /\ \A i \in 1 .. Len(orders) : orders'[i] = orders[i]
      /\ orders'[Len(orders) + 1] = order
  BY <1>1, <1>2, Appended
<1>7. OrdersTold
  BY DEF RInv
<1>8. ASSUME NEW i \in DOMAIN orders', NEW j \in DOMAIN orders',
             orders'[i].identity = orders'[j].identity
      PROVE  i = j
  <2>1. CASE i \in DOMAIN orders /\ j \in DOMAIN orders
    BY <1>6, <1>7, <1>8, <2>1 DEF OrdersTold
  <2>2. CASE i \notin DOMAIN orders /\ j \notin DOMAIN orders
    BY <1>6, <2>2
  <2>3. CASE i \in DOMAIN orders /\ j \notin DOMAIN orders
    <3>1. j = Len(orders) + 1
      BY <1>6, <2>3
    <3> QED
      BY <1>4, <1>6, <1>8, <2>3, <3>1
  <2>4. CASE i \notin DOMAIN orders /\ j \in DOMAIN orders
    <3>1. i = Len(orders) + 1
      BY <1>6, <2>4
    <3> QED
      BY <1>4, <1>6, <1>8, <2>4, <3>1
  <2> QED
    BY <2>1, <2>2, <2>3, <2>4
<1>9. ASSUME NEW i \in DOMAIN orders'
      PROVE  /\ orders'[i].at \in Places
             /\ orders'[i].source = Value(orders'[i].seen[orders'[i].at])
  <2>1. CASE i \in DOMAIN orders
    BY <1>6, <1>7, <2>1 DEF OrdersTold
  <2>2. CASE i = Len(orders) + 1
    BY <1>5, <1>6, <2>2
  <2> QED
    BY <1>6, <2>1, <2>2
<1>10. OrdersTold'
  BY <1>8, <1>9 DEF OrdersTold
<1>11. phase' = "resting"
  BY DEF OrderSurgery, Forget
<1> QED
  BY <1>10, <1>11, RestingExplains

(* What is left keeps its order when something is removed. *)
LEMMA RemovedInOrder ==
  ASSUME NEW s, IsSequence(s), NEW i \in DOMAIN s
  PROVE  /\ DOMAIN RemoveAt(s, i) = 1 .. Len(s) - 1
         /\ Len(s) \in Nat /\ DOMAIN s = 1 .. Len(s)
         /\ \A j \in DOMAIN RemoveAt(s, i) :
              RemoveAt(s, i)[j] = s[IF j < i THEN j ELSE j + 1]
<1> DEFINE T == ToSet(s)
<1> DEFINE front == SubSeq(s, 1, i - 1)
<1> DEFINE back == SubSeq(s, i + 1, Len(s))
<1>1. s \in Seq(T)
  BY DEF IsSequence
<1> HIDE DEF T
<1>2. Len(s) \in Nat /\ DOMAIN s = 1 .. Len(s) /\ i \in 1 .. Len(s)
  BY <1>1
<1>3. /\ front \in Seq(T) /\ Len(front) = i - 1
      /\ back \in Seq(T) /\ Len(back) = Len(s) - i
      /\ \A j \in 1 .. i - 1 : front[j] = s[j]
  BY <1>1, <1>2
<1>8. ASSUME NEW j \in 1 .. Len(s) - i PROVE back[j] = s[i + j]
  <2>1. back[j] = s[i + 1 + j - 1] /\ i + 1 + j - 1 = i + j
    BY <1>1, <1>2, <1>8
  <2> QED
    BY <2>1
<1>4. RemoveAt(s, i) = front \o back
  BY DEF RemoveAt
<1> HIDE DEF front, back
<1>5. /\ front \o back \in Seq(T) /\ Len(front \o back) = Len(front) + Len(back)
      /\ \A j \in 1 .. Len(front) + Len(back) :
           (front \o back)[j] = IF j <= Len(front) THEN front[j] ELSE back[j - Len(front)]
  <2>1. front \in Seq(T) /\ back \in Seq(T)
    BY <1>3
  <2>2. front \o back \in Seq(T) /\ Len(front \o back) = Len(front) + Len(back)
    BY <2>1, ConcatProperties
  <2>3. \A j \in 1 .. Len(front) + Len(back) :
          (front \o back)[j] = IF j <= Len(front) THEN front[j] ELSE back[j - Len(front)]
    BY <2>1, ConcatProperties
  <2> QED
    BY <2>2, <2>3
<1>6. DOMAIN (front \o back) = 1 .. Len(s) - 1
  <2>1. DOMAIN (front \o back) = 1 .. Len(front \o back)
    BY <1>5
  <2>2. Len(front) + Len(back) = Len(s) - 1
    BY <1>2, <1>3
  <2>3. Len(front \o back) = Len(s) - 1
    BY <1>5, <2>2
  <2> QED
    BY <2>1, <2>3
<1>7. ASSUME NEW j \in 1 .. Len(s) - 1
      PROVE  (front \o back)[j] = s[IF j < i THEN j ELSE j + 1]
  <2>1. CASE j < i
    BY <1>2, <1>3, <1>5, <1>7, <2>1
  <2>2. CASE ~(j < i)
    <3>1. j - (i - 1) \in 1 .. Len(s) - i
      BY <1>2, <1>7, <2>2
    <3>2. (front \o back)[j] = back[j - (i - 1)]
      BY <1>2, <1>3, <1>5, <1>7, <2>2
    <3>3. back[j - (i - 1)] = s[i + (j - (i - 1))]
      BY <1>8, <3>1
    <3>4. i + (j - (i - 1)) = j + 1
      BY <1>2, <1>7
    <3> QED
      BY <2>2, <3>2, <3>3, <3>4
  <2> QED
    BY <2>1, <2>2
<1> QED
  BY <1>2, <1>4, <1>6, <1>7

LEMMA RestoreExplains ==
  ASSUME IInv, RInv, NEW i, Restore(i)
  PROVE  RInv'
<1> DEFINE From(j) == IF j < i THEN j ELSE j + 1
<1>1. IsSequence(orders) /\ i \in DOMAIN orders /\ orders' = RemoveAt(orders, i)
  BY DEF IInv, OrdersKnown, Restore
<1>2. /\ DOMAIN orders' = 1 .. Len(orders) - 1 /\ Len(orders) \in Nat
      /\ DOMAIN orders = 1 .. Len(orders)
      /\ \A j \in DOMAIN orders' : orders'[j] = orders[From(j)]
  BY <1>1, RemovedInOrder
<1>3. \A j \in DOMAIN orders' : From(j) \in DOMAIN orders
  BY <1>1, <1>2
<1>4. \A j, k \in DOMAIN orders' : From(j) = From(k) => j = k
  BY <1>1, <1>2
<1> HIDE DEF From
<1>5. OrdersTold'
  BY <1>2, <1>3, <1>4 DEF RInv, OrdersTold
<1>6. phase' = "resting"
  BY DEF Restore, Forget
<1> QED
  BY <1>5, <1>6, RestingExplains

LEMMA RejectExplains ==
  ASSUME RInv, NEW r \in Requests, Reject(r)
  PROVE  RInv'
<1>1. phase' = "refused" /\ request' = r /\ ~Sound(Provider(r), r.tree) /\ orders' = orders
  BY DEF Reject, Arrives
<1>2. OrdersTold'
  BY <1>1 DEF RInv, OrdersTold
<1>3. RefusedForCause'
  BY <1>1 DEF RefusedForCause
<1> QED
  BY <1>1, <1>2, <1>3 DEF RInv, Compiling, AnchorFound

(* A request that is taken up holds the anchor it is given or keeps. *)
LEMMA ReconciledIsFound ==
  ASSUME NEW r \in Requests, AnchorKnown, placement' = Reconciled(placement, r),
         placement'.status = "anchored"
  PROVE  Found(placement'.anchor, r)
<1> DEFINE first == CHOOSE p \in FirstUsers(r) : TRUE
<1>1. ASSUME FirstUsers(r) # {} PROVE Found(AnchorAt(r, first), r)
  <2>1. first \in Occurrences(Provider(r), r.tree)
    BY <1>1 DEF FirstUsers
  <2> QED
    BY <2>1 DEF AnchorAt, Exact, Found
<1>2. CASE placement.status = "awaiting" /\ FirstUsers(r) # {}
  <2>1. placement'.anchor = AnchorAt(r, first)
    BY <1>2 DEF Reconciled
  <2> QED
    BY <1>1, <1>2, <2>1
<1>3. CASE /\ placement.status = "anchored" /\ ~Found(placement.anchor, r)
           /\ ~placement.moved /\ FirstUsers(r) # {}
  <2>1. placement' = [placement EXCEPT !.anchor = AnchorAt(r, first), !.moved = TRUE]
    BY <1>3 DEF Reconciled
  <2>2. placement'.anchor = AnchorAt(r, first)
    BY <2>1 DEF AnchorKnown
  <2> QED
    BY <1>1, <1>3, <2>2
<1>4. CASE /\ placement.status = "anchored" /\ ~Found(placement.anchor, r)
           /\ ~(~placement.moved /\ FirstUsers(r) # {})
  <2>1. placement' = [placement EXCEPT !.anchor = NoAnchor, !.status = "stopped"]
    BY <1>4 DEF Reconciled
  <2>2. placement'.status = "stopped"
    BY <2>1 DEF AnchorKnown
  <2> QED
    BY <2>2
<1>5. CASE /\ ~(placement.status = "awaiting" /\ FirstUsers(r) # {})
           /\ ~(placement.status = "anchored" /\ ~Found(placement.anchor, r))
  <2>1. placement' = placement
    BY <1>5 DEF Reconciled
  <2> QED
    BY <1>5, <2>1
<1> QED
  BY <1>2, <1>3, <1>4, <1>5

LEMMA ReceiveExplains ==
  ASSUME IInv, RInv, NEW r \in Requests, Receive(r)
  PROVE  RInv'
<1>1. /\ results' = <<>> /\ applied' = <<>> /\ request' = r /\ orders' = orders
      /\ candidate' = [params |-> Normalized(r), tree |-> Rewritten(Provider(r), r.tree)]
      /\ phase' = "editing" /\ placement' = Reconciled(placement, r)
  BY DEF Receive, Arrives
<1>2. OrdersTold'
  BY <1>1 DEF RInv, OrdersTold
<1>3. \A p \in DOMAIN r.tree : Worked(p)'
  BY <1>1, RewrittenBecame DEF Worked
<1>4. Compiling'
  BY <1>1, <1>3 DEF Compiling, Judged
<1>5. AnchorFound'
  BY <1>1, ReconciledIsFound DEF AnchorFound, IInv
<1> QED
  BY <1>1, <1>2, <1>4, <1>5 DEF RInv, RefusedForCause

(***************************************************************************)
(* A surgery.                                                              *)
(***************************************************************************)
(* An order finds what the user saw, when the request holds it.            *)
LEMMA SeenIsFound ==
  ASSUME NEW order, Ordered(order), order.at \in Places,
         order.source = Value(order.seen[order.at]),
         catalog = request, AsSeen(order)
  PROVE  Exact(order, request) /\ Value(request.tree[order.at]) = order.source
<1> DEFINE provider == Provider(request)
<1> DEFINE at == order.at
<1> DEFINE Before(tree) == {q \in Occurrences(provider, tree) : UpTo(q, at)}
<1>1. UpTo(at, at)
  BY DEF UpTo, Places
<1> DEFINE Above(tree) == {m \in Envelopes(provider, tree) : m[1] < at[1]}
<1>2. /\ Before(order.seen) = Before(request.tree)
      /\ \A q \in Before(request.tree) :
           /\ Kind(order.seen, q) = Kind(request.tree, q)
           /\ Value(order.seen[q]) = Value(request.tree[q])
      /\ Above(order.seen) = Above(request.tree)
      /\ \A m \in Above(request.tree) : Whole(order.seen, m) = Whole(request.tree, m)
  BY DEF AsSeen
<1>3. at \in Before(order.seen) /\ order.identity = Identity(provider, order.seen, at)
  BY <1>1 DEF Ordered
<1>4. at \in Occurrences(provider, request.tree) /\ Value(request.tree[at]) = order.source
  BY <1>2, <1>3
<1>5. Identity(provider, order.seen, at) = Identity(provider, request.tree, at)
  <2> DEFINE Told(tree, q) == <<q, Kind(tree, q), Value(tree[q])>>
  <2> DEFINE Wholes(tree) == {<<m, Whole(tree, m)>> : m \in Above(tree)}
  <2>1. \A tree : Identity(provider, tree, at) =
                    [content |-> {Told(tree, q) : q \in Before(tree)}, wholes |-> Wholes(tree)]
    BY DEF Identity
  <2>6. Wholes(order.seen) = Wholes(request.tree)
    <3> HIDE DEF Above
    <3> QED
      BY <1>2
  <2>2. PICK B : B = Before(order.seen) /\ B = Before(request.tree)
    BY <1>2
  <2>3. \A q \in B : Told(order.seen, q) = Told(request.tree, q)
    BY <1>2, <2>2
  <2> HIDE DEF Told, Before, Wholes
  <2>4. {Told(order.seen, q) : q \in B} = {Told(request.tree, q) : q \in B}
    BY <2>3
  <2>5. /\ Identity(provider, order.seen, at) =
             [content |-> {Told(order.seen, q) : q \in B}, wholes |-> Wholes(order.seen)]
        /\ Identity(provider, request.tree, at) =
             [content |-> {Told(request.tree, q) : q \in B}, wholes |-> Wholes(request.tree)]
    BY <2>1, <2>2
  <2> QED
    BY <2>4, <2>5, <2>6
<1> QED
  BY <1>3, <1>4, <1>5 DEF Exact

(* The surgery whose turn it is. *)
LEMMA TurnFacts ==
  ASSUME IInv, Operate
  PROVE  /\ phase = "editing" /\ request \in Requests /\ catalog = request
         /\ Len(results) \in Nat /\ DOMAIN results = 1 .. Len(results)
         /\ Len(orders) \in Nat /\ DOMAIN orders = 1 .. Len(orders)
         /\ Len(results) + 1 \in DOMAIN orders
         /\ Turn = orders[Len(results) + 1] /\ Ordered(Turn)
         /\ UNCHANGED <<catalog, orders, placement, request, phase>>
         /\ \E result : /\ results' = Append(results, result)
                        /\ result.outcome = Outcome(Turn)
<1>1. /\ phase = "editing" /\ Len(results) < Len(orders)
      /\ UNCHANGED <<catalog, orders, placement, request, phase>>
  BY DEF Operate
<1>2. /\ request \in Requests /\ catalog = request
      /\ IsSequence(results) /\ IsSequence(orders)
  BY <1>1 DEF IInv, AtHand, Typed, OrdersKnown
<1>3. /\ Len(results) \in Nat /\ DOMAIN results = 1 .. Len(results)
      /\ Len(orders) \in Nat /\ DOMAIN orders = 1 .. Len(orders)
  BY <1>2 DEF IsSequence
<1>4. Len(results) + 1 \in DOMAIN orders
  BY <1>1, <1>3
<1>5. Turn = orders[Len(results) + 1] /\ Ordered(Turn)
  BY <1>4 DEF Turn, IInv, OrdersKnown
<1>6. \E result : results' = Append(results, result) /\ result.outcome = Outcome(Turn)
  <2> DEFINE p == Turn.at
  <2> DEFINE edited == Edited(Provider(request), candidate.tree, p, Plain(Turn.action.text))
  <2>1. CASE Outcome(Turn) = "applied"
    <3> DEFINE result == Result("user", p, "applied", ValueAt(request.tree[p], edited), FALSE)
    <3>1. results' = Append(results, result)
      BY <2>1 DEF Operate
    <3>2. result.outcome = Outcome(Turn)
      BY <2>1 DEF Result
    <3> QED
      BY <3>1, <3>2
  <2>2. CASE Outcome(Turn) # "applied"
    <3> DEFINE result == Result("user", p, Outcome(Turn), NoOutput, FALSE)
    <3>1. results' = Append(results, result)
      BY <2>2 DEF Operate
    <3>2. result.outcome = Outcome(Turn)
      BY DEF Result
    <3> QED
      BY <3>1, <3>2
  <2> QED
    BY <2>1, <2>2
<1> QED
  BY <1>1, <1>2, <1>3, <1>4, <1>5, <1>6

LEMMA OutcomeTold ==
  ASSUME IInv, OrdersTold, Operate
  PROVE  /\ Outcome(Turn) # "rejected"
         /\ Outcome(Turn) = "stale" => ~AsSeen(Turn)
<1> DEFINE n == Len(results) + 1
<1>1. /\ phase = "editing" /\ catalog = request
      /\ Len(results) \in Nat /\ DOMAIN results = 1 .. Len(results)
      /\ n \in DOMAIN orders /\ Turn = orders[n] /\ Ordered(Turn)
  BY TurnFacts
<1>2. ASSUME AsSeen(Turn) PROVE Outcome(Turn) # "stale"
  <2>1. Turn.at \in Places /\ Turn.source = Value(Turn.seen[Turn.at])
    BY <1>1 DEF OrdersTold
  <2>2. Exact(Turn, request) /\ Value(request.tree[Turn.at]) = Turn.source
    BY <1>1, <1>2, <2>1, SeenIsFound
  <2> QED
    BY <2>2 DEF Outcome
<1>3. ASSUME Exact(Turn, request), Turn.at \in DOMAIN applied PROVE FALSE
  <2>1. AppliedAt(Turn.at)
    BY <1>1, <1>3 DEF IInv, Editing
  <2>2. PICK i \in DOMAIN results : results[i].at = Turn.at /\ results[i].outcome = "applied"
    BY <2>1 DEF AppliedAt
  <2>3. UserResult(i)
    BY <1>1 DEF IInv, Editing
  <2>4. orders[i].at = Turn.at /\ Exact(orders[i], request)
    BY <2>2, <2>3 DEF UserResult
  <2>5. orders[i].identity = orders[n].identity
    BY <1>1, <1>3, <2>4 DEF Exact
  <2>6. i \in DOMAIN orders
    <3>1. Len(orders) \in Nat /\ DOMAIN orders = 1 .. Len(orders)
      BY TurnFacts
    <3> QED
      BY <1>1, <3>1
  <2>7. i = n
    BY <1>1, <2>5, <2>6 DEF OrdersTold
  <2> QED
    BY <1>1, <2>7
<1>4. Outcome(Turn) = "rejected" => Exact(Turn, request) /\ Turn.at \in DOMAIN applied
  BY DEF Outcome
<1> QED
  BY <1>2, <1>3, <1>4

(* What is known of a place stays with it. *)
LEMMA WorkStays ==
  ASSUME NEW p, Worked(p), UNCHANGED <<orders, placement, request>>,
         candidate'.tree[p] = candidate.tree[p],
         p \in DOMAIN applied' <=> p \in DOMAIN applied,
         p \in DOMAIN applied => applied'[p] = applied[p]
  PROVE  Worked(p)'
<1>1. Misplaced' = Misplaced
  BY DEF Misplaced, Injected, Echoes
<1> QED
  BY <1>1 DEF Worked

(* The results stay judged when others join them. *)
LEMMA JudgedStays ==
  ASSUME Judged, UNCHANGED <<orders, request>>,
         \A i \in DOMAIN results' \cap DOMAIN results : results'[i].outcome = results[i].outcome,
         \A i \in DOMAIN results' \ DOMAIN results :
           /\ results'[i].outcome # "rejected"
           /\ results'[i].outcome = "stale" => i \in DOMAIN orders /\ ~AsSeen(orders[i])
  PROVE  Judged'
<1>1. \A i : AsSeen(orders[i])' = AsSeen(orders[i])
  BY DEF AsSeen
<1>2. ASSUME NEW i \in DOMAIN results'
      PROVE  /\ results'[i].outcome # "rejected"
             /\ results'[i].outcome = "stale" => i \in DOMAIN orders /\ ~AsSeen(orders[i])
  BY DEF Judged
<1> QED
  BY <1>1, <1>2 DEF Judged

LEMMA OperateExplains ==
  ASSUME IInv, RInv, Operate
  PROVE  RInv'
<1> DEFINE n == Len(results) + 1
<1>1. /\ phase = "editing" /\ request \in Requests
      /\ Len(results) \in Nat /\ DOMAIN results = 1 .. Len(results)
      /\ n \in DOMAIN orders /\ Turn = orders[n] /\ Ordered(Turn)
      /\ UNCHANGED <<catalog, orders, placement, request, phase>>
  BY TurnFacts
<1>2. PICK result : results' = Append(results, result) /\ result.outcome = Outcome(Turn)
  BY TurnFacts
<1>3. OrdersTold /\ Judged /\ \A p \in DOMAIN request.tree : Worked(p)
  BY <1>1 DEF RInv, Compiling
<1>4. OrdersTold'
  BY <1>1, <1>3 DEF OrdersTold
<1>5. Judged'
  <2>1. IsSequence(results)
    BY DEF IInv, Typed
  <2>2. /\ DOMAIN results' = 1 .. n
        /\ \A i \in 1 .. Len(results) : results'[i] = results[i]
        /\ results'[n] = result
    BY <1>2, <2>1, Appended
  <2>3. DOMAIN results' \ DOMAIN results = {n}
    BY <1>1, <2>2
  <2>4. /\ result.outcome # "rejected"
        /\ result.outcome = "stale" => n \in DOMAIN orders /\ ~AsSeen(orders[n])
    BY <1>1, <1>2, <1>3, OutcomeTold
  <2> HIDE DEF n
  <2> QED
    BY <1>1, <1>3, <2>2, <2>3, <2>4, JudgedStays
<1>6. \A p \in DOMAIN request.tree : Worked(p)'
  <2>1. CASE Outcome(Turn) # "applied"
    <3>1. UNCHANGED <<candidate, applied>>
      BY <2>1 DEF Operate
    <3> QED
      BY <1>1, <1>3, <3>1, WorkStays
  <2>2. CASE Outcome(Turn) = "applied"
    <3>a. PICK at, word : at = Turn.at /\ word = Turn.action.text
      OBVIOUS
    <3>b. PICK edited : edited = Edited(Provider(request), candidate.tree, at, Plain(word))
      OBVIOUS
    <3>c. PICK output : output = ValueAt(request.tree[at], edited)
      OBVIOUS
    <3>1. /\ candidate' = [candidate EXCEPT !.tree[at] = edited]
          /\ applied' = Put(applied, at, output)
      BY <2>2, <3>a, <3>b, <3>c DEF Operate
    <3>2. /\ Exact(Turn, request) /\ at \notin DOMAIN applied
          /\ Mutable(Provider(request), request.tree, at)
      BY <2>2, <3>a DEF Outcome
    <3>3. at \in DOMAIN request.tree /\ word \in Words
      BY <1>1, <3>2, <3>a, ProviderOfRequest, OccurrencesAreThere DEF Exact, Ordered
    <3>4. candidate \in [params : {Normalized(request)}, tree : [DOMAIN request.tree -> Nodes]]
      BY <1>1 DEF IInv, AtHand
    <3>5. candidate.tree[at] \in Nodes
      BY <3>3, <3>4
    <3>6. Became(Provider(request), request.tree[at], candidate.tree[at])
          /\ AsParsed(Provider(request), request.tree[at], candidate.tree[at])
      BY <1>3, <3>2, <3>3 DEF Worked
    <3>7. Carried(request.tree[at], edited, word)
      BY <1>1, <3>2, <3>3, <3>5, <3>6, <3>b, EditedCarries
    <3>8. Became(Provider(request), request.tree[at], edited)
      BY <1>1, <3>2, <3>3, <3>5, <3>6, <3>b, EditedBecame
    <3>9. /\ candidate'.tree[at] = edited
          /\ \A p \in DOMAIN request.tree \ {at} : candidate'.tree[p] = candidate.tree[p]
      BY <3>1, <3>3, <3>4
    <3>10. /\ at \in DOMAIN applied' /\ applied'[at] = output
           /\ \A p : p # at => (p \in DOMAIN applied' <=> p \in DOMAIN applied)
           /\ \A p \in DOMAIN applied : p # at => applied'[p] = applied[p]
      BY <3>1 DEF Put
    <3>11. /\ Provider(request) = Anthropic => RoleAt(request.tree, at) # "system"
           /\ Provider(request) = Chat => RoleAt(request.tree, at) \in ChatRoles
      BY <3>2 DEF Mutable, AnthropicMutable, ChatMutable, ChatRoles, Anthropic, Chat,
                  Responses
    <3>12. edited.text = Plain(Blank) =>
             orders[n].at = at /\ orders[n].action.text = Blank
      BY <1>1, <3>7, <3>a DEF Carried, Plain
    <3>13. Worked(at)'
      <4>1. IsText(edited)
        BY <3>7 DEF Carried
      <4> HIDE DEF n
      <4> QED
        BY <1>1, <3>8, <3>9, <3>10, <3>11, <3>12, <3>c, <4>1 DEF Worked
    <3>14. ASSUME NEW p \in DOMAIN request.tree, p # at PROVE Worked(p)'
      BY <1>1, <1>3, <3>9, <3>10, <3>14, WorkStays
    <3> QED
      BY <3>13, <3>14
  <2> QED
    BY <2>1, <2>2
<1>7. AnchorFound'
  <2>1. Found(placement.anchor, request)' = Found(placement.anchor, request)
    BY <1>1 DEF Found, Exact, Echoes
  <2> QED
    BY <1>1, <2>1 DEF RInv, AnchorFound
<1> QED
  BY <1>1, <1>4, <1>5, <1>6, <1>7 DEF RInv, Compiling, RefusedForCause

(***************************************************************************)
(* What a request is refused for.                                          *)
(***************************************************************************)
(* A message of the Responses dialect is an empty string. *)
EmptyMessage ==
  /\ Provider(request) = Responses
  /\ \E m \in Items(request.tree) :
       request.tree[m].type = "message" /\ request.tree[m].form = "string" /\
       request.tree[m].text = Plain(Blank)

ForCause ==
  \/ ~Sound(Provider(request), request.tree)
  \/ \E i \in DOMAIN orders :
       \/ ~AsSeen(orders[i])
       \/ Blanked(i)
       \/ orders[i].at = placement.anchor.at /\ Echoes(placement.anchor, request.tree)
  \/ EmptyMessage
  \/ Misplaced

LEMMA CauseIsTold == RefusedForCause <=> (phase = "refused" => ForCause)
BY DEF RefusedForCause, ForCause, EmptyMessage

LEMMA CauseStays ==
  ASSUME ForCause, UNCHANGED <<orders, placement, request>>
  PROVE  ForCause'
<1>1. Misplaced' = Misplaced /\ EmptyMessage' = EmptyMessage
  BY DEF Misplaced, Injected, Echoes, EmptyMessage
<1>2. \A i : AsSeen(orders[i])' = AsSeen(orders[i]) /\ Blanked(i)' = Blanked(i)
  BY DEF AsSeen, Blanked
<1>3. Echoes(placement.anchor, request.tree)' = Echoes(placement.anchor, request.tree)
  BY DEF Echoes
<1> QED
  BY <1>1, <1>2, <1>3 DEF ForCause

(* The adapter only takes an empty string for no content in a message. *)
LEMMA EmptiedIsCause ==
  ASSUME request \in Requests, NEW p \in DOMAIN request.tree,
         Provider(request) = Responses,
         request.tree[p].type = "message", request.tree[p].form = "string",
         request.tree[p].text = Plain(Blank)
  PROVE  EmptyMessage
<1>1. p = Item(p)
  BY RequestIsShaped DEF Shaped
<1> QED
  BY <1>1 DEF EmptyMessage, Items

(***************************************************************************)
(* The bootstrap text.                                                     *)
(***************************************************************************)
LEMMA AnchorIsNotSystem ==
  ASSUME NEW r \in Requests, Provider(r) = Anthropic,
         NEW p \in Occurrences(Provider(r), r.tree), Kind(r.tree, p) = "user-text"
  PROVE  RoleAt(r.tree, p) # "system"
<1> SUFFICES ASSUME RoleAt(r.tree, p) = "system" PROVE FALSE
  OBVIOUS
<1>1. p \in DOMAIN r.tree /\ p = Item(p)
  BY DEF Occurrences, AnthropicOccurrences, Anthropic, Chat, Responses
<1>2. IsText(r.tree[p]) /\ ~IsMedia(r.tree[p])
  BY UserTextIsText
<1>3. r.tree[p].type \notin TextTypes
  BY <1>1, RequestIsShaped DEF Shaped
<1>4. r.tree[p].form = "string"
  BY <1>2, <1>3 DEF IsText
<1> QED
  BY <1>2, <1>4 DEF Kind

LEMMA SharedOutcomes ==
  ASSUME IInv, Operated, NEW p, NEW output
  PROVE  \A i \in DOMAIN results : Shared(p, output)[i].outcome = results[i].outcome
<1> SUFFICES ASSUME NEW i \in DOMAIN results
             PROVE  Shared(p, output)[i].outcome = results[i].outcome
  OBVIOUS
<1>1. IsResult(results[i])
  BY AllOperated DEF UserResult
<1>2. Shared(p, output)[i] =
        IF results[i].at = p /\ results[i].outcome = "applied"
        THEN [results[i] EXCEPT !.output = output, !.shared = TRUE] ELSE results[i]
  BY DEF Shared
<1>3. [results[i] EXCEPT !.output = output, !.shared = TRUE].outcome = results[i].outcome
  BY <1>1 DEF IsResult, Result
<1> QED
  BY <1>2, <1>3

LEMMA ResultsGrow ==
  ASSUME IInv, Operated, Judged, UNCHANGED <<orders, request>>,
         NEW s, IsSequence(s), Len(s) = Len(results),
         \A i \in DOMAIN results : s[i].outcome = results[i].outcome,
         NEW r, r.outcome \in {"applied", "protected-residue"},
         results' = Append(s, r)
  PROVE  Judged'
<1>1. IsSequence(results) /\ Len(results) \in Nat /\ DOMAIN results = 1 .. Len(results)
  BY DEF IInv, Typed, IsSequence
<1>2. /\ DOMAIN results' = 1 .. Len(results) + 1
      /\ \A i \in 1 .. Len(results) : results'[i] = s[i]
      /\ results'[Len(results) + 1] = r
  BY Appended
<1>3. \A i \in DOMAIN results' \cap DOMAIN results : results'[i].outcome = results[i].outcome
  BY <1>1, <1>2
<1>4. \A i \in DOMAIN results' \ DOMAIN results : results'[i] = r
  BY <1>1, <1>2
<1> QED
  BY <1>3, <1>4, JudgedStays

(* The bootstrap text is put before the anchor, or found there. *)
LEMMA AnchorWorked ==
  ASSUME IInv, RInv, Operated, Bootstrap, placement.status = "anchored",
         AtAnchor, IsText(candidate.tree[placement.anchor.at])
  PROVE  Judged' /\ \A p \in DOMAIN request.tree : Worked(p)'
<1>a. PICK p, n : p = placement.anchor.at /\ n = candidate.tree[p]
  OBVIOUS
<1>1. /\ UNCHANGED <<orders, placement, request>>
      /\ IF placement.decision = "inject" THEN Inject(p) ELSE Preserve(p)
  BY <1>a DEF Bootstrap
<1>2. /\ p \in DOMAIN request.tree /\ IsText(request.tree[p]) /\ IsText(n)
      /\ Echoes(placement.anchor, request.tree) <=>
           (p \notin DOMAIN applied /\ Echoes(placement.anchor, candidate.tree))
  BY <1>a, AtAnchorFacts
<1>3. /\ request \in Requests /\ n \in Nodes /\ request.tree[p] \in Nodes
      /\ candidate \in [params : {Normalized(request)}, tree : [DOMAIN request.tree -> Nodes]]
      /\ IsSequence(results)
  BY <1>2, <1>a, AllOperated
<1>4. Judged /\ \A q \in DOMAIN request.tree : Worked(q)
  BY DEF RInv, Compiling, Operated
<1>5. \E s, output, shared :
        /\ s \in {results, Shared(p, output)}
        /\ results' = Append(s, Result("bootstrap", p, "applied", output, shared))
  <2>1. CASE Preserve(p) /\ p \in DOMAIN applied
    <3>1. results' = Append(Shared(p, Value(n)),
                            Result("bootstrap", p, "applied", Value(n), p \in DOMAIN applied))
      BY <2>1, <1>a DEF Preserve
    <3> QED
      BY <3>1
  <2>2. CASE Preserve(p) /\ p \notin DOMAIN applied
    <3>1. results' = Append(results,
                            Result("bootstrap", p, "applied", Value(n), p \in DOMAIN applied))
      BY <2>2, <1>a DEF Preserve
    <3> QED
      BY <3>1
  <2>3. CASE Inject(p) /\ p \notin DOMAIN applied /\ Echoes(placement.anchor, candidate.tree)
    <3>1. PICK shared : shared = FALSE
      OBVIOUS
    <3>2. results' = Append(results, Result("bootstrap", p, "applied", Value(n), shared))
      BY <2>3, <3>1, <1>a DEF Inject
    <3> QED
      BY <3>2
  <2>4. CASE Inject(p) /\ ~(p \notin DOMAIN applied /\ Echoes(placement.anchor, candidate.tree))
    <3> DEFINE output == Value(Prefixed(n))
    <3>1. results' = Append(Shared(p, output),
                            Result("bootstrap", p, "applied", output, p \in DOMAIN applied))
      BY <2>4, <1>a DEF Inject
    <3> QED
      BY <3>1
  <2> QED
    BY <1>1, <2>1, <2>2, <2>3, <2>4
<1>6. Judged'
  <2>1. PICK s, output, shared :
          /\ s \in {results, Shared(p, output)}
          /\ results' = Append(s, Result("bootstrap", p, "applied", output, shared))
    BY <1>5
  <2>2. /\ IsSequence(s) /\ Len(s) = Len(results)
        /\ \A i \in DOMAIN results : s[i].outcome = results[i].outcome
    BY <1>3, <2>1, SharedIsSequence, SharedOutcomes
  <2>3. Result("bootstrap", p, "applied", output, shared).outcome = "applied"
    BY DEF Result
  <2> QED
    BY <1>1, <1>4, <2>1, <2>2, <2>3, ResultsGrow
<1>7. \/ UNCHANGED <<candidate, applied>>
      \/ /\ placement.decision = "inject"
         /\ ~(p \notin DOMAIN applied /\ Echoes(placement.anchor, candidate.tree))
         /\ candidate' = [candidate EXCEPT !.tree[p] = Prefixed(n)]
         /\ applied' = Put(applied, p, Value(Prefixed(n)))
  BY <1>1, <1>a DEF Inject, Preserve
<1>8. CASE UNCHANGED <<candidate, applied>>
  BY <1>1, <1>4, <1>6, <1>8, WorkStays
<1>9. CASE /\ placement.decision = "inject"
           /\ ~(p \notin DOMAIN applied /\ Echoes(placement.anchor, candidate.tree))
           /\ candidate' = [candidate EXCEPT !.tree[p] = Prefixed(n)]
           /\ applied' = Put(applied, p, Value(Prefixed(n)))
  <2>1. /\ Prefixed(n) \in Nodes /\ IsText(Prefixed(n))
        /\ Prefixed(n).text # Plain(Blank)
    <3>1. n.text.prefixes \in Nat
      BY <1>3 DEF Nodes, Texts
    <3>2. Prefixed(n).text.prefixes = n.text.prefixes + 1
      <4>1. n.text \in Texts
        BY <1>3 DEF Nodes
      <4>2. Prefixed(n).text = [n.text EXCEPT !.prefixes = @ + 1]
        BY <1>3, NodePrefixed
      <4> QED
        BY <4>1, <4>2 DEF Texts
    <3>3. Prefixed(n).text # Plain(Blank)
      BY <3>1, <3>2 DEF Plain
    <3> QED
      BY <1>2, <1>3, <3>3, NodePrefixed DEF IsText
  <2>2. /\ candidate'.tree[p] = Prefixed(n)
        /\ \A q \in DOMAIN request.tree \ {p} : candidate'.tree[q] = candidate.tree[q]
    BY <1>2, <1>3, <1>9, <2>1
  <2>3. /\ p \in DOMAIN applied' /\ applied'[p] = Value(Prefixed(n))
        /\ \A q : q # p => (q \in DOMAIN applied' <=> q \in DOMAIN applied)
        /\ \A q \in DOMAIN applied : q # p => applied'[q] = applied[q]
    BY <1>9 DEF Put
  <2>4. applied'[p] = ValueAt(request.tree[p], candidate'.tree[p])
    BY <1>2, <2>1, <2>2, <2>3, TextValue
  <2>5. Became(Provider(request), request.tree[p], Prefixed(n))
    BY <1>2, <1>3, <1>4, <1>a, PrefixedBecame DEF Worked
  <2>6. ASSUME Provider(request) = Anthropic PROVE RoleAt(request.tree, p) # "system"
    <3>1. CASE p \in DOMAIN applied
      BY <1>2, <1>4, <2>6, <3>1 DEF Worked
    <3>2. CASE p \notin DOMAIN applied
      <4>1. Exact(placement.anchor, request)
        BY <1>9, <3>2 DEF AtAnchor
      <4>2. Kind(request.tree, p) = "user-text"
        BY <1>3, <1>a, <4>1, AnchorIsSource DEF IInv
      <4> QED
        BY <1>3, <1>a, <2>6, <4>1, <4>2, AnchorIsNotSystem DEF Exact
    <3> QED
      BY <3>1, <3>2
  <2>9. Provider(request) = Chat => RoleAt(request.tree, p) \in ChatRoles \/ Misplaced'
    <3>1. Injected(p)
      BY <1>2, <1>9, <1>a DEF Injected
    <3>2. Misplaced' = Misplaced
      BY <1>1 DEF Misplaced, Injected, Echoes
    <3> QED
      BY <1>a, <3>1, <3>2 DEF Misplaced
  <2>7. Worked(p)'
    BY <1>1, <2>1, <2>2, <2>3, <2>4, <2>5, <2>6, <2>9 DEF Worked
  <2>8. ASSUME NEW q \in DOMAIN request.tree, q # p PROVE Worked(q)'
    BY <1>1, <1>4, <2>2, <2>3, <2>8, WorkStays
  <2> QED
    BY <1>6, <2>7, <2>8
<1> QED
  BY <1>7, <1>8, <1>9

(* The place of the bootstrap text is only lost for a cause. *)
LEMMA AnchorLost ==
  ASSUME IInv, RInv, Operated, placement.status = "anchored",
         ~(AtAnchor /\ IsText(candidate.tree[placement.anchor.at]))
  PROVE  ForCause
<1>a. PICK p : p = placement.anchor.at
  OBVIOUS
<1>1. /\ request \in Requests /\ candidate.tree \in [DOMAIN request.tree -> Nodes]
      /\ DOMAIN results = 1 .. Len(orders) /\ DOMAIN orders = 1 .. Len(orders)
  BY AllOperated
<1>2. Found(placement.anchor, request)
  BY DEF RInv, AnchorFound, Operated
<1>3. p \in Occurrences(Provider(request), request.tree)
  BY <1>2, <1>a DEF Found, Exact
<1>4. p \in DOMAIN request.tree /\ p \in DOMAIN candidate.tree
  BY <1>1, <1>3, ProviderOfRequest, OccurrencesAreThere
<1>5. IsText(request.tree[p])
  <2>1. CASE Exact(placement.anchor, request)
    BY <1>1, <1>a, <2>1, AnchorIsSource, UserTextIsText DEF IInv
  <2>2. CASE Echoes(placement.anchor, request.tree)
    BY <1>a, <2>2 DEF Echoes
  <2> QED
    BY <1>2, <2>1, <2>2 DEF Found
<1>6. Worked(p)
  BY <1>4 DEF RInv, Compiling, Operated
<1>7. CASE p \in DOMAIN applied
  <2>1. IsText(candidate.tree[p])
    BY <1>6, <1>7 DEF Worked
  <2>2. Echoes(placement.anchor, request.tree)
    BY <1>2, <1>a, <2>1 DEF Found, AtAnchor
  <2>3. PICK i \in DOMAIN results : results[i].at = p /\ results[i].outcome = "applied"
    BY <1>7, AllOperated DEF AppliedAt
  <2>4. i \in DOMAIN orders /\ orders[i].at = p
    BY <1>1, <2>3, AllOperated DEF UserResult
  <2> QED
    BY <1>a, <2>2, <2>4 DEF ForCause
<1>8. CASE p \notin DOMAIN applied
  <2>1. AsParsed(Provider(request), request.tree[p], candidate.tree[p])
    BY <1>6, <1>8 DEF Worked
  <2>2. ASSUME IsText(candidate.tree[p]), candidate.tree[p].text = request.tree[p].text
        PROVE  FALSE
    <3>1. Echoes(placement.anchor, request.tree) => Echoes(placement.anchor, candidate.tree)
      BY <1>4, <1>a, <2>2 DEF Echoes
    <3> QED
      BY <1>2, <1>a, <2>2, <3>1 DEF Found, AtAnchor
  <2>3. CASE candidate.tree[p] = request.tree[p]
    BY <1>5, <2>2, <2>3
  <2>4. CASE /\ candidate.tree[p].type \in TextTypes
             /\ candidate.tree[p].text = request.tree[p].text
    BY <2>2, <2>4 DEF IsText
  <2>5. CASE /\ Provider(request) = Responses
             /\ request.tree[p].type = "message" /\ request.tree[p].form = "string"
             /\ request.tree[p].text = Plain(Blank)
    BY <1>1, <1>4, <2>5, EmptiedIsCause DEF ForCause
  <2> QED
    BY <2>1, <2>3, <2>4, <2>5 DEF AsParsed
<1> QED
  BY <1>7, <1>8

LEMMA BootstrapExplains ==
  ASSUME IInv, RInv, Bootstrap
  PROVE  RInv'
<1>1. Operated /\ UNCHANGED <<orders, placement, request>>
  BY DEF Bootstrap, Operated
<1>2. OrdersTold'
  BY <1>1 DEF RInv, OrdersTold
<1>3. Judged /\ \A p \in DOMAIN request.tree : Worked(p)
  BY <1>1 DEF RInv, Compiling, Operated
<1>4. CASE phase' = "checking" /\ UNCHANGED <<candidate, applied, results>>
  <2>1. Judged'
    BY <1>1, <1>3, <1>4, JudgedStays
  <2>2. \A p \in DOMAIN request.tree : Worked(p)'
    BY <1>1, <1>3, <1>4, WorkStays
  <2> QED
    BY <1>1, <1>2, <1>4, <2>1, <2>2 DEF RInv, Compiling, AnchorFound, RefusedForCause
<1>5. CASE placement.status = "stopped"
  <2>1. /\ phase' = "checking" /\ UNCHANGED <<candidate, applied>>
        /\ results' = Append(results,
             Result("bootstrap", NoPlace, "protected-residue", NoOutput, FALSE))
    BY <1>5 DEF Bootstrap
  <2>2. PICK r : results' = Append(results, r) /\ r.outcome = "protected-residue"
    BY <2>1 DEF Result
  <2>3. IsSequence(results)
    BY DEF IInv, Typed
  <2>4. Judged'
    BY <1>1, <1>3, <2>2, <2>3, ResultsGrow
  <2>5. \A p \in DOMAIN request.tree : Worked(p)'
    BY <1>1, <1>3, <2>1, WorkStays
  <2> QED
    BY <1>1, <1>2, <2>1, <2>4, <2>5 DEF RInv, Compiling, AnchorFound, RefusedForCause
<1>6. CASE /\ placement.status = "anchored"
           /\ AtAnchor /\ IsText(candidate.tree[placement.anchor.at])
  <2>1. phase' = "checking"
    BY <1>6 DEF Bootstrap
  <2>2. Judged' /\ \A p \in DOMAIN request.tree : Worked(p)'
    BY <1>1, <1>6, AnchorWorked
  <2> QED
    BY <1>1, <1>2, <2>1, <2>2 DEF RInv, Compiling, AnchorFound, RefusedForCause
<1>7. CASE /\ placement.status = "anchored"
           /\ ~(AtAnchor /\ IsText(candidate.tree[placement.anchor.at]))
  <2>1. phase' = "refused"
    BY <1>7 DEF Bootstrap
  <2>2. ForCause'
    BY <1>1, <1>7, AnchorLost, CauseStays
  <2>3. RefusedForCause'
    BY <2>2 DEF RefusedForCause, ForCause, EmptyMessage
  <2> QED
    BY <1>2, <2>1, <2>3 DEF RInv, Compiling, AnchorFound
<1> QED
  BY <1>4, <1>5, <1>6, <1>7 DEF Bootstrap

(***************************************************************************)
(* The check, and the theorem.                                             *)
(***************************************************************************)
(* What was made of the request came of it.                                *)
LEMMA CandidateIsDerived ==
  ASSUME IInv, RInv, phase = "checking"
  PROVE  /\ request \in Requests /\ Provider(request) \in Providers
         /\ Judged /\ \A p \in DOMAIN request.tree : Worked(p)
         /\ \A p \in DOMAIN request.tree : request.tree[p] \in Nodes
         /\ Derived(Provider(request), request.tree, candidate.tree)
<1>1. /\ request \in Requests
      /\ candidate \in [params : {Normalized(request)}, tree : [DOMAIN request.tree -> Nodes]]
  BY DEF IInv, AtHand
<1>2. Judged /\ \A p \in DOMAIN request.tree : Worked(p)
  BY DEF RInv, Compiling
<1>3. \A p \in DOMAIN request.tree : Became(Provider(request), request.tree[p], candidate.tree[p])
  BY <1>2 DEF Worked
<1>4. /\ DOMAIN request.tree \subseteq Places
      /\ \A p \in DOMAIN request.tree : request.tree[p] \in Nodes
  BY <1>1, RequestAssumption
<1>5. Shaped(Provider(request), request.tree)
  BY <1>1, RequestIsShaped
<1> QED
  BY <1>1, <1>2, <1>3, <1>4, <1>5, ProviderOfRequest DEF Derived

(* Without a cause, what the surgeries put in is there, and nothing else   *)
(* changed.                                                                *)
LEMMA ReconciledWithoutCause ==
  ASSUME IInv, RInv, phase = "checking", ~EmptyMessage, ~Misplaced
  PROVE  Reconciles
<1>0. ASSUME NEW m \in Envelopes(Provider(request), request.tree)
      PROVE  Whole(candidate.tree, m) = Whole(request.tree, m)
  <2>1. DOMAIN candidate.tree = DOMAIN request.tree
    BY CandidateIsDerived DEF Derived
  <2>2. Provider(request) = Chat /\ m = Item(m) /\ RoleAt(request.tree, m) \notin ChatRoles
    BY <1>0 DEF Envelopes, Items
  <2>3. ASSUME NEW q \in DOMAIN request.tree, Item(q) = m
        PROVE  candidate.tree[q] = request.tree[q]
    <3>1. Worked(q)
      BY CandidateIsDerived
    <3>2. RoleAt(request.tree, q) = RoleAt(request.tree, m)
      BY <2>2, <2>3 DEF RoleAt
    <3>3. q \notin DOMAIN applied
      BY <2>2, <3>1, <3>2 DEF Worked
    <3>4. AsParsed(Provider(request), request.tree[q], candidate.tree[q])
      BY <3>1, <3>3 DEF Worked
    <3> QED
      BY <2>2, <3>4 DEF AsParsed, Chat, Responses
  <2> QED
    BY <2>1, <2>3 DEF Whole
<1> SUFFICES ASSUME NEW p \in Occurrences(Provider(request), request.tree)
             PROVE  ValueAt(request.tree[p], candidate.tree[p]) =
                      IF p \in DOMAIN applied THEN applied[p] ELSE Value(request.tree[p])
  BY <1>0 DEF Reconciles
<1>1. p \in DOMAIN request.tree /\ Worked(p) /\ request \in Requests
  BY CandidateIsDerived, OccurrencesAreThere
<1>2. CASE p \in DOMAIN applied
  BY <1>1, <1>2 DEF Worked
<1>3. CASE p \notin DOMAIN applied
  <2>1. AsParsed(Provider(request), request.tree[p], candidate.tree[p])
    BY <1>1, <1>3 DEF Worked
  <2>2. CASE candidate.tree[p] = request.tree[p]
    BY <1>3, <2>2 DEF Value
  <2>3. CASE /\ request.tree[p].type \in TextTypes /\ candidate.tree[p].type \in TextTypes
             /\ candidate.tree[p].text = request.tree[p].text
    BY <1>3, <2>3 DEF Value, ValueAt, IsText
  <2>4. ~(/\ Provider(request) = Responses
          /\ request.tree[p].type = "message" /\ request.tree[p].form = "string"
          /\ request.tree[p].text = Plain(Blank))
    BY <1>1, EmptiedIsCause
  <2> QED
    BY <2>1, <2>2, <2>3, <2>4 DEF AsParsed
<1> QED
  BY <1>2, <1>3

(* Without a cause, the candidate is accepted. *)
LEMMA AcceptedWithoutCause ==
  ASSUME IInv, RInv, phase = "checking", ~ForCause
  PROVE  Accepted
<1>1. /\ Sound(Provider(request), request.tree)
      /\ \A i \in DOMAIN orders : AsSeen(orders[i]) /\ ~Blanked(i)
      /\ ~EmptyMessage /\ ~Misplaced
  BY DEF ForCause
<1>2. ~Fatal
  BY <1>1, CandidateIsDerived DEF Judged, Fatal
<1>3. Reconciles
  BY <1>1, ReconciledWithoutCause
<1>4. ASSUME Provider(request) = Anthropic, NEW p \in DOMAIN request.tree
      PROVE  \/ candidate.tree[p] = request.tree[p]
             \/ /\ RoleAt(request.tree, p) # "system"
                /\ \/ candidate.tree[p].text # Plain(Blank)
                   \/ p[3] # 0
                   \/ request.tree[p].type = "result"
  <2>1. Worked(p)
    BY CandidateIsDerived
  <2>2. CASE p \notin DOMAIN applied
    <3>1. AsParsed(Provider(request), request.tree[p], candidate.tree[p])
      BY <2>1, <2>2 DEF Worked
    <3> QED
      BY <1>4, <3>1 DEF AsParsed, Anthropic, Responses
  <2>3. CASE p \in DOMAIN applied
    <3>1. RoleAt(request.tree, p) # "system"
      BY <1>4, <2>1, <2>3 DEF Worked
    <3>2. ASSUME candidate.tree[p].text = Plain(Blank)
          PROVE  p[3] # 0 \/ request.tree[p].type = "result"
      <4>1. PICK i \in DOMAIN orders : orders[i].at = p /\ orders[i].action.text = Blank
        BY <2>1, <2>3, <3>2 DEF Worked
      <4> QED
        BY <1>1, <1>4, <4>1 DEF Blanked
    <3> QED
      BY <3>1, <3>2
  <2> QED
    BY <2>2, <2>3
<1>5. Valid(Provider(request), request.tree, candidate.tree)
  BY <1>1, <1>4, CandidateIsDerived, DerivedIsValid
<1> QED
  BY <1>2, <1>3, <1>5 DEF Accepted

LEMMA CheckExplains ==
  ASSUME IInv, RInv, Check
  PROVE  RInv'
<1>1. /\ phase = "checking" /\ phase' = IF Accepted THEN "sent" ELSE "refused"
      /\ UNCHANGED <<orders, placement, request>>
  BY DEF Check
<1>2. OrdersTold'
  BY <1>1 DEF RInv, OrdersTold
<1>3. CASE Accepted
  BY <1>1, <1>2, <1>3, RestingExplains
<1>4. CASE ~Accepted
  <2>1. ForCause'
    BY <1>1, <1>4, AcceptedWithoutCause, CauseStays
  <2>2. RefusedForCause'
    BY <2>1 DEF RefusedForCause, ForCause, EmptyMessage
  <2> QED
    BY <1>1, <1>2, <1>4, <2>2 DEF RInv, Compiling, AnchorFound
<1> QED
  BY <1>3, <1>4

LEMMA StutterExplains ==
  ASSUME RInv, UNCHANGED vars
  PROVE  RInv'
<1> USE DEF vars
<1>1. OrdersTold'
  BY DEF RInv, OrdersTold
<1>2. Compiling'
  <2>1. Judged => Judged'
    BY JudgedStays
  <2>2. \A p : Worked(p) => Worked(p)'
    BY WorkStays
  <2> QED
    BY <2>1, <2>2 DEF RInv, Compiling
<1>3. AnchorFound'
  BY DEF RInv, AnchorFound, Found, Exact, Echoes
<1>4. RefusedForCause'
  <2>1. phase = "refused" => ForCause'
    BY CauseIsTold, CauseStays DEF RInv
  <2> QED
    BY <2>1 DEF RefusedForCause, ForCause, EmptyMessage
<1> QED
  BY <1>1, <1>2, <1>3, <1>4 DEF RInv

(* No request is refused but for a cause: its own faults, a surgery that   *)
(* was ordered in another history, a text blanked that must not be empty,  *)
(* an empty string for a message of the Responses dialect, a surgery on a  *)
(* text the client sends with the bootstrap text, or an anchor that a trim *)
(* leaves to a message of another role.  Whatever else the user orders,    *)
(* the reconciliation and the validation of the compiler accept what is    *)
(* made of the request.                                                    *)
THEOREM RefusedForCauseAlways == Spec => []RefusedForCause
<1>1. ASSUME IInv, RInv, Next PROVE RInv'
  <2>1. CASE OrderOne
    BY <1>1, <2>1, OrderExplains DEF OrderOne
  <2>2. CASE RestoreOne
    BY <1>1, <2>2, RestoreExplains DEF RestoreOne
  <2>3. CASE RejectOne
    BY <1>1, <2>3, RejectExplains DEF RejectOne
  <2>4. CASE ReceiveOne
    BY <1>1, <2>4, ReceiveExplains DEF ReceiveOne
  <2>5. CASE Operate
    BY <1>1, <2>5, OperateExplains
  <2>6. CASE Bootstrap
    BY <1>1, <2>6, BootstrapExplains
  <2>7. CASE Check
    BY <1>1, <2>7, CheckExplains
  <2> QED
    BY <1>1, <2>1, <2>2, <2>3, <2>4, <2>5, <2>6, <2>7 DEF Next
<1>2. IInv /\ RInv /\ [Next]_vars => RInv'
  BY <1>1, StutterExplains
<1>3. RInv => RefusedForCause
  BY DEF RInv
<1> QED
  BY Invariant, InitExplains, <1>2, <1>3, PTL DEF Spec

=============================================================================
